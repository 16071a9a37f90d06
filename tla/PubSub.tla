------------------------------- MODULE PubSub -------------------------------
(***************************************************************************)
(* pkg/pubsub: one PubSub, its streaming goroutine, the goroutines that    *)
(* publish, those that subscribe, listen and unsubscribe, and the one that *)
(* closes it.                                                              *)
(*                                                                         *)
(* A message is a topic and a number.  Each subscriber id belongs to one   *)
(* goroutine, as in provider/aws/lambda_gateway_handler.go.  What is done  *)
(* under the write lock is one action: nobody sees half of it.             *)
(***************************************************************************)
EXTENDS Integers, Sequences, FiniteSets

CONSTANTS
    Ids,                    \* subscriber ids, one goroutine each
    Publishers,             \* goroutines that call Publish
    Streamer,               \* the goroutine of startStreaming
    Closer,                 \* the goroutine that calls Close
    Topics,
    BlockingModes,          \* the values of Publish's argument blockingPublish
    BlockingSubscription,   \* the arguments of NewPubSub
    StreamSize,
    ListenerSize,
    None,
    MaxBatch,               \* bound: messages of one Publish
    MaxMessages             \* bound: messages of all of them

ASSUME PubSubAssumption ==
    /\ Ids \cap Publishers = {}
    /\ Streamer \notin Ids \cup Publishers
    /\ Closer \notin Ids \cup Publishers \cup {Streamer}
    /\ BlockingModes \subseteq BOOLEAN
    /\ BlockingSubscription \in BOOLEAN
    /\ StreamSize \in Nat
    /\ ListenerSize \in Nat
    /\ MaxBatch \in Nat
    /\ MaxMessages \in Nat

Procs == Ids \cup Publishers \cup {Streamer, Closer}

Messages == [topic : Topics, n : 1..MaxMessages]

ASSUME NoneAssumption == None \notin Messages \cup Procs

VARIABLES
    pc,              \* where each goroutine is
    readers,         \* goroutines that hold the read lock of mu
    queued,          \* goroutines that wait for the read lock
    writer,          \* the goroutine that holds or awaits the write lock
    subscriptions,   \* ids by topic; a topic without ids is not in the map
    subscribers,     \* ids that have a subscriber
    topicsOf,        \* subscriptions of each subscriber
    stream, inbox,   \* buffers of the stream and of each subscriber
    closed,          \* the closed channels; Streamer stands for the stream
    batch, blocking, \* messages a Publish has yet to send, blockingPublish
    asked,           \* topics given to Subscribe or Unsubscribe
    held, targets,   \* message of the streamer, ids it has yet to serve
    published,       \* number of messages given to Publish
    panicked         \* a goroutine has panicked: the process is gone

locks == <<readers, queued, writer>>
maps == <<subscriptions, subscribers, topicsOf>>
channels == <<stream, inbox, closed>>
publishing == <<batch, blocking, published>>
arguments == <<batch, blocking, asked, published>>
streaming == <<held, targets>>
vars == <<pc, locks, maps, channels, arguments, streaming, panicked>>

Stages == {"idle", "listen", "subscribe", "unsubscribe", "rlock", "read",
           "put", "recv", "end", "close"}

StagesOK ==
    /\ pc \in [Procs -> Stages]
    /\ \A i \in Ids : pc[i] \in {"idle", "listen", "subscribe", "unsubscribe"}
    /\ \A p \in Publishers : pc[p] \in {"idle", "rlock", "read"}
    /\ pc[Streamer] \in {"idle", "recv", "rlock", "read", "put", "end"}
    /\ pc[Closer] \in {"idle", "close"}

LocksOK ==
    /\ readers \in SUBSET Procs
    /\ queued \in SUBSET Procs
    /\ writer \in Procs \cup {None}

MapsOK ==
    /\ subscriptions \in [Topics -> SUBSET Ids]
    /\ subscribers \in SUBSET Ids
    /\ topicsOf \in [Ids -> SUBSET Topics]

ChannelsOK ==
    /\ stream \in Seq(Messages)
    /\ inbox \in [Ids -> Seq(Messages)]
    /\ closed \in SUBSET (Ids \cup {Streamer})

CallsOK ==
    /\ batch \in [Publishers -> Seq(Messages)]
    /\ blocking \in [Publishers -> BOOLEAN]
    /\ asked \in [Ids -> SUBSET Topics]
    /\ published \in 0..MaxMessages

StreamingOK ==
    /\ held \in Messages \cup {None}
    /\ targets \in SUBSET Ids
    /\ panicked \in BOOLEAN

TypeOK == StagesOK /\ LocksOK /\ MapsOK /\ ChannelsOK /\ CallsOK /\ StreamingOK

Init ==
    /\ pc = [p \in Procs |-> "idle"]
    /\ readers = {}
    /\ queued = {}
    /\ writer = None
    /\ subscriptions = [t \in Topics |-> {}]
    /\ subscribers = {}
    /\ topicsOf = [i \in Ids |-> {}]
    /\ stream = <<>>
    /\ inbox = [i \in Ids |-> <<>>]
    /\ closed = {}
    /\ batch = [p \in Publishers |-> <<>>]
    /\ blocking = [p \in Publishers |-> FALSE]
    /\ asked = [i \in Ids |-> {}]
    /\ held = None
    /\ targets = {}
    /\ published = 0
    /\ panicked = FALSE

At(p, stage) == ~panicked /\ pc[p] = stage

Goto(p, stage) == pc' = [pc EXCEPT ![p] = stage]

Panic ==
    /\ panicked' = TRUE
    /\ UNCHANGED <<pc, locks, maps, channels, arguments, streaming>>

-----------------------------------------------------------------------------
(* sync.RWMutex: a goroutine that waits for the write lock keeps new       *)
(* readers out; its Unlock lets in all those that waited.                  *)

RLock(p) ==
    /\ IF writer = None
       THEN readers' = readers \cup {p} /\ UNCHANGED queued
       ELSE queued' = queued \cup {p} /\ UNCHANGED readers
    /\ UNCHANGED writer

RUnlock(p) ==
    /\ readers' = readers \ {p}
    /\ UNCHANGED <<queued, writer>>

Announce(p) ==
    /\ At(p, "subscribe") \/ At(p, "unsubscribe") \/ At(p, "close")
    /\ writer = None
    /\ writer' = p
    /\ UNCHANGED <<pc, readers, queued, maps, channels, arguments, streaming,
                   panicked>>

HasLock(p) == writer = p /\ readers = {}

Unlock ==
    /\ writer' = None
    /\ readers' = queued
    /\ queued' = {}

-----------------------------------------------------------------------------
(* The goroutine of a subscriber                                           *)

\* Subscribe(i, topics...) and Unsubscribe(i, topics...), for any topics.
CallSubscribe(i) ==
    /\ At(i, "idle")
    /\ \E T \in SUBSET Topics : asked' = [asked EXCEPT ![i] = T]
    /\ \/ Goto(i, "subscribe")
       \/ Goto(i, "unsubscribe")
    /\ UNCHANGED <<locks, maps, channels, publishing, streaming, panicked>>

Return(i) == Goto(i, "idle") /\ asked' = [asked EXCEPT ![i] = {}]

\* Mutant of Subscribe: it only takes the read lock.
Subscribe_ReadLock(i) ==
    /\ At(i, "subscribe")
    /\ writer = i
    /\ subscribers' = subscribers \cup {i}
    /\ IF i \in subscribers
       THEN /\ topicsOf' = [topicsOf EXCEPT ![i] = @ \cup asked[i]]
            /\ UNCHANGED <<inbox, closed>>
       ELSE /\ topicsOf' = [topicsOf EXCEPT ![i] = asked[i]]
            /\ inbox' = [inbox EXCEPT ![i] = <<>>]
            /\ closed' = closed \ {i}
    /\ subscriptions' = [t \in Topics |->
           IF t \in asked[i] THEN subscriptions[t] \cup {i}
                             ELSE subscriptions[t]]
    /\ writer' = None
    /\ readers' = readers \cup queued
    /\ queued' = {}
    /\ Return(i)
    /\ UNCHANGED <<stream, publishing, streaming, panicked>>

\* Subscribe under the lock: a new id gets a subscriber with a new channel.
Subscribe(i) ==
    /\ At(i, "subscribe")
    /\ HasLock(i)
    /\ subscribers' = subscribers \cup {i}
    /\ IF i \in subscribers
       THEN /\ topicsOf' = [topicsOf EXCEPT ![i] = @ \cup asked[i]]
            /\ UNCHANGED <<inbox, closed>>
       ELSE /\ topicsOf' = [topicsOf EXCEPT ![i] = asked[i]]
            /\ inbox' = [inbox EXCEPT ![i] = <<>>]
            /\ closed' = closed \ {i}
    /\ subscriptions' = [t \in Topics |->
           IF t \in asked[i] THEN subscriptions[t] \cup {i}
                             ELSE subscriptions[t]]
    /\ Unlock
    /\ Return(i)
    /\ UNCHANGED <<stream, publishing, streaming, panicked>>

\* Mutant of Unsubscribe: the topics it is subscribed to are left, but only
\* in its own map.
Unsubscribe_OneMap(i) ==
    /\ At(i, "unsubscribe")
    /\ HasLock(i)
    /\ LET left == IF asked[i] = {} THEN topicsOf[i] ELSE asked[i]
           kept == topicsOf[i] \ left
       IN  /\ topicsOf' = [topicsOf EXCEPT ![i] = kept]
           /\ subscribers' = IF kept = {} THEN subscribers \ {i}
                                          ELSE subscribers
    /\ Unlock
    /\ Return(i)
    /\ UNCHANGED <<subscriptions, channels, publishing, streaming, panicked>>

\* Mutant of Unsubscribe: a subscriber without topics is closed and kept.
Unsubscribe_Closes(i) ==
    /\ At(i, "unsubscribe")
    /\ HasLock(i)
    /\ closed' = IF i \in subscribers /\ topicsOf[i] = {} THEN closed \cup {i}
                                                        ELSE closed
    /\ Unlock
    /\ Return(i)
    /\ UNCHANGED <<maps, stream, inbox, publishing, streaming, panicked>>

\* Unsubscribe under the lock: of the topics given, or of all, it leaves
\* those the subscriber is not subscribed to (line 216).
Unsubscribe(i) ==
    /\ At(i, "unsubscribe")
    /\ HasLock(i)
    /\ IF i \in subscribers
       THEN LET topics == IF asked[i] = {} THEN topicsOf[i] ELSE asked[i]
                left == topics \ topicsOf[i]
                kept == topicsOf[i] \ left
            IN  /\ topicsOf' = [topicsOf EXCEPT ![i] = kept]
                /\ subscriptions' = [t \in Topics |->
                       IF t \in left THEN subscriptions[t] \ {i}
                                     ELSE subscriptions[t]]
                /\ subscribers' = IF kept = {} THEN subscribers \ {i}
                                               ELSE subscribers
       ELSE UNCHANGED maps
    /\ Unlock
    /\ Return(i)
    /\ UNCHANGED <<channels, publishing, streaming, panicked>>

\* A receive from Stream(): a buffered message, a closed channel, or a wait.
Listen(i) ==
    /\ At(i, "idle")
    /\ i \in subscribers
    /\ \/ /\ inbox[i] # <<>>
          /\ inbox' = [inbox EXCEPT ![i] = Tail(@)]
          /\ UNCHANGED pc
       \/ /\ inbox[i] = <<>>
          /\ i \notin closed
          /\ Goto(i, "listen")
          /\ UNCHANGED inbox
    /\ UNCHANGED <<locks, maps, stream, closed, arguments, streaming,
                   panicked>>

\* The timer of the goroutine ends its wait.
StopListening(i) ==
    /\ At(i, "listen")
    /\ Goto(i, "idle")
    /\ UNCHANGED <<locks, maps, channels, arguments, streaming, panicked>>

-----------------------------------------------------------------------------
(* Publish                                                                 *)

Batch(topics) ==
    [k \in 1..Len(topics) |-> [topic |-> topics[k], n |-> published + k]]

CallPublish(p) ==
    /\ At(p, "idle")
    /\ \E k \in 1..MaxBatch : \E topics \in [1..k -> Topics] :
           /\ published + k <= MaxMessages
           /\ batch' = [batch EXCEPT ![p] = Batch(topics)]
           /\ published' = published + k
    /\ \E b \in BlockingModes : blocking' = [blocking EXCEPT ![p] = b]
    /\ Goto(p, "rlock")
    /\ UNCHANGED <<locks, maps, channels, asked, streaming, panicked>>

LockPublish(p) ==
    /\ At(p, "rlock")
    /\ RLock(p)
    /\ Goto(p, "read")
    /\ UNCHANGED <<maps, channels, arguments, streaming, panicked>>

Reading(p, stage) == At(p, stage) /\ p \in readers

Message(p) == Head(batch[p])

HasMessage(p) == batch[p] # <<>>

NextMessage(p) == batch' = [batch EXCEPT ![p] = Tail(@)]

\* The topic has no subscription.
Skip(p) ==
    /\ Reading(p, "read")
    /\ HasMessage(p)
    /\ subscriptions[Message(p).topic] = {}
    /\ NextMessage(p)
    /\ UNCHANGED <<pc, locks, maps, channels, blocking, asked, published,
                   streaming, panicked>>

Sending(p) ==
    /\ Reading(p, "read")
    /\ HasMessage(p)
    /\ subscriptions[Message(p).topic] # {}

HasRoom == Len(stream) < StreamSize

\* After a message that was sent, a blocking Publish returns.
After(p) == IF blocking[p] THEN "idle" ELSE "read"

Sent(p) ==
    IF blocking[p]
    THEN RUnlock(p) /\ batch' = [batch EXCEPT ![p] = <<>>]
    ELSE UNCHANGED locks /\ NextMessage(p)

\* The stream takes the message: the streamer that waits, or the buffer.
Send(p) ==
    /\ Sending(p)
    /\ Streamer \notin closed
    /\ \/ /\ pc[Streamer] = "recv"
          /\ held' = Message(p)
          /\ pc' = [pc EXCEPT ![Streamer] = "rlock", ![p] = After(p)]
          /\ UNCHANGED stream
       \/ /\ pc[Streamer] # "recv"
          /\ HasRoom
          /\ stream' = Append(stream, Message(p))
          /\ Goto(p, After(p))
          /\ UNCHANGED held
    /\ Sent(p)
    /\ UNCHANGED <<maps, inbox, closed, blocking, asked, published, targets,
                   panicked>>

\* Nobody takes the message: without blocking it is dropped.
Drop(p) ==
    /\ Sending(p)
    /\ ~blocking[p]
    /\ Streamer \notin closed
    /\ pc[Streamer] # "recv"
    /\ ~HasRoom
    /\ NextMessage(p)
    /\ UNCHANGED <<pc, locks, maps, channels, blocking, asked, published,
                   streaming, panicked>>

SendClosed(p) == Sending(p) /\ Streamer \in closed /\ Panic

ReturnPublish(p) ==
    /\ Reading(p, "read")
    /\ ~HasMessage(p)
    /\ RUnlock(p)
    /\ Goto(p, "idle")
    /\ UNCHANGED <<maps, channels, arguments, streaming, panicked>>

-----------------------------------------------------------------------------
(* startStreaming                                                          *)

\* range ps.stream: a buffered message, the end of a closed stream, or a wait.
Take ==
    /\ At(Streamer, "idle")
    /\ \/ /\ stream # <<>>
          /\ held' = Head(stream)
          /\ stream' = Tail(stream)
          /\ Goto(Streamer, "rlock")
       \/ /\ stream = <<>>
          /\ Goto(Streamer, IF Streamer \in closed THEN "end" ELSE "recv")
          /\ UNCHANGED <<held, stream>>
    /\ UNCHANGED <<locks, maps, inbox, closed, arguments, targets, panicked>>

LockStream ==
    /\ At(Streamer, "rlock")
    /\ RLock(Streamer)
    /\ Goto(Streamer, "read")
    /\ UNCHANGED <<maps, channels, arguments, streaming, panicked>>

\* The ids subscribed to the topic; a topic that has none ends the turn.
LookUp ==
    /\ Reading(Streamer, "read")
    /\ targets' = subscriptions[held.topic]
    /\ IF targets' = {}
       THEN Goto(Streamer, "idle") /\ RUnlock(Streamer) /\ held' = None
       ELSE Goto(Streamer, "put") /\ UNCHANGED <<locks, held>>
    /\ UNCHANGED <<maps, channels, arguments, panicked>>

\* Put(message, BlockingSubscription) for the ids, in the order of a Go map.
Put(i) ==
    /\ Reading(Streamer, "put")
    /\ i \in targets \cap subscribers
    /\ i \notin closed
    /\ \/ /\ pc[i] = "listen"
          /\ Goto(i, "idle")
          /\ UNCHANGED inbox
       \/ /\ pc[i] # "listen"
          /\ Len(inbox[i]) < ListenerSize
          /\ inbox' = [inbox EXCEPT ![i] = Append(@, held)]
          /\ UNCHANGED pc
       \/ /\ pc[i] # "listen"
          /\ Len(inbox[i]) >= ListenerSize
          /\ ~BlockingSubscription
          /\ UNCHANGED <<pc, inbox>>
    /\ targets' = targets \ {i}
    /\ UNCHANGED <<locks, maps, stream, closed, arguments, held, panicked>>

PutClosed(i) ==
    /\ Reading(Streamer, "put")
    /\ i \in targets \cap subscribers \cap closed
    /\ Panic

\* Mutant of EndOfTurn: the read lock is kept.
EndOfTurn_KeepsLock ==
    /\ Reading(Streamer, "put")
    /\ targets \cap subscribers = {}
    /\ Goto(Streamer, "idle")
    /\ held' = None
    /\ targets' = {}
    /\ UNCHANGED <<locks, maps, channels, arguments, panicked>>

EndOfTurn ==
    /\ Reading(Streamer, "put")
    /\ targets \cap subscribers = {}
    /\ RUnlock(Streamer)
    /\ Goto(Streamer, "idle")
    /\ held' = None
    /\ targets' = {}
    /\ UNCHANGED <<maps, channels, arguments, panicked>>

-----------------------------------------------------------------------------
(* Close                                                                   *)

CallClose ==
    /\ At(Closer, "idle")
    /\ Goto(Closer, "close")
    /\ UNCHANGED <<locks, maps, channels, arguments, streaming, panicked>>

\* Closes every subscriber and the stream: those that wait on them go on.
Close ==
    /\ At(Closer, "close")
    /\ HasLock(Closer)
    /\ IF Streamer \in closed \/ subscribers \cap closed # {}
       THEN Panic
       ELSE /\ closed' = closed \cup subscribers \cup {Streamer}
            /\ pc' = [p \in Procs |->
                   CASE p = Closer -> "idle"
                     [] p \in subscribers /\ pc[p] = "listen" -> "idle"
                     [] p = Streamer /\ pc[p] = "recv" -> "end"
                     [] OTHER -> pc[p]]
            /\ Unlock
            /\ UNCHANGED <<maps, stream, inbox, arguments, streaming,
                           panicked>>

-----------------------------------------------------------------------------
Subscriber(i) ==
    \/ CallSubscribe(i)
    \/ Subscribe(i)
    \/ Unsubscribe(i)
    \/ Listen(i)
    \/ StopListening(i)

Publisher(p) ==
    \/ CallPublish(p)
    \/ LockPublish(p)
    \/ Skip(p)
    \/ Send(p)
    \/ Drop(p)
    \/ SendClosed(p)
    \/ ReturnPublish(p)

Streaming ==
    \/ Take
    \/ LockStream
    \/ LookUp
    \/ \E i \in Ids : Put(i) \/ PutClosed(i)
    \/ EndOfTurn

Closing == CallClose \/ Close

Next ==
    \/ \E i \in Ids : Subscriber(i)
    \/ \E p \in Publishers : Publisher(p)
    \/ Streaming
    \/ Closing
    \/ \E p \in Ids \cup {Closer} : Announce(p)

Spec == Init /\ [][Next]_vars

\* Every goroutine inside a call is scheduled.  The write lock and a blocked
\* send are served in the order of arrival (sync.Mutex and channels), which
\* strong fairness stands for.
FairSpec ==
    /\ Spec
    /\ WF_vars(Streaming)
    /\ WF_vars(Close)
    /\ SF_vars(Announce(Closer))
    /\ \A i \in Ids :
           /\ WF_vars(Subscribe(i) \/ Unsubscribe(i))
           /\ SF_vars(Announce(i))
    /\ \A p \in Publishers :
           /\ WF_vars(LockPublish(p) \/ Skip(p) \/ Drop(p) \/ SendClosed(p)
                      \/ ReturnPublish(p))
           /\ SF_vars(Send(p))

-----------------------------------------------------------------------------
(* Properties                                                              *)

\* The two maps that say who is subscribed to what agree, however calls of
\* Subscribe and Unsubscribe interleave: the streamer, which goes by the
\* topic, serves an id exactly if Unsubscribe, which goes by the id, can still
\* find it.
SubscriptionsAgree ==
    \A t \in Topics, i \in Ids :
        i \in subscriptions[t] <=> i \in subscribers /\ t \in topicsOf[i]

\* A goroutine between RLock and RUnlock of startStreaming or Publish.
InsideRead(p) == pc[p] \in {"read", "put"} /\ p \in readers

\* No map is written, and no channel closed, while startStreaming or Publish
\* goes through them (a concurrent map read and write ends a Go process).
MapsAreStill ==
    [][<<maps, closed>>' # <<maps, closed>>
       => \A p \in Publishers \cup {Streamer} : ~InsideRead(p)]_vars

\* Until Close is called no goroutine sends on a closed channel, however often
\* subscribers are deleted and made again.  (Afterwards a late Publish, the
\* streamer with a message it has taken before, and a second Close do.)
PanicsOnlyAfterClose == panicked => Streamer \in closed

InCall(p) == pc[p] \in {"rlock", "read", "subscribe", "unsubscribe", "close"}

\* Every call returns, or the process has panicked.
CallsReturn ==
    \A p \in Ids \cup Publishers \cup {Closer} :
        InCall(p) ~> ~InCall(p) \/ panicked

\* A Publish that blocks in the stream under the read lock, a goroutine that
\* waits for the write lock, and the streamer, kept out by it, whose turn has
\* to end before it receives again.
Entangled ==
    /\ \E p \in Publishers : Sending(p) /\ blocking[p]
    /\ writer # None
    /\ Streamer \in queued

\* Subscribe, Unsubscribe, Publish and Close return under the shared lock, or
\* the three of them wait for each other: there is no other way to get stuck.
\* In particular every call returns where no Publish blocks.
CallsReturnUnlessEntangled == CallsReturn \/ <>[]Entangled
=============================================================================

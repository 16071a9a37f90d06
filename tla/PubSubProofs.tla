---------------------------- MODULE PubSubProofs ----------------------------
(***************************************************************************)
(* Proofs about PubSub, for any number of subscribers, publishers, topics  *)
(* and messages, any size of the buffers, blocking or not.                 *)
(***************************************************************************)
EXTENDS PubSub, TLAPS

\* The streamer has a message from when it receives one until its turn ends.
HoldsMessage == pc[Streamer] \in {"rlock", "read", "put"} => held \in Messages

\* Only Close closes channels, and it closes the stream with them.
ClosedTogether == Streamer \notin closed => closed = {} /\ ~panicked

PubSubInv ==
    /\ TypeOK
    /\ HoldsMessage
    /\ SubscriptionsAgree
    /\ ClosedTogether

-----------------------------------------------------------------------------
\* The goroutines have names of their own.
LEMMA NamesDiffer ==
    /\ Ids \subseteq Procs
    /\ Publishers \subseteq Procs
    /\ Streamer \in Procs
    /\ Closer \in Procs
    /\ Streamer # Closer
    /\ \A i \in Ids : i # Streamer /\ i # Closer
    /\ \A p \in Publishers : p # Streamer /\ p # Closer
    /\ Ids \cap Publishers = {}
    /\ None \notin Procs
    /\ None \notin Messages
  BY PubSubAssumption, NoneAssumption DEF Procs

\* Publish numbers its messages within the bound.
LEMMA BatchType ==
    ASSUME TypeOK,
           NEW k \in 1..MaxBatch, NEW topics \in [1..k -> Topics],
           published + k <= MaxMessages
    PROVE  Batch(topics) \in Seq(Messages)
  <1>1. k \in Nat /\ published \in Nat /\ MaxMessages \in Nat
    BY PubSubAssumption DEF TypeOK, CallsOK
  <1>2. Len(topics) = k
    BY <1>1
  <1>3. ASSUME NEW j \in 1..k
        PROVE  [topic |-> topics[j], n |-> published + j] \in Messages
    BY <1>1, <1>3 DEF Messages
  <1> QED
    BY <1>1, <1>2, <1>3 DEF Batch

\* What the channels of Go do to sequences of messages.
LEMMA MessageSeqs ==
    /\ <<>> \in Seq(Messages)
    /\ \A s \in Seq(Messages) : s # <<>> =>
           Head(s) \in Messages /\ Tail(s) \in Seq(Messages)
    /\ \A s \in Seq(Messages), m \in Messages : Append(s, m) \in Seq(Messages)
  <1> DEFINE M == Messages
  <1> HIDE DEF M
  <1>1. <<>> \in Seq(M)
    OBVIOUS
  <1>2. \A s \in Seq(M) : s # <<>> => Head(s) \in M /\ Tail(s) \in Seq(M)
    OBVIOUS
  <1>3. \A s \in Seq(M), m \in M : Append(s, m) \in Seq(M)
    OBVIOUS
  <1> QED
    BY <1>1, <1>2, <1>3 DEF M

\* Subscribe enters the id on both sides.
LEMMA SubscribeStep ==
    ASSUME PubSubInv, NEW i \in Ids,
           Subscribe(i)
    PROVE  PubSubInv'
  <1>1. StagesOK'
    BY NamesDiffer DEF PubSubInv, TypeOK, StagesOK, Stages, Subscribe, At,
           Goto, Return
  <1>2. LocksOK'
    BY NamesDiffer DEF PubSubInv, TypeOK, LocksOK, Subscribe, Unlock, locks
  <1>3. MapsOK'
    BY DEF PubSubInv, TypeOK, MapsOK, CallsOK, Subscribe, maps
  <1>4. ChannelsOK'
    BY MessageSeqs DEF PubSubInv, TypeOK, ChannelsOK, Subscribe, At,
           channels
  <1>5. CallsOK'
    BY DEF PubSubInv, TypeOK, CallsOK, Subscribe, Return, arguments,
           publishing
  <1>6. HoldsMessage'
    BY NamesDiffer DEF PubSubInv, TypeOK, HoldsMessage, StagesOK, Subscribe,
           At, Goto, Return, streaming
  <1>7. SubscriptionsAgree'
    <2> SUFFICES ASSUME NEW t \in Topics, NEW j \in Ids
                 PROVE  j \in subscriptions'[t]
                        <=> j \in subscribers' /\ t \in topicsOf'[j]
      BY DEF SubscriptionsAgree
    <2>1. j \in subscriptions[t] <=> j \in subscribers /\ t \in topicsOf[j]
      BY DEF PubSubInv, SubscriptionsAgree
    <2>2. topicsOf \in [Ids -> SUBSET Topics]
      BY DEF PubSubInv, TypeOK, MapsOK
    <2>3. CASE j = i
      BY <2>1, <2>2, <2>3 DEF Subscribe
    <2>4. CASE j # i
      BY <2>1, <2>2, <2>4 DEF Subscribe
    <2> QED
      BY <2>3, <2>4
  <1>8. ClosedTogether'
    BY NamesDiffer DEF PubSubInv, TypeOK, ClosedTogether, Subscribe, At,
           channels
  <1>9. StreamingOK'
    BY DEF PubSubInv, TypeOK, StreamingOK, Subscribe, At, streaming
  <1> QED
    BY <1>1, <1>2, <1>3, <1>4, <1>5, <1>6, <1>7, <1>8, <1>9
       DEF PubSubInv, TypeOK

\* Unsubscribe leaves the topics on both sides.
LEMMA UnsubscribeStep ==
    ASSUME PubSubInv, NEW i \in Ids,
           Unsubscribe(i)
    PROVE  PubSubInv'
  <1>1. StagesOK'
    BY NamesDiffer DEF PubSubInv, TypeOK, StagesOK, Stages, Unsubscribe, At,
           Goto, Return
  <1>2. LocksOK'
    BY NamesDiffer DEF PubSubInv, TypeOK, LocksOK, Unsubscribe, Unlock,
           locks
  <1>3. MapsOK'
    <2>1. CASE i \in subscribers
      <3>1. subscriptions' \in [Topics -> SUBSET Ids]
        BY <2>1 DEF Unsubscribe, PubSubInv, TypeOK, MapsOK
      <3>2. subscribers' \in SUBSET Ids
        BY <2>1 DEF Unsubscribe, PubSubInv, TypeOK, MapsOK
      <3>3. topicsOf' \in [Ids -> SUBSET Topics]
        BY <2>1 DEF Unsubscribe, PubSubInv, TypeOK, MapsOK
      <3> QED
        BY <3>1, <3>2, <3>3 DEF MapsOK
    <2>2. CASE i \notin subscribers
      BY <2>2 DEF Unsubscribe, PubSubInv, TypeOK, MapsOK, maps
    <2> QED
      BY <2>1, <2>2
  <1>4. CallsOK'
    BY DEF PubSubInv, TypeOK, CallsOK, Unsubscribe, Return, arguments,
           publishing
  <1>5. HoldsMessage'
    BY NamesDiffer DEF PubSubInv, TypeOK, HoldsMessage, StagesOK,
           Unsubscribe, At, Goto, Return, streaming
  <1>6. SubscriptionsAgree'
    <2> SUFFICES ASSUME NEW t \in Topics, NEW j \in Ids
                 PROVE  j \in subscriptions'[t]
                        <=> j \in subscribers' /\ t \in topicsOf'[j]
      BY DEF SubscriptionsAgree
    <2>1. j \in subscriptions[t] <=> j \in subscribers /\ t \in topicsOf[j]
      BY DEF PubSubInv, SubscriptionsAgree
    <2>2. topicsOf \in [Ids -> SUBSET Topics]
      BY DEF PubSubInv, TypeOK, MapsOK
    <2>3. CASE i \notin subscribers
      BY <2>1, <2>3 DEF Unsubscribe, maps
    <2>4. CASE i \in subscribers /\ j # i
      BY <2>1, <2>2, <2>4 DEF Unsubscribe
    <2>5. CASE i \in subscribers /\ j = i
      BY <2>1, <2>2, <2>5 DEF Unsubscribe
    <2> QED
      BY <2>3, <2>4, <2>5
  <1>7. ChannelsOK' /\ StreamingOK' /\ ClosedTogether'
    BY DEF PubSubInv, TypeOK, ChannelsOK, StreamingOK, ClosedTogether,
           Unsubscribe, At, channels, streaming
  <1> QED
    BY <1>1, <1>2, <1>3, <1>4, <1>5, <1>6, <1>7
       DEF PubSubInv, TypeOK

\* A subscriber calls, listens or stops listening.
LEMMA ListenStep ==
    ASSUME PubSubInv, NEW i \in Ids,
           CallSubscribe(i) \/ Listen(i) \/ StopListening(i)
    PROVE  PubSubInv'
  <1>a. inbox[i] \in Seq(Messages)
    BY DEF PubSubInv, TypeOK, ChannelsOK
  <1>b. inbox[i] # <<>> =>
            Head(inbox[i]) \in Messages /\ Tail(inbox[i]) \in Seq(Messages)
    BY <1>a, MessageSeqs
  <1>1. StagesOK'
    BY NamesDiffer DEF PubSubInv, TypeOK, StagesOK, Stages, CallSubscribe,
           Listen, StopListening, At, Goto
  <1>2. ChannelsOK'
    BY <1>a, <1>b DEF PubSubInv, TypeOK, ChannelsOK, CallSubscribe, Listen,
           StopListening, At, channels
  <1>3. CallsOK'
    BY DEF PubSubInv, TypeOK, CallsOK, CallSubscribe, Listen, StopListening,
           arguments, publishing
  <1>4. HoldsMessage'
    BY NamesDiffer DEF PubSubInv, TypeOK, HoldsMessage, StagesOK,
           CallSubscribe, Listen, StopListening, At, Goto, streaming
  <1>5. LocksOK' /\ MapsOK' /\ StreamingOK' /\ SubscriptionsAgree' /\
        ClosedTogether'
    BY DEF PubSubInv, TypeOK, LocksOK, MapsOK, StreamingOK,
           SubscriptionsAgree, ClosedTogether, CallSubscribe, Listen,
           StopListening, At, locks, maps, channels, streaming
  <1> QED
    BY <1>1, <1>2, <1>3, <1>4, <1>5
       DEF PubSubInv, TypeOK

\* Publish takes the lock, skips or drops messages and returns.
LEMMA PublishStep ==
    ASSUME PubSubInv, NEW p \in Publishers,
           LockPublish(p) \/ Skip(p) \/ Drop(p) \/ ReturnPublish(p)
    PROVE  PubSubInv'
  <1>a. batch[p] \in Seq(Messages)
    BY DEF PubSubInv, TypeOK, CallsOK
  <1>b. batch[p] # <<>> =>
            Head(batch[p]) \in Messages /\ Tail(batch[p]) \in Seq(Messages)
    BY <1>a, MessageSeqs
  <1>1. StagesOK'
    BY NamesDiffer DEF PubSubInv, TypeOK, StagesOK, Stages, LockPublish,
           Skip, Drop, ReturnPublish, At, Goto
  <1>2. LocksOK'
    BY NamesDiffer DEF PubSubInv, TypeOK, LocksOK, LockPublish, Skip, Drop,
           ReturnPublish, RLock, RUnlock, locks
  <1>3. CallsOK'
    BY <1>b DEF PubSubInv, TypeOK, CallsOK, LockPublish, Skip, Drop,
           ReturnPublish, Sending, Message, HasMessage, NextMessage,
           arguments, publishing
  <1>4. HoldsMessage'
    BY NamesDiffer DEF PubSubInv, TypeOK, HoldsMessage, StagesOK,
           LockPublish, Skip, Drop, ReturnPublish, Sending, Reading,
           Message, HasMessage, At, Goto, streaming
  <1>5. MapsOK' /\ ChannelsOK' /\ StreamingOK' /\ SubscriptionsAgree' /\
        ClosedTogether'
    BY DEF PubSubInv, TypeOK, MapsOK, ChannelsOK, StreamingOK,
           SubscriptionsAgree, ClosedTogether, LockPublish, Skip, Drop,
           ReturnPublish, Sending, Reading, Message, HasMessage, At, maps,
           channels, streaming
  <1> QED
    BY <1>1, <1>2, <1>3, <1>4, <1>5
       DEF PubSubInv, TypeOK

\* The stream takes a message.
LEMMA SendStep ==
    ASSUME PubSubInv, NEW p \in Publishers,
           Send(p)
    PROVE  PubSubInv'
  <1>a. batch[p] \in Seq(Messages)
    BY DEF PubSubInv, TypeOK, CallsOK
  <1>b. batch[p] # <<>> =>
            Head(batch[p]) \in Messages /\ Tail(batch[p]) \in Seq(Messages)
    BY <1>a, MessageSeqs
  <1>c. Append(stream, Message(p)) \in Seq(Messages)
    BY <1>b, MessageSeqs
       DEF Send, Sending, HasMessage, Message, PubSubInv, TypeOK, ChannelsOK
  <1>1. StagesOK'
    BY NamesDiffer DEF PubSubInv, TypeOK, StagesOK, Stages, Send, After, At,
           Goto
  <1>2. LocksOK'
    BY NamesDiffer DEF PubSubInv, TypeOK, LocksOK, Send, Sent, RUnlock,
           locks
  <1>3. ChannelsOK'
    BY <1>c DEF PubSubInv, TypeOK, ChannelsOK, Send, Sending, Reading,
           Message, HasMessage, At, channels
  <1>4. CallsOK'
    BY <1>b, MessageSeqs DEF PubSubInv, TypeOK, CallsOK, Send, Sent,
           Sending, Message, HasMessage, NextMessage, arguments, publishing
  <1>5. StreamingOK'
    BY <1>b DEF PubSubInv, TypeOK, StreamingOK, Send, Sending, Reading,
           Message, HasMessage, At, streaming
  <1>6. HoldsMessage'
    BY NamesDiffer, <1>b DEF PubSubInv, TypeOK, HoldsMessage, StagesOK,
           Send, After, Sending, Reading, Message, HasMessage, At, Goto,
           streaming
  <1>7. MapsOK' /\ SubscriptionsAgree' /\ ClosedTogether'
    BY DEF PubSubInv, TypeOK, MapsOK, SubscriptionsAgree, ClosedTogether,
           Send, Sending, At, maps, channels
  <1> QED
    BY <1>1, <1>2, <1>3, <1>4, <1>5, <1>6, <1>7
       DEF PubSubInv, TypeOK

\* The streamer takes a message and finds its subscribers.
LEMMA StreamStep ==
    ASSUME PubSubInv,
           Take \/ LockStream \/ LookUp \/ EndOfTurn
    PROVE  PubSubInv'
  <1>a. stream # <<>> =>
            Head(stream) \in Messages /\ Tail(stream) \in Seq(Messages)
    BY MessageSeqs DEF PubSubInv, TypeOK, ChannelsOK
  <1>b. LookUp => targets' \in SUBSET Ids
    BY DEF LookUp, Reading, At, PubSubInv, TypeOK, MapsOK, HoldsMessage,
           Messages
  <1>1. StagesOK'
    BY NamesDiffer DEF PubSubInv, TypeOK, StagesOK, Stages, Take,
           LockStream, LookUp, EndOfTurn, At, Goto
  <1>2. LocksOK'
    BY NamesDiffer DEF PubSubInv, TypeOK, LocksOK, Take, LockStream, LookUp,
           EndOfTurn, RLock, RUnlock, locks
  <1>3. ChannelsOK'
    BY <1>a DEF PubSubInv, TypeOK, ChannelsOK, Take, LockStream, LookUp,
           EndOfTurn, Reading, At, channels
  <1>4. StreamingOK'
    BY <1>a, <1>b DEF PubSubInv, TypeOK, StreamingOK, Take, LockStream,
           LookUp, EndOfTurn, Reading, At, streaming
  <1>5. HoldsMessage'
    BY NamesDiffer, <1>a DEF PubSubInv, TypeOK, HoldsMessage, StagesOK,
           Take, LockStream, LookUp, EndOfTurn, Reading, At, Goto, streaming
  <1>6. MapsOK' /\ CallsOK' /\ SubscriptionsAgree' /\ ClosedTogether'
    BY DEF PubSubInv, TypeOK, MapsOK, CallsOK, SubscriptionsAgree,
           ClosedTogether, Take, LockStream, LookUp, EndOfTurn, At, maps,
           channels, arguments, publishing
  <1> QED
    BY <1>1, <1>2, <1>3, <1>4, <1>5, <1>6
       DEF PubSubInv, TypeOK

\* The streamer serves a subscriber.
LEMMA PutStep ==
    ASSUME PubSubInv, NEW i \in Ids,
           Put(i)
    PROVE  PubSubInv'
  <1>a. Append(inbox[i], held) \in Seq(Messages)
    BY MessageSeqs
       DEF Put, Reading, At, PubSubInv, TypeOK, ChannelsOK, HoldsMessage
  <1>1. StagesOK'
    BY NamesDiffer DEF PubSubInv, TypeOK, StagesOK, Stages, Put, At, Goto
  <1>2. ChannelsOK'
    BY <1>a DEF PubSubInv, TypeOK, ChannelsOK, Put, Reading, At, channels
  <1>3. StreamingOK'
    BY DEF PubSubInv, TypeOK, StreamingOK, HoldsMessage, Put, Reading, At,
           streaming
  <1>4. HoldsMessage'
    BY NamesDiffer DEF PubSubInv, TypeOK, HoldsMessage, StagesOK, Put,
           Reading, At, Goto, streaming
  <1>5. LocksOK' /\ MapsOK' /\ CallsOK' /\ SubscriptionsAgree' /\
        ClosedTogether'
    BY DEF PubSubInv, TypeOK, LocksOK, MapsOK, CallsOK, SubscriptionsAgree,
           ClosedTogether, Put, At, locks, maps, channels, arguments,
           publishing
  <1> QED
    BY <1>1, <1>2, <1>3, <1>4, <1>5
       DEF PubSubInv, TypeOK

\* Close closes every channel.
LEMMA CloseStep ==
    ASSUME PubSubInv,
           CallClose \/ Close
    PROVE  PubSubInv'
  <1>1. StagesOK'
    BY NamesDiffer DEF PubSubInv, TypeOK, StagesOK, Stages, CallClose,
           Close, Panic, At, Goto
  <1>2. LocksOK'
    BY NamesDiffer DEF PubSubInv, TypeOK, LocksOK, CallClose, Close, Panic,
           Unlock, locks
  <1>3. ChannelsOK'
    BY NamesDiffer DEF PubSubInv, TypeOK, ChannelsOK, MapsOK, CallClose,
           Close, Panic, At, channels
  <1>4. HoldsMessage'
    BY NamesDiffer DEF PubSubInv, TypeOK, HoldsMessage, StagesOK, CallClose,
           Close, Panic, At, Goto, streaming
  <1>5. StreamingOK'
    BY NamesDiffer DEF PubSubInv, TypeOK, StreamingOK, CallClose, Close,
           Panic, At, streaming
  <1>6. ClosedTogether'
    BY NamesDiffer DEF PubSubInv, TypeOK, ClosedTogether, CallClose, Close,
           Panic, At, channels
  <1>7. MapsOK' /\ CallsOK' /\ SubscriptionsAgree'
    BY DEF PubSubInv, TypeOK, MapsOK, CallsOK, SubscriptionsAgree,
           CallClose, Close, Panic, maps, arguments, publishing
  <1> QED
    BY <1>1, <1>2, <1>3, <1>4, <1>5, <1>6, <1>7
       DEF PubSubInv, TypeOK

\* A send on a closed channel.
LEMMA PanicStep ==
    ASSUME PubSubInv,
           (\E p \in Publishers : SendClosed(p)) \/ (\E i \in Ids : PutClosed(i))
    PROVE  PubSubInv'
  <1>1. StreamingOK'
    BY DEF PubSubInv, TypeOK, StreamingOK, SendClosed, PutClosed, Sending,
           Reading, Panic, At, streaming
  <1>2. ClosedTogether'
    BY NamesDiffer DEF PubSubInv, TypeOK, ClosedTogether, SendClosed,
           PutClosed, Sending, Panic, At, channels
  <1>3. StagesOK' /\ LocksOK' /\ MapsOK' /\ ChannelsOK' /\ CallsOK' /\
        HoldsMessage' /\ SubscriptionsAgree'
    BY DEF PubSubInv, TypeOK, StagesOK, LocksOK, MapsOK, ChannelsOK,
           CallsOK, HoldsMessage, SubscriptionsAgree, SendClosed, PutClosed,
           Sending, Reading, Panic, At, Goto, locks, maps, channels,
           arguments, publishing, streaming
  <1> QED
    BY <1>1, <1>2, <1>3
       DEF PubSubInv, TypeOK

\* A goroutine asks for the write lock.
LEMMA AnnounceStep ==
    ASSUME PubSubInv, NEW p \in Ids \cup {Closer},
           Announce(p)
    PROVE  PubSubInv'
  <1>1. LocksOK'
    BY NamesDiffer DEF PubSubInv, TypeOK, LocksOK, Announce, locks
  <1>2. StagesOK' /\ MapsOK' /\ ChannelsOK' /\ CallsOK' /\
        StreamingOK' /\ HoldsMessage' /\ SubscriptionsAgree' /\
        ClosedTogether'
    BY DEF PubSubInv, TypeOK, StagesOK, MapsOK, ChannelsOK, CallsOK,
           StreamingOK, HoldsMessage, SubscriptionsAgree, ClosedTogether,
           Announce, At, maps, channels, arguments, publishing, streaming
  <1> QED
    BY <1>1, <1>2
       DEF PubSubInv, TypeOK

\* Publish is called with a batch.
LEMMA CallPublishStep ==
    ASSUME PubSubInv, NEW p \in Publishers,
           CallPublish(p)
    PROVE  PubSubInv'
  <1>1. StagesOK'
    BY NamesDiffer DEF PubSubInv, TypeOK, StagesOK, Stages, CallPublish, At,
           Goto
  <1>2. CallsOK'
    <2>0. PICK k \in 1..MaxBatch : \E topics \in [1..k -> Topics] :
              /\ published + k <= MaxMessages
              /\ batch' = [batch EXCEPT ![p] = Batch(topics)]
              /\ published' = published + k
      BY DEF CallPublish
    <2>1. PICK topics \in [1..k -> Topics] :
              /\ published + k <= MaxMessages
              /\ batch' = [batch EXCEPT ![p] = Batch(topics)]
              /\ published' = published + k
      BY <2>0
    <2>2. Batch(topics) \in Seq(Messages)
      BY <2>1, BatchType DEF PubSubInv
    <2>3. published' \in 0..MaxMessages
      BY <2>1, PubSubAssumption DEF PubSubInv, TypeOK, CallsOK
    <2> QED
      BY <2>1, <2>2, <2>3, PubSubAssumption
         DEF CallPublish, PubSubInv, TypeOK, CallsOK
  <1>3. HoldsMessage'
    BY NamesDiffer DEF PubSubInv, TypeOK, HoldsMessage, StagesOK,
           CallPublish, At, Goto, streaming
  <1>4. LocksOK' /\ MapsOK' /\ ChannelsOK' /\ StreamingOK' /\
        SubscriptionsAgree' /\ ClosedTogether'
    BY DEF PubSubInv, TypeOK, LocksOK, MapsOK, ChannelsOK, StreamingOK,
           SubscriptionsAgree, ClosedTogether, CallPublish, At, locks, maps,
           channels, streaming
  <1> QED
    BY <1>1, <1>2, <1>3, <1>4
       DEF PubSubInv, TypeOK

-----------------------------------------------------------------------------
\* PubSubInv is inductive.
LEMMA PubSubInductive ==
    ASSUME PubSubInv, [Next]_vars
    PROVE  PubSubInv'
  <1>1. CASE \E i \in Ids : Subscriber(i)
    BY <1>1, SubscribeStep, UnsubscribeStep, ListenStep DEF Subscriber
  <1>2. CASE \E p \in Publishers : Publisher(p)
    BY <1>2, CallPublishStep, PublishStep, SendStep, PanicStep DEF Publisher
  <1>3. CASE Streaming
    BY <1>3, StreamStep, PutStep, PanicStep DEF Streaming
  <1>4. CASE Closing
    BY <1>4, CloseStep DEF Closing
  <1>5. CASE \E p \in Ids \cup {Closer} : Announce(p)
    BY <1>5, AnnounceStep
  <1>6. CASE UNCHANGED vars
    BY <1>6 DEF vars, locks, maps, channels, arguments, streaming, PubSubInv,
                TypeOK, StagesOK, LocksOK, MapsOK, ChannelsOK, CallsOK,
                StreamingOK, HoldsMessage, SubscriptionsAgree, ClosedTogether
  <1> QED
    BY <1>1, <1>2, <1>3, <1>4, <1>5, <1>6 DEF Next

\* It holds at the start.
LEMMA PubSubStarts == Init => PubSubInv
  <1> SUFFICES ASSUME Init
               PROVE  PubSubInv
    OBVIOUS
  <1>1. StagesOK /\ LocksOK /\ MapsOK
    BY NamesDiffer DEF Init, StagesOK, Stages, LocksOK, MapsOK
  <1>2. ChannelsOK /\ CallsOK /\ StreamingOK
    <2>1. ChannelsOK
      BY MessageSeqs DEF Init, ChannelsOK
    <2>2. published \in 0..MaxMessages
      BY PubSubAssumption DEF Init
    <2>3. CallsOK
      BY <2>2, MessageSeqs DEF Init, CallsOK
    <2>4. StreamingOK
      BY DEF Init, StreamingOK
    <2> QED
      BY <2>1, <2>3, <2>4
  <1>3. HoldsMessage /\ SubscriptionsAgree /\ ClosedTogether
    BY NamesDiffer DEF Init, HoldsMessage, SubscriptionsAgree, ClosedTogether
  <1> QED
    BY <1>1, <1>2, <1>3 DEF PubSubInv, TypeOK

LEMMA PubSubInvariant == Spec => []PubSubInv
  BY PubSubStarts, PubSubInductive, PTL DEF Spec

\* Every reachable state is well typed: in particular the streamer has a
\* message whenever it looks for the subscribers of one.
THEOREM PubSubTypeCorrect == Spec => []TypeOK
  BY PubSubInvariant, PTL DEF PubSubInv

\* The map by topic, which startStreaming and Publish use, and the map by id,
\* which Unsubscribe uses, always agree.
THEOREM PubSubSubscriptionsAgree == Spec => []SubscriptionsAgree
  BY PubSubInvariant, PTL DEF PubSubInv

\* Only Close makes a send panic: before it, no goroutine meets a closed
\* channel.
THEOREM PubSubPanicsOnlyAfterClose == Spec => []PanicsOnlyAfterClose
  <1>1. PubSubInv => PanicsOnlyAfterClose
    BY DEF PubSubInv, ClosedTogether, PanicsOnlyAfterClose
  <1> QED
    BY <1>1, PubSubInvariant, PTL

\* The maps are written and the channels closed only while no goroutine is
\* between RLock and RUnlock of startStreaming or Publish.
THEOREM PubSubMapsAreStill == Spec => MapsAreStill
  <1> DEFINE Changed == <<maps, closed>>' # <<maps, closed>>
             Still == \A p \in Publishers \cup {Streamer} : ~InsideRead(p)
  <1>1. ASSUME [Next]_vars
        PROVE  [Changed => Still]_vars
    <2>1. ASSUME NEW i \in Ids, Subscribe(i) \/ Unsubscribe(i)
          PROVE  Still
      BY <2>1 DEF Subscribe, Unsubscribe, HasLock, InsideRead
    <2>2. ASSUME NEW i \in Ids,
                 CallSubscribe(i) \/ Listen(i) \/ StopListening(i)
          PROVE  ~Changed
      BY <2>2 DEF CallSubscribe, Listen, StopListening, maps, channels
    <2>3. ASSUME NEW p \in Publishers, Publisher(p)
          PROVE  ~Changed
      BY <2>3 DEF Publisher, CallPublish, LockPublish, Skip, Send, Drop,
                  SendClosed, ReturnPublish, Panic, maps, channels
    <2>4. Streaming => ~Changed
      BY DEF Streaming, Take, LockStream, LookUp, Put, PutClosed, EndOfTurn,
             Panic, maps, channels
    <2>5. CallClose => ~Changed
      BY DEF CallClose, maps, channels
    <2>6. Close => Still
      BY DEF Close, HasLock, InsideRead
    <2>7. ASSUME NEW p, Announce(p)
          PROVE  ~Changed
      BY <2>7 DEF Announce, maps, channels
    <2> QED
      BY <1>1, <2>1, <2>2, <2>3, <2>4, <2>5, <2>6, <2>7
         DEF Next, Subscriber, Closing
  <1> QED
    BY <1>1, PTL DEF Spec, MapsAreStill

=============================================================================

------------------------------ MODULE GrpcCall ------------------------------
(***************************************************************************)
(* One gRPC call through the gateway (pkg/server/grpc_proxy.go) to its     *)
(* Lambda handlers (provider/aws/lambda_grpc_handler.go): the loop that    *)
(* waits for four events, the goroutines of ReceiveFrom and SendFrom, and  *)
(* the Calls that Result starts for a server-side stream.                  *)
(*                                                                         *)
(* Payloads are the number of the Invoke that returned them.  Of an answer *)
(* of Lambda what counts is whether it is final, an error status, a 102    *)
(* (with a timeout header, without one, or with one that does not parse),  *)
(* or no answer that can be used.  The unbuffered channels are rendezvous: *)
(* a goroutine in "offer" or "deliver" is blocked until it is received.    *)
(***************************************************************************)
EXTENDS Naturals, Sequences, Functions

CONSTANTS
    MaxHandlers,  \* handlers of the policy
    MaxMessages,  \* messages a client sends
    MaxInvokes,   \* Invokes of a call; from the last on none answers 102
    None

ASSUME BoundsAssumption ==
    MaxHandlers \in Nat /\ MaxMessages \in Nat /\ MaxInvokes \in Nat \ {0}

Handlers == 1..MaxHandlers

VARIABLES
    main,    \* the stream handler: where it is, its handler, its status
    recv,    \* goroutine of ReceiveFrom, of the current handler
    send,    \* goroutine of SendFrom, of the current handler
    lambda,  \* a lambdaGrpcHandler for each handler of the policy
    client,  \* messages it may still send, and whether it is gone
    sent,    \* numbers of the results sent to the client, by handler
    quirks   \* history: what makes a call wait for ever

grpcVars == <<main, recv, send, lambda, client, sent, quirks>>

Calls == 1..MaxInvokes   \* 1 is the one of ReceiveFrom

CallTypes == [pc : {"none", "wait", "invoke", "processing", "deliver",
                    "tail", "assign", "done"},
              err : {"nil", "EOF", "status", "error"}]

LambdaTypes == [
    calls : [Calls -> CallTypes],
    invokes : 0..MaxInvokes,       \* history
    result : 0..MaxInvokes,        \* 0 is the nil payload
    counted : BOOLEAN,                 \* resultCount > 0
    isLastResult : BOOLEAN,
    timer : {None} \cup 0..2,           \* ticks that come, once it is set
    streamError : {"nil", "EOF", "status", "error"},
    closed : BOOLEAN]                  \* waitCall is closed

NewHandler == [
    calls |-> [k \in Calls |-> [pc |-> "none", err |-> "nil"]],
    invokes |-> 0, result |-> 0, counted |-> FALSE, isLastResult |-> FALSE,
    timer |-> None,
    streamError |-> "nil", closed |-> FALSE]

GrpcTypeOK ==
    /\ main \in [pc : {"none", "loop", "returned", "panicked"},
                 handler : 0..MaxHandlers,
                 status : {"none", "OK", "status", "error", "Unimplemented"}]
    /\ recv \in [pc : {"none", "recv", "call", "offer", "closed", "done"},
                 err : {"nil", "status", "error"}]
    /\ send \in [pc : {"none", "result", "read", "send", "offer", "closed",
                       "done"},
                 err : {"nil", "EOF", "status", "error"},
                 payload : 0..MaxInvokes, first : BOOLEAN]
    /\ lambda \in [Handlers -> LambdaTypes]
    /\ client \in [messages : 0..MaxMessages, gone : BOOLEAN]
    /\ \A h \in Handlers : sent[h] \in Seq(0..MaxInvokes)
    /\ quirks \in SUBSET {"empty", "notimeout", "streamfail"}

GrpcInit ==
    /\ main = [pc |-> "none", handler |-> 0, status |-> "none"]
    /\ recv = [pc |-> "none", err |-> "nil"]
    /\ send = [pc |-> "none", err |-> "nil", payload |-> 0, first |-> TRUE]
    /\ lambda = [h \in Handlers |-> NewHandler]
    /\ client = [messages |-> MaxMessages, gone |-> FALSE]
    /\ sent = [h \in Handlers |-> <<>>]
    /\ quirks = {}

-----------------------------------------------------------------------------
(* GrpcHandlerFromGateway *)

\* The handler whose goroutines run, and its state.
cur == main.handler
L == lambda[cur]

\* ReceiveFrom and SendFrom for the next handler, or the end of the call.
NextHandler(h) ==
    IF h \in Handlers
    THEN /\ main' = [main EXCEPT !.pc = "loop", !.handler = h]
         /\ recv' = [pc |-> "recv", err |-> "nil"]
         /\ send' = [pc |-> "result", err |-> "nil", payload |-> 0,
                     first |-> TRUE]
    ELSE /\ main' = [main EXCEPT !.pc = "returned", !.status = "OK"]
         /\ UNCHANGED <<recv, send>>

\* MatchGrpc finds no policy, or one whose handlers are all made: HandleGrpc.
MatchGrpc ==
    /\ main.pc = "none"
    /\ \/ /\ main' = [main EXCEPT !.pc = "returned",
                                  !.status = "Unimplemented"]
          /\ UNCHANGED <<recv, send>>
       \/ NextHandler(1)
    /\ UNCHANGED <<lambda, client, sent, quirks>>

\* A value or the closing of one of the two channels; on an error the loop
\* returns.  Four events are one value and one closing of each.
Event(err) ==
    IF err = "nil" THEN UNCHANGED main
    ELSE main' = [main EXCEPT !.pc = "returned", !.status = err]

LoopReceives ==
    /\ main.pc = "loop" /\ recv.pc = "offer"
    /\ recv' = [recv EXCEPT !.pc = "closed"]
    /\ Event(recv.err)
    /\ UNCHANGED <<send, lambda, client, sent, quirks>>

LoopSends ==
    /\ main.pc = "loop" /\ send.pc = "offer"
    /\ send' = [send EXCEPT !.pc = "closed"]
    /\ Event(send.err)
    /\ UNCHANGED <<recv, lambda, client, sent, quirks>>

\* Mutant of LoopClosed: the handler ends when the last result is sent.
LoopClosed_Send ==
    /\ main.pc = "loop"
    /\ \/ /\ recv.pc = "closed"
          /\ recv' = [recv EXCEPT !.pc = "done"]
          /\ UNCHANGED <<main, send>>
       \/ send.pc = "closed" /\ NextHandler(cur + 1)
    /\ UNCHANGED <<lambda, client, sent, quirks>>

\* The closing of a channel; the fourth event ends the handler.
LoopClosed ==
    /\ main.pc = "loop"
    /\ \/ /\ recv.pc = "closed" /\ send.pc # "done"
          /\ recv' = [recv EXCEPT !.pc = "done"]
          /\ UNCHANGED <<main, send>>
       \/ /\ send.pc = "closed" /\ recv.pc # "done"
          /\ send' = [send EXCEPT !.pc = "done"]
          /\ UNCHANGED <<main, recv>>
       \/ /\ {recv.pc, send.pc} = {"closed", "done"}
          /\ NextHandler(cur + 1)
    /\ UNCHANGED <<lambda, client, sent, quirks>>

-----------------------------------------------------------------------------
(* ReceiveFrom *)

\* RecvMsg: a message, or the end of the client's stream; the client may also
\* send nothing.
RecvMsg ==
    /\ recv.pc = "recv" /\ ~client.gone
    /\ \/ /\ client.messages > 0
          /\ client' = [client EXCEPT !.messages = @ - 1]
          /\ recv' = [recv EXCEPT !.pc = "call"]
          /\ lambda' = [lambda EXCEPT ![cur].calls[1].pc = "wait"]
          /\ UNCHANGED quirks
       \/ /\ recv' = [recv EXCEPT !.pc = "offer"]
          /\ quirks' = quirks \cup {"empty"}
          /\ UNCHANGED <<client, lambda>>
    /\ UNCHANGED <<main, send, sent>>

RecvFails ==
    /\ recv.pc = "recv" /\ client.gone
    /\ recv' = [pc |-> "offer", err |-> "error"]
    /\ UNCHANGED <<main, send, lambda, client, sent, quirks>>

\* The first Call never returns nil, so there is no second message.
CallReturned ==
    /\ recv.pc = "call" /\ L.calls[1].pc = "done"
    /\ recv' = [pc |-> "offer",
                err |-> IF L.calls[1].err = "EOF" THEN "nil"
                        ELSE L.calls[1].err]
    /\ UNCHANGED <<main, send, lambda, client, sent, quirks>>

-----------------------------------------------------------------------------
(* SendFrom *)

\* Result received from waitCall: it counts, and ends the stream with the last
\* result, or starts the next Call.
Received(l) ==
    LET free == {k \in Calls : l.calls[k].pc = "none"}
        next == CHOOSE k \in free : \A j \in free : k <= j
    IN  [l EXCEPT !.counted = TRUE,
                  !.calls = IF ~l.isLastResult /\ l.timer # None /\ free # {}
                            THEN [@ EXCEPT ![next].pc = "wait"] ELSE @]

\* Mutant of AfterResult: every result is the last one.
AfterResult_Last(l) ==
    [send EXCEPT !.pc = "send", !.payload = l.result, !.err = "EOF"]

AfterResult(l) ==
    IF l.isLastResult
    THEN [send EXCEPT !.pc = "send", !.payload = l.result, !.err = "EOF"]
    ELSE [send EXCEPT !.pc = "read"]

\* Result, from a Call in its deferred function.
Result(h, k) ==
    /\ send.pc = "result" /\ h = cur
    /\ lambda[h].calls[k].pc = "deliver" /\ ~lambda[h].closed
    /\ lambda' = [lambda EXCEPT ![h] =
           [Received(@) EXCEPT !.calls[k].pc = "tail"]]
    /\ send' = AfterResult(L)
    /\ UNCHANGED <<main, recv, client, sent, quirks>>

\* Result, from the closed channel; what it sends again is bounded.
ResultClosed ==
    /\ send.pc = "result" /\ L.closed /\ Len(sent[cur]) <= MaxInvokes
    /\ lambda' = [lambda EXCEPT ![cur] = Received(@)]
    /\ send' = AfterResult(L)
    /\ UNCHANGED <<main, recv, client, sent, quirks>>

\* The end of Result: the new Call may have changed both fields already.
ReadResult ==
    /\ send.pc = "read"
    /\ send' = [send EXCEPT !.payload = L.result, !.err = L.streamError,
                            !.pc = IF L.streamError \in {"nil", "EOF"}
                                   THEN "send" ELSE "offer"]
    /\ UNCHANGED <<main, recv, lambda, client, sent, quirks>>

\* SetHeader before the first message, which fails if a header was sent for an
\* earlier handler and the metadata is not empty, and SendMsg.
SendMsg ==
    /\ send.pc = "send"
    /\ LET illegal == /\ send.first /\ L.result # 0
                      /\ \E h \in Handlers : sent[h] # <<>>
       IN  \E fails \in {client.gone, client.gone \/ illegal} :
               /\ send' = [send EXCEPT
                      !.first = FALSE,
                      !.pc = IF fails \/ send.err = "EOF" THEN "offer"
                             ELSE "result",
                      !.err = IF fails THEN "error" ELSE "nil"]
               /\ sent' = IF fails THEN sent
                          ELSE [sent EXCEPT ![cur] = Append(@, send.payload)]
    /\ UNCHANGED <<main, recv, lambda, client, quirks>>

-----------------------------------------------------------------------------
(* lambdaGrpcHandler.Call, the k-th of handler h *)

\* No timer was ever set, or its tick is taken.
Waited(h, k) ==
    /\ lambda[h].calls[k].pc = "wait"
    /\ lambda[h].timer # 0
    /\ lambda' = [lambda EXCEPT ![h].calls[k].pc = "invoke",
                                ![h].timer = IF @ = None THEN None ELSE @ - 1]
    /\ UNCHANGED <<main, recv, send, client, sent, quirks>>

\* A notification of the subscriber, if there is one, that names this service
\* and method; any other one is passed over.
Notified(h, k) ==
    /\ lambda[h].calls[k].pc = "wait"
    /\ lambda[h].timer # None
    /\ lambda' = [lambda EXCEPT ![h].calls[k].pc = "invoke"]
    /\ UNCHANGED <<main, recv, send, client, sent, quirks>>

\* PubSub.Close: the closed stream gives a nil message.
StreamClosed(h, k) ==
    /\ lambda[h].calls[k].pc = "wait"
    /\ lambda[h].timer # None
    /\ main' = [main EXCEPT !.pc = "panicked"]
    /\ UNCHANGED <<recv, send, lambda, client, sent, quirks>>

\* Mutants of Failed and Answered: an error clears the result; the channel is
\* closed before the last result is delivered.
Failed_Clears(l, k) ==
    [l EXCEPT !.calls[k] = [pc |-> "deliver", err |-> "error"], !.result = 0]
Answered_Closes(l, k, n, err) ==
    [l EXCEPT !.result = n, !.isLastResult = TRUE, !.closed = TRUE,
              !.calls[k] = [pc |-> "deliver", err |-> err]]

\* What an Invoke leaves behind in the handler l for its k-th Call, n the
\* number of the Invoke.  Only a usable answer changes the result.
Failed(l, k) == [l EXCEPT !.calls[k] = [pc |-> "deliver", err |-> "error"]]

Answered(l, k, n, err) ==
    [l EXCEPT !.result = n, !.isLastResult = TRUE,
              !.calls[k] = [pc |-> "deliver", err |-> err]]

\* serverStreamError is set only after the Call has delivered.
FailureOf(k) == IF k > 1 THEN {"streamfail"} ELSE {}

\* The Invokes of all handlers so far.
Invoked == FoldFunction(+, 0, [h \in Handlers |-> lambda[h].invokes])

\* Invoke, up to the assignment of isLastResult.
Invoke(h, k) ==
    LET l == [lambda[h] EXCEPT !.invokes = @ + 1]
        n == l.invokes
    IN  /\ lambda[h].calls[k].pc = "invoke"
        /\ \/ /\ lambda' = [lambda EXCEPT ![h] = Failed(l, k)]
              /\ quirks' = quirks \cup FailureOf(k)
           \/ /\ ~client.gone
              /\ \E err \in {"EOF", "status"} :
                     lambda' = [lambda EXCEPT ![h] = Answered(l, k, n, err)]
              /\ UNCHANGED quirks
           \/ /\ ~client.gone /\ Invoked < MaxInvokes - 1
              /\ lambda' = [lambda EXCEPT ![h] =
                     [Answered(l, k, n, "EOF")
                      EXCEPT !.calls[k].pc = "processing"]]
              /\ UNCHANGED quirks
        /\ UNCHANGED <<main, recv, send, client, sent>>

\* Mutant of Processing: the timer is set only once.
Processing_NoReset(h, k) ==
    LET l == lambda[h]
    IN  /\ l.calls[k].pc = "processing"
        /\ lambda' = [lambda EXCEPT ![h] = [l EXCEPT
               !.isLastResult = FALSE,
               !.calls[k] = [pc |-> "deliver",
                             err |-> IF l.counted THEN "nil" ELSE "EOF"],
               !.timer = IF @ = None THEN 1 ELSE @]]
        /\ UNCHANGED <<main, recv, send, client, sent, quirks>>

\* Status 102: not the last result; the header, if there is one, sets the timer
\* or sets it again, which keeps a tick that nobody has taken.  Only the first
\* Call ends the client's stream.
Processing(h, k) ==
    LET l == lambda[h]
    IN  /\ l.calls[k].pc = "processing"
        /\ \E timeout \in {"set", "none", "bad"},
              left \in IF l.timer \in {1, 2} THEN {0, 1} ELSE {0} :
               /\ lambda' = [lambda EXCEPT ![h] = [l EXCEPT
                      !.isLastResult = FALSE,
                      !.calls[k] = [pc |-> "deliver",
                                    err |-> IF timeout = "bad" THEN "status"
                                            ELSE IF l.counted THEN "nil"
                                            ELSE "EOF"],
                      !.timer = IF timeout = "set" THEN 1 + left ELSE @]]
               /\ quirks' = quirks \cup CASE timeout = "none" -> {"notimeout"}
                                          [] timeout = "bad" -> FailureOf(k)
                                          [] OTHER -> {}
        /\ UNCHANGED <<main, recv, send, client, sent>>

\* The deferred function blocks on waitCall until Result receives, which is the
\* action Result; a send on the closed channel panics.
DeliverClosed(h, k) ==
    /\ lambda[h].calls[k].pc = "deliver" /\ lambda[h].closed
    /\ main' = [main EXCEPT !.pc = "panicked"]
    /\ UNCHANGED <<recv, send, lambda, client, sent, quirks>>

\* Then it reads isLastResult, which a later Call may have written.
CloseIfLast(h, k) ==
    LET l == lambda[h]
    IN  /\ l.calls[k].pc = "tail"
        /\ IF l.isLastResult /\ l.closed
           THEN main' = [main EXCEPT !.pc = "panicked"] /\ UNCHANGED lambda
           ELSE /\ lambda' = [lambda EXCEPT
                       ![h].closed = @ \/ l.isLastResult,
                       ![h].calls[k].pc = IF k = 1 THEN "done" ELSE "assign"]
                /\ UNCHANGED main
        /\ UNCHANGED <<recv, send, client, sent, quirks>>

\* The goroutine of Result assigns what its Call returned.
Assign(h, k) ==
    /\ lambda[h].calls[k].pc = "assign"
    /\ lambda' = [lambda EXCEPT ![h].streamError = lambda[h].calls[k].err,
                                ![h].calls[k].pc = "done"]
    /\ UNCHANGED <<main, recv, send, client, sent, quirks>>

Call(h, k) ==
    \/ Waited(h, k) \/ Invoke(h, k) \/ Processing(h, k) \/ Result(h, k)
    \/ DeliverClosed(h, k) \/ CloseIfLast(h, k) \/ Assign(h, k)

\* The client cancels.
Gone ==
    /\ ~client.gone /\ main.pc = "loop"
    /\ client' = [client EXCEPT !.gone = TRUE]
    /\ UNCHANGED <<main, recv, send, lambda, sent, quirks>>

-----------------------------------------------------------------------------
\* The steps that Go and Lambda take by themselves.
Steps ==
    \/ MatchGrpc \/ LoopReceives \/ LoopSends \/ LoopClosed
    \/ CallReturned \/ RecvMsg \/ RecvFails
    \/ ResultClosed \/ ReadResult \/ SendMsg
    \/ \E h \in Handlers, k \in Calls : Call(h, k)

GrpcNext ==
    /\ main.pc # "panicked"
    /\ \/ Steps \/ Gone
       \/ \E h \in Handlers, k \in Calls : Notified(h, k) \/ StreamClosed(h, k)

-----------------------------------------------------------------------------
\* Results reach the client in the order of the Invokes, although Result reads
\* the result after it has started the Call that overwrites it.
SentInOrder ==
    \A h \in Handlers : \A i, j \in DOMAIN sent[h] :
        i < j => sent[h][i] <= sent[h][j]

\* An error of the first Call is never hidden by the events of the goroutine
\* that sends, which may have sent its empty result by then.
FirstErrorReported ==
    main.status = "OK" => \A h \in Handlers :
        lambda[h].calls[1].err \notin {"status", "error"}

\* A Call is about to send on the closed waitCall, which ends the process.
AboutToPanic(l) ==
    l.closed /\ \E k \in Calls : l.calls[k].pc \in {"processing", "deliver"}

\* A call that has returned OK leaves no Call behind that waits, invokes or is
\* to deliver, and the last thing sent is the answer of the last Invoke; unless
\* waitCall was closed too early and the process is about to panic.
OkIsComplete ==
    main.status = "OK" => \A h \in Handlers :
        \/ AboutToPanic(lambda[h])
        \/ /\ \A k \in Calls : lambda[h].calls[k].pc \in
                                   {"none", "tail", "assign", "done"}
           /\ sent[h] # <<>> /\ sent[h][Len(sent[h])] = lambda[h].invokes

\* A call without a server-side stream never takes the gateway down with a
\* panic on waitCall.
UnaryNeverPanics ==
    main.pc = "panicked" => \E h \in Handlers : lambda[h].calls[2].pc # "none"

\* A call returns unless its client stays and sends no message, or none for the
\* second handler, Lambda streams without a timeout, or a Call of a stream
\* fails.
CallReturns ==
    main.pc = "loop" /\ recv.pc # "recv" ~>
        main.pc # "loop" \/ recv.pc = "recv" \/ quirks # {}
=============================================================================

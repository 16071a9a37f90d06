--------------------------- MODULE HttpCallProofs ---------------------------
(***************************************************************************)
(* Proofs about the calls that the HTTP server serves, for any number of   *)
(* handlers, messages and Invokes: which errors reach the client, in which *)
(* order results are sent, and what a gRPC call that returns OK has done.  *)
(***************************************************************************)
EXTENDS HttpCall, FiniteSetTheorems, SequenceTheorems, WellFoundedInduction,
        TLAPS

-----------------------------------------------------------------------------
(* The inductive invariant *)

HandlerTypes == [
    calls : [Calls -> CallTypes], invokes : Nat, result : Nat,
    counted : BOOLEAN, isLastResult : BOOLEAN, timer : {None} \cup 0..2,
    streamError : {"nil", "EOF", "status", "error"}, closed : BOOLEAN]

\* A Call that has not delivered.
Pending(l, k) ==
    l.calls[k].pc \in {"wait", "invoke", "processing", "deliver"}

\* Calls are started one after the other, the first one by ReceiveFrom.
InTurn(l) ==
    /\ \A k \in Calls : l.calls[k].pc # "none" =>
           \A j \in 1..k : l.calls[j].pc # "none"
    /\ \A k \in Calls : k > 1 /\ l.calls[k].pc # "none" => l.counted
    /\ \A k \in Calls : l.calls[k].pc \in {"none", "wait", "invoke"} =>
           l.calls[k].err = "nil"
    /\ l.calls[1].pc # "assign"

\* Before its first Call delivers, a handler has no other one; before it has
\* invoked, no timer; and before it starts, no result.
FirstAlone(l) ==
    /\ l.calls[1].pc = "none" => ~l.isLastResult
    /\ l.calls[1].pc = "none" \/ Pending(l, 1) =>
           ~l.closed /\ \A k \in Calls : k > 1 => l.calls[k].pc = "none"
    /\ l.calls[1].pc \in {"none", "wait", "invoke", "processing"} =>
           l.timer = None
    /\ l.closed /\ l.calls[1].pc # "done" =>
           \E k \in Calls : k > 1 /\ l.calls[k].pc # "none"

\* One Call at a time is pending.  The last result is that of the last Invoke,
\* and then no Call is started; a Call of the stream returns io.EOF only with
\* it.
OneAtATime(l) ==
    /\ \A j, k \in Calls : Pending(l, j) /\ Pending(l, k) => j = k
    /\ l.isLastResult =>
           /\ l.result = l.invokes
           /\ \A k \in Calls : l.calls[k].pc \notin {"wait", "invoke"}
    /\ l.closed => l.isLastResult /\ \A k \in Calls : ~Pending(l, k)
    /\ \A k \in Calls : k > 1 /\ l.calls[k].err = "EOF" =>
           l.isLastResult /\ \A j \in Calls : Pending(l, j) => j = k

HandlerInv(l) ==
    /\ l \in HandlerTypes /\ l.result <= l.invokes
    /\ InTurn(l) /\ FirstAlone(l)
    /\ AboutToPanic(l) \/ OneAtATime(l)
    /\ l.streamError = "EOF" =>
           \E k \in Calls : /\ k > 1 /\ l.calls[k].pc = "done"
                            /\ l.calls[k].err = "EOF"

\* Nothing of the handler is still to come.
Complete(h) ==
    \/ AboutToPanic(lambda[h])
    \/ /\ \A k \in Calls : ~Pending(lambda[h], k)
       /\ sent[h] # <<>> /\ sent[h][Len(sent[h])] = lambda[h].invokes

\* The first Call has returned without an error, if there was one.
FirstReturned(l) ==
    l.calls[1].pc \in {"none", "done"} /\ l.calls[1].err \in {"nil", "EOF"}

GrpcTypes ==
    /\ main.handler \in 0..MaxHandlers
    /\ main.pc \in {"none", "loop", "returned", "panicked"}
    /\ main = [pc |-> main.pc, handler |-> main.handler, status |-> main.status]
    /\ recv \in [pc : {"none", "recv", "call", "offer", "closed", "done"},
                 err : {"nil", "status", "error"}]
    /\ send \in [pc : {"none", "result", "read", "send", "offer", "closed",
                       "done"},
                 err : {"nil", "EOF", "status", "error"},
                 payload : Nat, first : BOOLEAN]
    /\ lambda \in [Handlers -> HandlerTypes]
    /\ sent \in [Handlers -> Seq(Nat)]

\* The stream handler goes from one handler to the next.
MainInv ==
    /\ main.pc \in {"none", "loop"} => main.status = "none"
    /\ main.pc = "none" => cur = 0
    /\ main.pc = "loop" => cur \in Handlers
    /\ cur = 0 => /\ recv.pc = "none" /\ recv.err = "nil"
                  /\ send.pc = "none" /\ send.err = "nil"
    /\ cur # 0 => recv.pc # "none" /\ send.pc # "none"
    /\ main.pc = "panicked" =>
           \E h \in Handlers, k \in Calls :
               k > 1 /\ lambda[h].calls[k].pc # "none"
    /\ main.status = "OK" =>
           /\ cur = MaxHandlers
           /\ recv.pc \in {"none", "closed", "done"} /\ recv.err = "nil"
           /\ send.pc \in {"none", "closed", "done"} /\ send.err = "nil"
    /\ \A h \in Handlers : h > cur =>
           lambda[h].calls[1].pc = "none" /\ sent[h] = <<>>

\* ReceiveFrom and its Call.
RecvInv ==
    /\ recv.pc = "recv" => L.calls[1].pc = "none"
    /\ recv.pc \in {"offer", "closed", "done"} =>
           /\ L.calls[1].pc \in {"none", "done"}
           /\ recv.err = "nil" => FirstReturned(L)
    /\ main.pc = "loop" /\ recv.pc \in {"closed", "done"} => recv.err = "nil"
    /\ \A h \in Handlers : h < cur => FirstReturned(lambda[h])

\* What was sent; the handlers before the current one are complete.
SentInv ==
    /\ SentInOrder
    /\ \A h \in Handlers : \A i \in DOMAIN sent[h] :
           sent[h][i] <= lambda[h].result
    /\ \A h \in Handlers : h < cur => Complete(h)

\* SendFrom waits for the first Call, and ends with the last result.
SendInv ==
    /\ cur # 0 /\ L.calls[1].pc = "none" => send.pc = "result"
    /\ send.pc = "send" =>
           /\ send.payload <= L.result
           /\ \A i \in DOMAIN sent[cur] : sent[cur][i] <= send.payload
    /\ main.pc = "loop" /\ send.pc \in {"closed", "done"} => send.err = "nil"
    /\ send.pc = "send" /\ send.err = "EOF" =>
           \/ AboutToPanic(L)
           \/ (\A k \in Calls : ~Pending(L, k)) /\ send.payload = L.invokes
    /\ send.pc \in {"offer", "closed", "done"} /\ send.err = "nil" =>
           Complete(cur)

GrpcInv ==
    /\ GrpcTypes /\ (\A h \in Handlers : HandlerInv(lambda[h]))
    /\ MainInv /\ RecvInv /\ SentInv /\ SendInv

\* An error before any header is answered at once.
HttpInv ==
    /\ http = [pc |-> http.pc, handler |-> http.handler, last |-> http.last,
               status |-> http.status, errors |-> http.errors,
               early |-> http.early]
    /\ http.early => http.pc = "done" /\ http.status = "502"

-----------------------------------------------------------------------------
(* One handler: what a step of a Call keeps *)

\* Call k goes on, the others stay where they are.
Goes(l, m, k, pc, err) ==
    /\ m \in HandlerTypes
    /\ m.calls[k].pc = pc /\ m.calls[k].err = err
    /\ \A j \in Calls : j # k => m.calls[j] = l.calls[j]

\* What the rest of the call relies on while a handler goes from l to m.
Advance(l, m) ==
    /\ HandlerInv(m) /\ l.result <= m.result
    /\ AboutToPanic(l) => AboutToPanic(m)
    /\ (\A k \in Calls : ~Pending(l, k)) =>
           m.invokes = l.invokes /\ \A k \in Calls : ~Pending(m, k)
    /\ \A k \in Calls : l.calls[k].pc # "none" => m.calls[k].pc # "none"
    /\ l.calls[1].pc \in {"none", "done"} => m.calls[1] = l.calls[1]

\* There is a first Call.
LEMMA CallNumbers == Calls \subseteq Nat \ {0} /\ 1 \in Calls
  BY BoundsAssumption DEF Calls

\* The parts of a handler's record.
LEMMA HandlerParts ==
    ASSUME NEW l \in HandlerTypes
    PROVE  /\ l.invokes \in Nat /\ l.result \in Nat
           /\ l.counted \in BOOLEAN /\ l.isLastResult \in BOOLEAN
           /\ l.closed \in BOOLEAN /\ l.timer \in {None} \cup 0..2
           /\ l.streamError \in {"nil", "EOF", "status", "error"}
           /\ l.calls \in [Calls -> CallTypes]
           /\ \A k \in Calls :
                  /\ l.calls[k] \in CallTypes
                  /\ l.calls[k].pc \in {"none", "wait", "invoke", "processing",
                                        "deliver", "tail", "assign", "done"}
                  /\ l.calls[k].err \in {"nil", "EOF", "status", "error"}
                  /\ l.calls[k] = [pc |-> l.calls[k].pc, err |-> l.calls[k].err]
  BY DEF HandlerTypes, CallTypes

\* With a later Call the first one has delivered.
LEMMA LaterCall ==
    ASSUME NEW l, HandlerInv(l), NEW k \in Calls, k > 1, l.calls[k].pc # "none"
    PROVE  l.calls[1].pc \in {"tail", "done"} /\ l.counted
  <1>1. l.calls[1].pc # "none" /\ ~Pending(l, 1) /\ l.calls[1].pc # "assign"
    BY CallNumbers DEF HandlerInv, InTurn, FirstAlone
  <1> QED
    BY <1>1, CallNumbers, HandlerParts DEF HandlerInv, InTurn, Pending

\* A Call that goes on leaves the order of the Calls as it is.
LEMMA InTurnKept ==
    ASSUME NEW l, NEW m, HandlerInv(l), NEW k \in Calls, NEW pc, NEW err,
           Goes(l, m, k, pc, err), l.calls[k].pc # "none",
           pc \notin {"none", "wait"}, pc = "invoke" => err = "nil",
           k = 1 => pc # "assign", m.counted = l.counted
    PROVE  InTurn(m)
  <1>1. \A j \in Calls : m.calls[j].pc # "none" <=> l.calls[j].pc # "none"
    BY DEF Goes
  <1>2. \A j \in Calls : m.calls[j].pc # "none" =>
            \A i \in 1..j : i \in Calls /\ l.calls[i].pc # "none"
    BY <1>1, BoundsAssumption DEF HandlerInv, InTurn, Calls
  <1>3. \A j \in Calls : j > 1 /\ m.calls[j].pc # "none" => m.counted
    BY <1>1 DEF HandlerInv, InTurn
  <1>4. \A j \in Calls : m.calls[j].pc \in {"none", "wait", "invoke"} =>
            m.calls[j].err = "nil"
    BY DEF HandlerInv, InTurn, Goes
  <1>5. m.calls[1].pc # "assign"
    BY CallNumbers DEF HandlerInv, InTurn, Goes
  <1> QED
    BY <1>1, <1>2, <1>3, <1>4, <1>5 DEF InTurn

\* A Call that is not done yet goes on, and stays pending.
LEMMA PendingGoes ==
    ASSUME NEW l, NEW m, HandlerInv(l), NEW k \in Calls,
           l.calls[k].pc \in {"wait", "invoke", "processing"},
           NEW pc \in {"invoke", "processing", "deliver"}, NEW err,
           l.calls[k].pc = "processing" => pc = "deliver",
           pc = "invoke" => err = "nil",
           Goes(l, m, k, pc, err),
           m.counted = l.counted, m.streamError = l.streamError,
           m.closed = l.closed,
           pc # "deliver" => (l.timer = None => m.timer = None),
           m.result <= m.invokes, l.result <= m.result,
           OneAtATime(l) => OneAtATime(m)
    PROVE  Advance(l, m)
  <1>1. InTurn(m)
    BY InTurnKept
  <1>2. FirstAlone(m)
    <2>1. CASE k = 1
      <3>1. /\ ~l.closed /\ \A j \in Calls : j > 1 => l.calls[j].pc = "none"
            /\ l.timer = None
        BY <2>1 DEF HandlerInv, FirstAlone, Pending
      <3>2. ~m.closed /\ \A j \in Calls : j > 1 => m.calls[j].pc = "none"
        BY <2>1, <3>1 DEF Goes
      <3>3. pc # "deliver" => m.timer = None
        BY <3>1
      <3>4. m.calls[1].pc = pc
        BY <2>1 DEF Goes
      <3> QED
        BY <3>2, <3>3, <3>4 DEF FirstAlone
    <2>2. CASE k # 1
      <3>1. k > 1 /\ 1 \in Calls /\ l.calls[k].pc # "none"
        BY <2>2, CallNumbers
      <3>2. l.calls[1].pc \in {"tail", "done"}
        BY <3>1, LaterCall
      <3>3. m.calls[1].pc \in {"tail", "done"} /\ m.calls[k].pc # "none"
        BY <2>2, <3>1, <3>2 DEF Goes
      <3> QED
        BY <3>1, <3>3 DEF FirstAlone, Pending
    <2> QED
      BY <2>1, <2>2
  <1>3. AboutToPanic(l) => AboutToPanic(m)
    BY DEF AboutToPanic, Goes
  <1>4. l.streamError = "EOF" => \E j \in Calls : /\ j > 1 /\ m.calls[j].pc = "done"
                                                  /\ m.calls[j].err = "EOF"
    BY DEF HandlerInv, Goes
  <1>5. HandlerInv(m)
    BY <1>1, <1>2, <1>3, <1>4 DEF HandlerInv, Goes
  <1>6. Pending(l, k)
    BY DEF Pending
  <1>7. /\ \A j \in Calls : l.calls[j].pc # "none" => m.calls[j].pc # "none"
        /\ l.calls[1].pc \in {"none", "done"} => m.calls[1] = l.calls[1]
    BY CallNumbers DEF Goes
  <1> QED
    BY <1>3, <1>5, <1>6, <1>7 DEF Advance

\* The wait of a Call is over.
LEMMA WaitedInv ==
    ASSUME NEW l, NEW m, HandlerInv(l), NEW k \in Calls,
           l.calls[k].pc = "wait", Goes(l, m, k, "invoke", l.calls[k].err),
           m.invokes = l.invokes, m.result = l.result, m.counted = l.counted,
           m.isLastResult = l.isLastResult, m.streamError = l.streamError,
           m.closed = l.closed, l.timer = None => m.timer = None
    PROVE  Advance(l, m)
  <1>1. \A j \in Calls : Pending(m, j) <=> Pending(l, j)
    BY DEF Goes, Pending
  <1>2. OneAtATime(l) => OneAtATime(m)
    BY <1>1 DEF OneAtATime, Goes
  <1>3. l.calls[k].err = "nil" /\ m.result <= m.invokes /\ l.result <= m.result
    BY HandlerParts DEF HandlerInv, InTurn
  <1> QED
    BY <1>2, <1>3, PendingGoes

\* An Invoke fails, or its answer cannot be used.
LEMMA FailedInv ==
    ASSUME NEW l, NEW m, HandlerInv(l), NEW k \in Calls,
           l.calls[k].pc = "invoke", Goes(l, m, k, "deliver", "error"),
           m.invokes = l.invokes + 1, m.result = l.result,
           m.counted = l.counted, m.isLastResult = l.isLastResult,
           m.streamError = l.streamError, m.closed = l.closed
    PROVE  Advance(l, m)
  <1>1. \A j \in Calls : Pending(m, j) <=> Pending(l, j)
    BY DEF Goes, Pending
  <1>2. OneAtATime(l) => OneAtATime(m)
    BY <1>1 DEF OneAtATime, Goes
  <1>3. m.result <= m.invokes /\ l.result <= m.result
    BY HandlerParts DEF HandlerInv
  <1> QED
    BY <1>2, <1>3, PendingGoes

\* A usable answer is the last result, until it turns out to be a 102.
LEMMA AnsweredInv ==
    ASSUME NEW l, NEW m, HandlerInv(l), NEW k \in Calls,
           l.calls[k].pc = "invoke",
           NEW pc \in {"deliver", "processing"}, NEW err \in {"EOF", "status"},
           Goes(l, m, k, pc, err),
           m.invokes = l.invokes + 1, m.result = l.invokes + 1,
           m.counted = l.counted, m.isLastResult = TRUE,
           m.streamError = l.streamError, m.closed = l.closed,
           m.timer = l.timer
    PROVE  Advance(l, m)
  <1>1. \A j \in Calls : Pending(m, j) <=> Pending(l, j)
    BY DEF Goes, Pending
  <1>2. ASSUME OneAtATime(l) PROVE OneAtATime(m)
    <2>1. ~l.isLastResult /\ Pending(l, k)
      BY <1>2 DEF OneAtATime, Pending
    <2>2. \A j \in Calls :
              j # k => ~Pending(l, j) /\ (j > 1 => l.calls[j].err # "EOF")
      BY <1>2, <2>1 DEF OneAtATime
    <2>3. \A j \in Calls : m.calls[j].pc \notin {"wait", "invoke"}
      BY <2>2 DEF Goes, Pending
    <2> QED
      BY <1>1, <1>2, <2>1, <2>2, <2>3 DEF OneAtATime, Goes
  <1>3. m.result <= m.invokes /\ l.result <= m.result
    BY HandlerParts DEF HandlerInv
  <1> QED
    BY <1>2, <1>3, PendingGoes

\* A 102 takes back that it is the last result; a Call of the stream does not
\* end it.
LEMMA ProcessingInv ==
    ASSUME NEW l, NEW m, HandlerInv(l), NEW k \in Calls,
           l.calls[k].pc = "processing", NEW err, err = "EOF" => ~l.counted,
           Goes(l, m, k, "deliver", err),
           m.invokes = l.invokes, m.result = l.result,
           m.counted = l.counted, m.isLastResult = FALSE,
           m.streamError = l.streamError, m.closed = l.closed
    PROVE  Advance(l, m)
  <1>1. \A j \in Calls : Pending(m, j) <=> Pending(l, j)
    BY DEF Goes, Pending
  <1>2. ASSUME OneAtATime(l) PROVE OneAtATime(m)
    <2>1. Pending(l, k) /\ ~l.closed
      BY <1>2 DEF OneAtATime, Pending
    <2>2. \A j \in Calls : j # k /\ j > 1 => l.calls[j].err # "EOF"
      BY <1>2, <2>1 DEF OneAtATime
    <2>3. k > 1 => err # "EOF"
      BY DEF HandlerInv, InTurn
    <2> QED
      BY <1>1, <1>2, <2>1, <2>2, <2>3 DEF OneAtATime, Goes
  <1>3. m.result <= m.invokes /\ l.result <= m.result
    BY HandlerParts DEF HandlerInv
  <1> QED
    BY <1>2, <1>3, PendingGoes

\* A Call that has delivered ends, and closes waitCall if it reads that the
\* result is the last one.
LEMMA CloseIfLastInv ==
    ASSUME NEW l, NEW m, HandlerInv(l), NEW k \in Calls,
           l.calls[k].pc = "tail", ~(l.isLastResult /\ l.closed),
           Goes(l, m, k, IF k = 1 THEN "done" ELSE "assign", l.calls[k].err),
           m.invokes = l.invokes, m.result = l.result, m.counted = l.counted,
           m.isLastResult = l.isLastResult, m.timer = l.timer,
           m.streamError = l.streamError,
           m.closed <=> l.closed \/ l.isLastResult
    PROVE  Advance(l, m)
  <1>1. \A j \in Calls : Pending(m, j) <=> Pending(l, j)
    BY DEF Goes, Pending
  <1>2. InTurn(m)
    BY InTurnKept
  <1>3. FirstAlone(m)
    <2>1. CASE k = 1
      <3>1. m.calls[1].pc = "done"
        BY <2>1 DEF Goes
      <3> QED
        BY <3>1 DEF FirstAlone, Pending
    <2>2. CASE k # 1
      <3>1. k > 1 /\ 1 \in Calls /\ l.calls[k].pc # "none"
        BY <2>2, CallNumbers
      <3>2. l.calls[1].pc \in {"tail", "done"}
        BY <3>1, LaterCall
      <3>3. m.calls[1].pc \in {"tail", "done"} /\ m.calls[k].pc # "none"
        BY <2>2, <3>1, <3>2 DEF Goes
      <3> QED
        BY <3>1, <3>3 DEF FirstAlone, Pending
    <2> QED
      BY <2>1, <2>2
  <1>4. AboutToPanic(l) => AboutToPanic(m)
    BY HandlerParts DEF AboutToPanic, Goes, HandlerInv
  <1>5. AboutToPanic(m) \/ OneAtATime(m)
    <2>1. SUFFICES ASSUME OneAtATime(l), ~AboutToPanic(m)
                   PROVE  OneAtATime(m)
      BY <1>4 DEF HandlerInv
    <2>2. m.closed => m.isLastResult /\ \A j \in Calls : ~Pending(m, j)
      <3>1. SUFFICES ASSUME ~l.closed, l.isLastResult, NEW j \in Calls,
                            Pending(m, j)
                     PROVE  FALSE
        BY <2>1, <1>1, HandlerParts DEF OneAtATime, HandlerInv
      <3>2. Pending(l, j) /\ l.calls[j].pc \notin {"wait", "invoke"}
        BY <2>1, <3>1, <1>1 DEF OneAtATime
      <3>3. m.closed /\ m.calls[j].pc \in {"processing", "deliver"}
        BY <3>1, <3>2 DEF Pending, Goes
      <3> QED
        BY <2>1, <3>3 DEF AboutToPanic
    <2>3. \A j, i \in Calls : Pending(m, j) /\ Pending(m, i) => j = i
      BY <1>1, <2>1 DEF OneAtATime
    <2>4. m.isLastResult =>
              /\ m.result = m.invokes
              /\ \A j \in Calls : m.calls[j].pc \notin {"wait", "invoke"}
      BY <2>1 DEF OneAtATime, Goes
    <2>5. \A j \in Calls : j > 1 /\ m.calls[j].err = "EOF" =>
              m.isLastResult /\ \A i \in Calls : Pending(m, i) => i = j
      BY <1>1, <2>1 DEF OneAtATime, Goes
    <2> QED
      BY <2>2, <2>3, <2>4, <2>5 DEF OneAtATime
  <1>6. m.streamError = "EOF" =>
            \E j \in Calls : /\ j > 1 /\ m.calls[j].pc = "done"
                             /\ m.calls[j].err = "EOF"
    BY DEF HandlerInv, Goes
  <1>7. HandlerInv(m) /\ l.result <= m.result
    BY <1>2, <1>3, <1>5, <1>6, HandlerParts DEF HandlerInv, Goes
  <1>8. /\ \A j \in Calls : l.calls[j].pc # "none" => m.calls[j].pc # "none"
        /\ l.calls[1].pc \in {"none", "done"} => m.calls[1] = l.calls[1]
    BY CallNumbers DEF Goes
  <1> QED
    BY <1>1, <1>4, <1>7, <1>8 DEF Advance

\* The goroutine of Result keeps what its Call returned.
LEMMA AssignInv ==
    ASSUME NEW l, NEW m, HandlerInv(l), NEW k \in Calls,
           l.calls[k].pc = "assign", Goes(l, m, k, "done", l.calls[k].err),
           m.invokes = l.invokes, m.result = l.result, m.counted = l.counted,
           m.isLastResult = l.isLastResult, m.timer = l.timer,
           m.streamError = l.calls[k].err, m.closed <=> l.closed
    PROVE  Advance(l, m)
  <1>1. \A j \in Calls : Pending(m, j) <=> Pending(l, j)
    BY DEF Goes, Pending
  <1>2. k > 1 /\ 1 \in Calls /\ m.calls[1] = l.calls[1]
    BY CallNumbers DEF HandlerInv, InTurn, Goes
  <1>3. InTurn(m)
    BY InTurnKept
  <1>4. FirstAlone(m)
    <2>1. l.calls[1].pc \in {"tail", "done"} /\ m.calls[k].pc # "none"
      BY <1>2, LaterCall DEF Goes
    <2> QED
      BY <1>2, <2>1 DEF FirstAlone, Pending
  <1>5. AboutToPanic(l) => AboutToPanic(m)
    BY DEF AboutToPanic, Goes
  <1>6. OneAtATime(l) => OneAtATime(m)
    BY <1>1 DEF OneAtATime, Goes
  <1>7. m.streamError = "EOF" =>
            \E j \in Calls : /\ j > 1 /\ m.calls[j].pc = "done"
                             /\ m.calls[j].err = "EOF"
    BY <1>2 DEF Goes
  <1>8. HandlerInv(m) /\ l.result <= m.result
    BY <1>3, <1>4, <1>5, <1>6, <1>7, HandlerParts DEF HandlerInv, Goes
  <1>9. \A j \in Calls : l.calls[j].pc # "none" => m.calls[j].pc # "none"
    BY DEF Goes
  <1> QED
    BY <1>1, <1>2, <1>5, <1>8, <1>9 DEF Advance

\* Every set of numbers has a least one.
LEMMA LeastNumber ==
    ASSUME NEW S, S \subseteq Nat, S # {}
    PROVE  \E x \in S : \A y \in S : x <= y
  <1> DEFINE R == {p \in Nat \X Nat : p[1] < p[2]}
  <1>1. IsWellFoundedOn(R, Nat)
    BY NatLessThanWellFounded, Zenon DEF OpToRel
  <1>2. PICK x \in S : \A y \in S : <<y, x>> \notin R
    <2> HIDE DEF R
    <2> QED
      BY <1>1, WFMin
  <1>3. \A y \in S : ~(y < x)
    BY <1>2
  <1> QED
    BY <1>3

\* A result is counted; but for the Calls, nothing else changes.
Counts(l, m) ==
    /\ m \in HandlerTypes /\ m.counted = TRUE
    /\ m.invokes = l.invokes /\ m.result = l.result
    /\ m.isLastResult = l.isLastResult /\ m.timer = l.timer
    /\ m.streamError = l.streamError /\ m.closed = l.closed

\* Call n is the next one, and is started.
Starts(l, m, n) ==
    /\ ~l.isLastResult /\ l.calls[n].pc = "none"
    /\ \A j \in Calls : l.calls[j].pc = "none" => n <= j
    /\ m.calls[n].pc = "wait" /\ m.calls[n].err = l.calls[n].err
    /\ \A j \in Calls : j # n => m.calls[j] = l.calls[j]

\* What Result does with the handler, and with the Call it receives from.
Receives(l, m) ==
    Counts(l, m) /\ (m.calls = l.calls \/ \E n \in Calls : Starts(l, m, n))

Taken(m, k) == [m EXCEPT !.calls[k].pc = "tail"]

\* Result starts the next Call, if there is one to start.
LEMMA ReceivedShape ==
    ASSUME NEW l \in HandlerTypes
    PROVE  Receives(l, Received(l))
  <1> DEFINE m == Received(l)
  <1> DEFINE free == {k \in Calls : l.calls[k].pc = "none"}
             next == CHOOSE k \in free : \A j \in free : k <= j
             starts == ~l.isLastResult /\ l.timer # None /\ free # {}
  <1>1. m = [l EXCEPT !.counted = TRUE,
                      !.calls = IF starts THEN [l.calls EXCEPT ![next].pc = "wait"]
                                ELSE l.calls]
    BY DEF Received
  <1>2. free # {} => next \in free /\ \A j \in free : next <= j
    <2>1. free \subseteq Nat
      BY CallNumbers
    <2> HIDE DEF free
    <2> QED
      BY <2>1, LeastNumber
  <1>3. free # {} => /\ next \in Calls /\ l.calls[next].pc = "none"
                     /\ \A j \in Calls : l.calls[j].pc = "none" => next <= j
    BY <1>2
  <1> SUFFICES /\ Counts(l, m)
               /\ m.calls = l.calls \/ \E n \in Calls : Starts(l, m, n)
    BY DEF Receives
  <1> HIDE DEF free, next, m
  <1>4. ASSUME starts
        PROVE  /\ m = [l EXCEPT !.counted = TRUE,
                               !.calls = [l.calls EXCEPT ![next].pc = "wait"]]
               /\ next \in Calls /\ l.calls[next].pc = "none" /\ ~l.isLastResult
               /\ \A j \in Calls : l.calls[j].pc = "none" => next <= j
    BY <1>1, <1>3, <1>4
  <1>5. ~starts => m = [l EXCEPT !.counted = TRUE]
    BY <1>1 DEF HandlerTypes
  <1> HIDE DEF starts
  <1>6. CASE starts
    <2> DEFINE c == [l.calls EXCEPT ![next].pc = "wait"]
    <2>1. c \in [Calls -> CallTypes]
      BY <1>4, <1>6, HandlerParts DEF CallTypes
    <2>2. /\ c[next].pc = "wait" /\ c[next].err = l.calls[next].err
          /\ \A j \in Calls : j # next => c[j] = l.calls[j]
      BY <1>4, <1>6, HandlerParts DEF CallTypes
    <2> HIDE DEF c
    <2>3. m = [l EXCEPT !.counted = TRUE, !.calls = c]
      BY <1>4, <1>6 DEF c
    <2>4. m.calls = c /\ Counts(l, m)
      BY <2>1, <2>3 DEF HandlerTypes, Counts
    <2>5. Starts(l, m, next)
      BY <1>4, <1>6, <2>2, <2>4 DEF Starts
    <2> QED
      BY <1>4, <1>6, <2>4, <2>5
  <1>7. CASE ~starts
    BY <1>5, <1>7 DEF HandlerTypes, Counts
  <1> QED
    BY <1>6, <1>7

\* Result takes what a Call delivers.
LEMMA TakenInv ==
    ASSUME NEW l, NEW m, HandlerInv(l), NEW k \in Calls,
           l.calls[k].pc = "deliver", ~l.closed,
           Goes(l, m, k, "tail", l.calls[k].err),
           Counts(l, m)
    PROVE  /\ HandlerInv(m) /\ \A j \in Calls : ~Pending(m, j)
           /\ m.calls[1].pc \in {"tail", "done"}
  <1> USE DEF Counts
  <1>1. OneAtATime(l) /\ ~m.closed
    BY DEF HandlerInv, AboutToPanic
  <1>2. \A j \in Calls : ~Pending(m, j)
    <2>1. \A j \in Calls : Pending(l, j) => j = k
      BY <1>1 DEF OneAtATime, Pending
    <2> QED
      BY <2>1 DEF Goes, Pending
  <1>3. InTurn(m)
    <2>1. \A j \in Calls : m.calls[j].pc # "none" <=> l.calls[j].pc # "none"
      BY DEF Goes
    <2>2. \A j \in Calls : m.calls[j].pc # "none" =>
              \A i \in 1..j : i \in Calls /\ l.calls[i].pc # "none"
      BY <2>1, BoundsAssumption DEF HandlerInv, InTurn, Calls
    <2>3. \A j \in Calls : m.calls[j].pc \in {"none", "wait", "invoke"} =>
              m.calls[j].err = "nil"
      BY DEF HandlerInv, InTurn, Goes
    <2>4. m.calls[1].pc # "assign"
      BY CallNumbers DEF HandlerInv, InTurn, Goes
    <2> QED
      BY <2>1, <2>2, <2>3, <2>4 DEF InTurn
  <1>4. m.calls[1].pc \in {"tail", "done"}
    <2>1. CASE k = 1
      BY <2>1 DEF Goes
    <2>2. CASE k # 1
      <3>1. k > 1 /\ 1 \in Calls
        BY <2>2, CallNumbers
      <3> QED
        BY <2>2, <3>1, LaterCall DEF Goes
    <2> QED
      BY <2>1, <2>2
  <1>5. FirstAlone(m)
    BY <1>1, <1>4 DEF FirstAlone, Pending
  <1>6. OneAtATime(m)
    BY <1>1, <1>2 DEF OneAtATime, Goes
  <1>7. m.streamError = "EOF" =>
            \E j \in Calls : /\ j > 1 /\ m.calls[j].pc = "done"
                             /\ m.calls[j].err = "EOF"
    BY DEF HandlerInv, Goes
  <1> QED
    BY <1>2, <1>3, <1>4, <1>5, <1>6, <1>7 DEF HandlerInv, Goes

\* Result has started a Call: it is the only pending one, unless the process is
\* about to panic.
LEMMA StartedInv ==
    ASSUME NEW l, NEW m, HandlerInv(l), l.calls[1].pc \in {"tail", "done"},
           AboutToPanic(l) \/ \A j \in Calls : ~Pending(l, j),
           NEW n \in Calls, Starts(l, m, n), Counts(l, m)
    PROVE  HandlerInv(m)
  <1> USE DEF Starts, Counts
  <1>1. n > 1 /\ 1 \in Calls
    BY CallNumbers
  <1>2. InTurn(m)
    <2>1. \A j \in Calls : m.calls[j].pc # "none" =>
              j = n \/ l.calls[j].pc # "none"
      OBVIOUS
    <2>2. \A j \in Calls : \A i \in 1..j : i \in Calls
      BY BoundsAssumption DEF Calls
    <2>3. \A i \in Calls : i <= n => m.calls[i].pc # "none"
      <3>1. \A i \in Calls : i <= n /\ i # n => ~(n <= i)
        BY CallNumbers
      <3> QED
        BY <3>1
    <2>4. \A j \in Calls : m.calls[j].pc # "none" =>
              \A i \in 1..j : m.calls[i].pc # "none"
      <3>1. SUFFICES ASSUME NEW j \in Calls, m.calls[j].pc # "none",
                            NEW i \in 1..j
                     PROVE  m.calls[i].pc # "none"
        OBVIOUS
      <3>2. i \in Calls /\ (j = n => i <= n)
        BY <2>2, CallNumbers
      <3>3. CASE j = n
        BY <3>2, <3>3, <2>3
      <3>4. CASE j # n
        <4>1. l.calls[i].pc # "none"
          BY <3>1, <3>4, <2>1 DEF HandlerInv, InTurn
        <4> QED
          BY <3>2, <4>1
      <3> QED
        BY <3>3, <3>4
    <2>5. \A j \in Calls : m.calls[j].pc \in {"none", "wait", "invoke"} =>
              m.calls[j].err = "nil"
      BY DEF HandlerInv, InTurn
    <2>6. m.calls[1].pc # "assign"
      BY <1>1 DEF HandlerInv, InTurn
    <2> QED
      BY <2>4, <2>5, <2>6 DEF InTurn
  <1>3. FirstAlone(m)
    <2>1. m.calls[1].pc \in {"tail", "done"} /\ m.calls[n].pc # "none"
      BY <1>1
    <2> QED
      BY <1>1, <2>1 DEF FirstAlone, Pending
  <1>4. AboutToPanic(l) => AboutToPanic(m)
    BY DEF AboutToPanic
  <1>5. ASSUME ~AboutToPanic(l) PROVE OneAtATime(m)
    <2>1. OneAtATime(l) /\ \A j \in Calls : ~Pending(l, j)
      BY <1>5 DEF HandlerInv
    <2>2. ~l.closed /\ \A j \in Calls : j > 1 => l.calls[j].err # "EOF"
      BY <2>1 DEF OneAtATime
    <2>3. \A j \in Calls : Pending(m, j) => j = n
      BY <2>1 DEF Pending
    <2>4. \A j \in Calls : j > 1 => m.calls[j].err # "EOF"
      BY <2>2, <1>1
    <2> QED
      BY <2>2, <2>3, <2>4 DEF OneAtATime
  <1>6. m.streamError = "EOF" =>
            \E j \in Calls : /\ j > 1 /\ m.calls[j].pc = "done"
                             /\ m.calls[j].err = "EOF"
    BY DEF HandlerInv
  <1> QED
    BY <1>2, <1>3, <1>4, <1>5, <1>6 DEF HandlerInv

\* Result, from a Call: with the last result, nothing is left to come.
LEMMA ResultInv ==
    ASSUME NEW l, NEW r, NEW m, HandlerInv(l), NEW k \in Calls,
           l.calls[k].pc = "deliver", ~l.closed, Receives(l, r),
           m = Taken(r, k)
    PROVE  /\ Advance(l, m) /\ m.result = l.result /\ m.invokes = l.invokes
           /\ l.isLastResult =>
                  m.result = m.invokes /\ \A j \in Calls : ~Pending(m, j)
  <1> DEFINE t == [l EXCEPT !.counted = TRUE, !.calls[k].pc = "tail"]
  <1> USE DEF Receives, Taken
  <1>0. l \in HandlerTypes /\ l.calls[k].pc # "none"
    BY DEF HandlerInv
  <1>1. Counts(l, t) /\ Goes(l, t, k, "tail", l.calls[k].err)
    BY <1>0 DEF Goes, Counts, HandlerTypes, CallTypes
  <1> HIDE DEF t
  <1>2. /\ HandlerInv(t) /\ \A j \in Calls : ~Pending(t, j)
        /\ t.calls[1].pc \in {"tail", "done"}
    BY <1>1, TakenInv
  <1>3. [r.calls EXCEPT ![k].pc = "tail"] \in [Calls -> CallTypes]
    <2>1. r.calls \in [Calls -> CallTypes]
      BY HandlerParts DEF Counts
    <2> QED
      BY <2>1 DEF CallTypes
  <1>4. Counts(l, m) /\ m.calls = [r.calls EXCEPT ![k].pc = "tail"]
    BY <1>3 DEF HandlerTypes, Counts
  <1>5. Goes(r, m, k, "tail", r.calls[k].err)
    <2>1. r.calls \in [Calls -> CallTypes] /\ m \in HandlerTypes
      BY <1>4, HandlerParts DEF Counts
    <2> QED
      BY <1>4, <2>1 DEF Goes, CallTypes
  <1>6. \A j \in Calls : l.calls[j] = [pc |-> l.calls[j].pc, err |-> l.calls[j].err]
                       /\ t.calls[j] = [pc |-> t.calls[j].pc, err |-> t.calls[j].err]
                       /\ m.calls[j] = [pc |-> m.calls[j].pc, err |-> m.calls[j].err]
    <2>1. t \in HandlerTypes /\ m \in HandlerTypes
      BY <1>1, <1>4 DEF Counts
    <2> QED
      BY <1>0, <2>1, HandlerParts
  <1>7. /\ HandlerInv(m)
        /\ \A j \in Calls : l.calls[j].pc # "none" => m.calls[j].pc # "none"
        /\ m.calls[1] = t.calls[1]
        /\ l.isLastResult => \A j \in Calls : ~Pending(m, j)
    <2>1. CASE r.calls = l.calls
      <3>1. Goes(l, m, k, "tail", l.calls[k].err)
        BY <1>5, <2>1 DEF Goes
      <3>2. HandlerInv(m) /\ \A j \in Calls : ~Pending(m, j)
        BY <1>4, <3>1, TakenInv
      <3>3. m.calls[k] = t.calls[k]
        <4>1. m.calls[k].pc = t.calls[k].pc /\ m.calls[k].err = t.calls[k].err
          BY <1>1, <3>1 DEF Goes
        <4> QED
          BY <1>6, <4>1
      <3>4. \A j \in Calls : m.calls[j] = t.calls[j]
        BY <1>1, <3>1, <3>3 DEF Goes
      <3> QED
        BY <3>1, <3>2, <3>4, CallNumbers DEF Goes
    <2>2. CASE r.calls # l.calls
      <3>1. PICK n \in Calls : Starts(l, r, n)
        BY <2>2
      <3>2. n # k /\ ~l.isLastResult
        BY <1>0, <3>1 DEF Starts
      <3>3. \A j \in Calls : j # n => m.calls[j] = t.calls[j]
        <4>1. r.calls[k] = l.calls[k]
          BY <3>1, <3>2 DEF Starts
        <4>2. m.calls[k].pc = t.calls[k].pc /\ m.calls[k].err = t.calls[k].err
          BY <1>1, <1>5, <4>1 DEF Goes
        <4>3. m.calls[k] = t.calls[k]
          BY <1>6, <4>2
        <4> QED
          BY <1>1, <1>5, <3>1, <4>3 DEF Starts, Goes
      <3>4. m.calls[n].pc = "wait" /\ m.calls[n].err = l.calls[n].err
        BY <1>5, <3>1, <3>2 DEF Starts, Goes
      <3>5. t.calls[n] = l.calls[n] /\ t.isLastResult = l.isLastResult
        BY <1>1, <3>2 DEF Goes, Counts
      <3>6. \A j \in Calls : t.calls[j].pc = "none" => n <= j
        BY <1>1, <3>1 DEF Goes, Starts
      <3>7. Starts(t, m, n)
        BY <3>1, <3>2, <3>3, <3>4, <3>5, <3>6 DEF Starts
      <3>8. Counts(t, m)
        BY <1>1, <1>4 DEF Counts
      <3>9. HandlerInv(m)
        BY <1>2, <3>7, <3>8, StartedInv
      <3>10. n # 1
        BY <1>2, <3>7 DEF Starts
      <3> QED
        BY <1>1, <3>2, <3>3, <3>4, <3>9, <3>10, CallNumbers DEF Goes
    <2> QED
      BY <2>1, <2>2
  <1>8. ~AboutToPanic(l) /\ OneAtATime(l) /\ Pending(l, k)
    BY DEF HandlerInv, AboutToPanic, Pending
  <1>9. l.calls[1].pc # "none" /\ (l.calls[1].pc = "done" => t.calls[1] = l.calls[1])
    <2>1. 1 \in 1..k /\ 1 \in Calls
      BY CallNumbers
    <2>2. l.calls[1].pc = "done" => k # 1
      OBVIOUS
    <2> QED
      BY <1>0, <1>1, <2>1, <2>2 DEF HandlerInv, InTurn, Goes
  <1>10. l.isLastResult => l.result = l.invokes
    BY <1>8 DEF OneAtATime
  <1>11. m.result = l.result /\ m.invokes = l.invokes /\ l.result <= m.result
    BY <1>0, <1>4, HandlerParts DEF Counts
  <1>12. Advance(l, m)
    BY <1>7, <1>8, <1>9, <1>11 DEF Advance
  <1> QED
    BY <1>7, <1>10, <1>11, <1>12

\* Result, from the closed channel: it starts a Call only when the process is
\* about to panic anyway.
LEMMA ResultClosedInv ==
    ASSUME NEW l, NEW m, HandlerInv(l), l.closed, Receives(l, m)
    PROVE  /\ Advance(l, m) /\ m.result = l.result /\ m.invokes = l.invokes
           /\ \/ AboutToPanic(m)
              \/ m.result = m.invokes /\ \A j \in Calls : ~Pending(m, j)
  <1> USE DEF Receives
  <1>0. l \in HandlerTypes
    BY DEF HandlerInv
  <1>2. l.calls[1].pc \in {"tail", "done"}
    <2>1. l.calls[1].pc # "none" /\ ~Pending(l, 1) /\ l.calls[1].pc # "assign"
      BY DEF HandlerInv, FirstAlone, InTurn
    <2> QED
      BY <1>0, <2>1, CallNumbers, HandlerParts DEF Pending
  <1>3. m.result = l.result /\ m.invokes = l.invokes /\ l.result <= m.result
    BY <1>0, HandlerParts DEF Counts
  <1>4. CASE m.calls = l.calls
    <2>1. \A j \in Calls : Pending(m, j) <=> Pending(l, j)
      BY <1>4 DEF Pending
    <2>2. AboutToPanic(m) <=> AboutToPanic(l)
      BY <1>4 DEF AboutToPanic, Counts
    <2>3. InTurn(m) /\ FirstAlone(m)
      BY <1>4 DEF HandlerInv, InTurn, FirstAlone, Pending, Counts
    <2>4. OneAtATime(l) => OneAtATime(m)
      BY <1>4, <2>1 DEF OneAtATime, Counts
    <2>5. HandlerInv(m)
      BY <1>4, <2>2, <2>3, <2>4 DEF HandlerInv, Counts
    <2>6. \/ AboutToPanic(m)
          \/ m.result = m.invokes /\ \A j \in Calls : ~Pending(m, j)
      BY <1>3, <2>1, <2>2 DEF HandlerInv, OneAtATime
    <2>7. Advance(l, m)
      BY <1>3, <1>4, <2>1, <2>2, <2>5 DEF Advance
    <2> QED
      BY <1>3, <2>6, <2>7
  <1>5. CASE m.calls # l.calls
    <2>1. PICK n \in Calls : Starts(l, m, n)
      BY <1>5
    <2>2. AboutToPanic(l)
      BY <2>1 DEF HandlerInv, OneAtATime, Starts
    <2>3. HandlerInv(m)
      BY <1>2, <2>1, <2>2, StartedInv
    <2>4. AboutToPanic(m)
      BY <2>1, <2>2 DEF AboutToPanic, Starts, Counts
    <2>5. \E j \in Calls : Pending(l, j)
      BY <2>2 DEF AboutToPanic, Pending
    <2>6. /\ \A j \in Calls : l.calls[j].pc # "none" => m.calls[j].pc # "none"
          /\ m.calls[1] = l.calls[1]
      BY <1>2, <2>1, CallNumbers DEF Starts
    <2>7. Advance(l, m)
      BY <1>3, <2>3, <2>4, <2>5, <2>6 DEF Advance
    <2> QED
      BY <1>3, <2>4, <2>7
  <1> QED
    BY <1>4, <1>5

\* ReceiveFrom starts the first Call.
LEMMA FirstCallInv ==
    ASSUME NEW l, NEW m, HandlerInv(l), l.calls[1].pc = "none",
           Goes(l, m, 1, "wait", l.calls[1].err),
           m.invokes = l.invokes, m.result = l.result, m.counted = l.counted,
           m.isLastResult = l.isLastResult, m.timer = l.timer,
           m.streamError = l.streamError, m.closed = l.closed
    PROVE  HandlerInv(m)
  <1>1. /\ ~l.isLastResult /\ ~l.closed /\ l.timer = None
        /\ \A k \in Calls : k > 1 => l.calls[k].pc = "none"
    BY DEF HandlerInv, FirstAlone
  <1>2. 1 \in Calls /\ \A k \in Calls : k > 1 \/ k = 1
    BY CallNumbers
  <1>3. m.calls[1].pc = "wait" /\ \A k \in Calls : k > 1 => m.calls[k].pc = "none"
    BY <1>1 DEF Goes
  <1>4. \A k \in Calls : m.calls[k].err = "nil"
    BY <1>1, <1>2 DEF HandlerInv, InTurn, Goes
  <1>5. InTurn(m)
    <2>1. \A k \in Calls : m.calls[k].pc # "none" => k = 1
      BY <1>2, <1>3
    <2>2. \A k \in Calls : m.calls[k].pc # "none" =>
              \A j \in 1..k : m.calls[j].pc # "none"
      BY <2>1, <1>3
    <2> QED
      BY <1>3, <1>4, <2>2 DEF InTurn
  <1>6. FirstAlone(m)
    BY <1>1, <1>3 DEF FirstAlone
  <1>7. OneAtATime(m)
    <2>1. \A k \in Calls : Pending(m, k) => k = 1
      BY <1>2, <1>3 DEF Pending
    <2> QED
      BY <1>1, <1>4, <2>1 DEF OneAtATime
  <1>8. l.streamError # "EOF"
    BY <1>1 DEF HandlerInv
  <1> QED
    BY <1>5, <1>6, <1>7, <1>8 DEF HandlerInv, Goes

-----------------------------------------------------------------------------
(* Steps of the call *)

\* The current handler is one of the policy, once there is one.
LEMMA CurrentHandler ==
    ASSUME GrpcTypes, cur # 0
    PROVE  cur \in Handlers
  BY BoundsAssumption DEF GrpcTypes, cur, Handlers

\* A Call that advances disturbs nothing but, perhaps, the sending.
LEMMA AdvanceKeeps ==
    ASSUME GrpcInv, NEW h \in Handlers, NEW m, Advance(lambda[h], m),
           lambda' = [lambda EXCEPT ![h] = m],
           UNCHANGED <<main, recv, sent>>
    PROVE  /\ lambda' \in [Handlers -> HandlerTypes]
           /\ \A g \in Handlers : HandlerInv(lambda'[g])
           /\ RecvInv' /\ SentInv'
           /\ \A g \in Handlers : Advance(lambda[g], lambda'[g]) \/ lambda'[g] = lambda[g]
           /\ \A g \in Handlers : Complete(g) => Complete(g)'
  <1>1. /\ GrpcTypes /\ MainInv /\ RecvInv /\ SentInv
        /\ \A g \in Handlers : HandlerInv(lambda[g])
    BY DEF GrpcInv
  <1>2. /\ lambda'[h] = m
        /\ \A g \in Handlers : g # h => lambda'[g] = lambda[g]
    BY <1>1 DEF GrpcTypes
  <1>3. \A g \in Handlers : Advance(lambda[g], lambda'[g]) \/ lambda'[g] = lambda[g]
    BY <1>2
  <1>4. \A g \in Handlers : HandlerInv(lambda'[g])
    BY <1>1, <1>3 DEF Advance
  <1>5. lambda' \in [Handlers -> HandlerTypes]
    BY <1>1, <1>4 DEF GrpcTypes, HandlerInv
  <1>6. \A g \in Handlers :
            lambda[g].calls[1].pc \in {"none", "done"} =>
                lambda'[g].calls[1] = lambda[g].calls[1]
    BY <1>3 DEF Advance
  <1>7. RecvInv'
    <2>1. ASSUME recv.pc # "none"
          PROVE  cur \in Handlers
      BY <1>1, <2>1, CurrentHandler DEF MainInv
    <2>2. recv' = recv /\ main' = main /\ cur' = cur
      BY DEF cur
    <2>3. recv.pc = "recv" => L'.calls[1].pc = "none"
      BY <1>1, <1>6, <2>1, <2>2 DEF RecvInv, L
    <2>4. recv.pc \in {"offer", "closed", "done"} =>
              /\ L'.calls[1].pc \in {"none", "done"}
              /\ recv.err = "nil" => FirstReturned(L')
      BY <1>1, <1>6, <2>1, <2>2 DEF RecvInv, L, FirstReturned
    <2>5. \A g \in Handlers : g < cur => FirstReturned(lambda'[g])
      BY <1>1, <1>6 DEF RecvInv, FirstReturned
    <2> QED
      BY <1>1, <2>2, <2>3, <2>4, <2>5 DEF RecvInv, FirstReturned
  <1>8. \A g \in Handlers : Complete(g) => Complete(g)'
    BY <1>3 DEF Complete, Advance
  <1>9. SentInv'
    <2>1. SentInOrder'
      BY <1>1 DEF SentInv, SentInOrder
    <2>2. \A g \in Handlers : \A i \in DOMAIN sent[g] :
              sent[g][i] <= lambda'[g].result
      <3>1. SUFFICES ASSUME NEW g \in Handlers, NEW i \in DOMAIN sent[g]
                     PROVE  sent[g][i] <= lambda'[g].result
        OBVIOUS
      <3>2. sent[g] \in Seq(Nat) /\ lambda[g] \in HandlerTypes
        BY <1>1 DEF GrpcTypes
      <3>3. lambda'[g] \in HandlerTypes
        BY <1>5
      <3>4. /\ sent[g][i] \in Nat
            /\ lambda[g].result \in Nat /\ lambda'[g].result \in Nat
        BY <3>1, <3>2, <3>3, HandlerParts
      <3>5. lambda[g].result <= lambda'[g].result
        BY <1>3, <3>4 DEF Advance
      <3>6. sent[g][i] <= lambda[g].result
        BY <1>1 DEF SentInv
      <3> QED
        BY <3>4, <3>5, <3>6
    <2>3. \A g \in Handlers : g < cur => Complete(g)'
      BY <1>1, <1>8 DEF SentInv
    <2>4. cur' = cur /\ sent' = sent
      BY DEF cur
    <2> QED
      BY <2>1, <2>2, <2>3, <2>4 DEF SentInv
  <1> QED
    BY <1>3, <1>4, <1>5, <1>7, <1>8, <1>9

\* It keeps what the stream handler relies on, whatever the sending does.
LEMMA AdvanceMain ==
    ASSUME GrpcInv, NEW h \in Handlers, NEW m, Advance(lambda[h], m),
           lambda' = [lambda EXCEPT ![h] = m],
           UNCHANGED <<main, recv, sent>>,
           \/ send' = send
           \/ /\ send.pc \in {"result", "read"}
              /\ send'.pc \in {"read", "send", "offer"}
    PROVE  MainInv'
  <1>1. GrpcTypes /\ MainInv /\ cur' = cur
    BY DEF GrpcInv, cur
  <1>2. \A g \in Handlers : Advance(lambda[g], lambda'[g]) \/ lambda'[g] = lambda[g]
    BY AdvanceKeeps
  <1>3. main.pc = "panicked" =>
            \E g \in Handlers, k \in Calls :
                k > 1 /\ lambda'[g].calls[k].pc # "none"
    <2>1. SUFFICES ASSUME main.pc = "panicked"
                   PROVE  \E g \in Handlers, k \in Calls :
                              k > 1 /\ lambda'[g].calls[k].pc # "none"
      OBVIOUS
    <2>2. PICK g \in Handlers, k \in Calls :
              k > 1 /\ lambda[g].calls[k].pc # "none"
      BY <1>1, <2>1 DEF MainInv
    <2>3. lambda'[g].calls[k].pc # "none"
      BY <1>2, <2>2 DEF Advance
    <2> QED
      BY <2>2, <2>3
  <1>4. \A g \in Handlers : g > cur =>
            lambda'[g].calls[1].pc = "none" /\ sent[g] = <<>>
    BY <1>1, <1>2 DEF MainInv, Advance
  <1>5. cur = 0 => send'.pc = "none" /\ send'.err = "nil"
    BY <1>1 DEF MainInv
  <1>6. main.status = "OK" =>
            send'.pc \in {"none", "closed", "done"} /\ send'.err = "nil"
    BY <1>1 DEF MainInv
  <1>7. cur # 0 => send'.pc # "none"
    BY <1>1 DEF MainInv
  <1> QED
    BY <1>1, <1>3, <1>4, <1>5, <1>6, <1>7 DEF MainInv

\* It keeps what the sending relies on.
LEMMA AdvanceStep ==
    ASSUME GrpcInv, NEW h \in Handlers, NEW m, Advance(lambda[h], m),
           lambda' = [lambda EXCEPT ![h] = m],
           UNCHANGED <<main, recv, send, sent>>
    PROVE  GrpcInv'
  <1>1. GrpcTypes /\ MainInv /\ SendInv /\ cur' = cur
    BY DEF GrpcInv, cur
  <1>2. /\ lambda' \in [Handlers -> HandlerTypes]
        /\ \A g \in Handlers : HandlerInv(lambda'[g])
        /\ RecvInv' /\ SentInv'
        /\ \A g \in Handlers : Advance(lambda[g], lambda'[g]) \/ lambda'[g] = lambda[g]
        /\ \A g \in Handlers : Complete(g) => Complete(g)'
    BY AdvanceKeeps
  <1>3. MainInv'
    <2>1. UNCHANGED <<main, recv, sent>> /\ send' = send
      OBVIOUS
    <2> QED
      BY <2>1, AdvanceMain
  <1>4. GrpcTypes'
    BY <1>1, <1>2 DEF GrpcTypes
  <1>5. SendInv'
    <2>1. CASE cur = 0
      <3>1. send.pc = "none" /\ cur' = 0
        BY <1>1, <2>1 DEF MainInv
      <3> QED
        BY <3>1 DEF SendInv
    <2>2. CASE cur # 0
      <3>1. cur \in Handlers
        BY <1>1, <2>2, CurrentHandler
      <3>2. /\ L = lambda[cur] /\ L' = lambda'[cur]
            /\ L \in HandlerTypes /\ L' \in HandlerTypes
        BY <1>1, <1>2, <3>1 DEF L, GrpcTypes
      <3>3. Advance(L, L') \/ L' = L
        BY <1>2, <3>1, <3>2
      <3>4. L'.calls[1].pc = "none" => L.calls[1].pc = "none"
        BY <3>3, CallNumbers DEF Advance
      <3>5. L.result \in Nat /\ L'.result \in Nat /\ L.result <= L'.result
        BY <3>2, <3>3, HandlerParts DEF Advance
      <3>6. send.pc = "send" => send.payload <= L'.result
        <4>1. send.payload \in Nat
          BY <1>1 DEF GrpcTypes
        <4> QED
          BY <1>1, <3>5, <4>1 DEF SendInv
      <3>7. send.pc = "send" /\ send.err = "EOF" =>
                \/ AboutToPanic(L')
                \/ /\ \A k \in Calls : ~Pending(L', k)
                   /\ send.payload = L'.invokes
        BY <1>1, <3>3 DEF SendInv, Advance
      <3>8. send.pc \in {"offer", "closed", "done"} /\ send.err = "nil" =>
                Complete(cur)'
        BY <1>1, <1>2, <3>1 DEF SendInv
      <3> QED
        BY <1>1, <3>4, <3>6, <3>7, <3>8 DEF SendInv
    <2> QED
      BY <2>1, <2>2
  <1> QED
    BY <1>2, <1>3, <1>4, <1>5 DEF GrpcInv

\* Call k changes; c are the Calls of the handler then.
Changes(l, c, k, pc, err) ==
    /\ c \in [Calls -> CallTypes]
    /\ c[k].pc = pc /\ c[k].err = err
    /\ \A j \in Calls : j # k => c[j] = l.calls[j]

\* Assignments to the pc of a Call, and to both of its fields.
LEMMA ChangesCall ==
    ASSUME NEW l \in HandlerTypes, NEW k \in Calls,
           NEW pc \in {"none", "wait", "invoke", "processing", "deliver",
                       "tail", "assign", "done"},
           NEW err \in {"nil", "EOF", "status", "error"}
    PROVE  /\ Changes(l, [l.calls EXCEPT ![k].pc = pc], k, pc, l.calls[k].err)
           /\ Changes(l, [l.calls EXCEPT ![k] = [pc |-> pc, err |-> err]],
                      k, pc, err)
  <1>1. l.calls \in [Calls -> CallTypes]
    BY HandlerParts
  <1> QED
    BY <1>1 DEF Changes, CallTypes

\* A Call goes on when its wait is over, by a tick or by a notification.
LEMMA WaitedStep ==
    ASSUME GrpcInv, NEW h \in Handlers, NEW k \in Calls,
           Waited(h, k) \/ Notified(h, k)
    PROVE  GrpcInv'
  <1> DEFINE l == lambda[h]
             c == [l.calls EXCEPT ![k].pc = "invoke"]
             w == IF l.timer = None THEN None ELSE l.timer - 1
  <1>1. HandlerInv(l) /\ l \in HandlerTypes /\ lambda \in [Handlers -> HandlerTypes]
    BY DEF GrpcInv, GrpcTypes
  <1>2. l.calls[k].pc = "wait" /\ UNCHANGED <<main, recv, send, sent>>
    BY DEF Waited, Notified
  <1>3. Changes(l, c, k, "invoke", l.calls[k].err)
    BY <1>1, ChangesCall
  <1>4. CASE Waited(h, k)
    <2> DEFINE m == [l EXCEPT !.calls = c, !.timer = w]
    <2>1. lambda' = [lambda EXCEPT ![h] = m]
      BY <1>1, <1>4 DEF Waited, HandlerTypes
    <2>2. w \in {None} \cup 0..2 /\ (l.timer = None => w = None)
      <3>1. l.timer \in {None} \cup 0..2 /\ l.timer # 0
        BY <1>1, <1>4, HandlerParts DEF Waited
      <3> QED
        BY <3>1
    <2> HIDE DEF l, c, w
    <2>3. /\ Goes(l, m, k, "invoke", l.calls[k].err)
          /\ m.invokes = l.invokes /\ m.result = l.result
          /\ m.counted = l.counted /\ m.isLastResult = l.isLastResult
          /\ m.streamError = l.streamError /\ m.closed = l.closed
          /\ l.timer = None => m.timer = None
      BY <1>1, <1>3, <2>2 DEF Goes, Changes, HandlerTypes
    <2> HIDE DEF m
    <2>4. Advance(l, m)
      BY <1>1, <1>2, <2>3, WaitedInv
    <2> QED
      BY <1>2, <2>1, <2>4, AdvanceStep DEF l
  <1>5. CASE Notified(h, k)
    <2> DEFINE m == [l EXCEPT !.calls = c]
    <2>1. lambda' = [lambda EXCEPT ![h] = m]
      BY <1>1, <1>5 DEF Notified, HandlerTypes
    <2> HIDE DEF l, c
    <2>3. /\ Goes(l, m, k, "invoke", l.calls[k].err)
          /\ m.invokes = l.invokes /\ m.result = l.result
          /\ m.counted = l.counted /\ m.isLastResult = l.isLastResult
          /\ m.streamError = l.streamError /\ m.closed = l.closed
          /\ l.timer = None => m.timer = None
      BY <1>1, <1>3 DEF Goes, Changes, HandlerTypes
    <2> HIDE DEF m
    <2>4. Advance(l, m)
      BY <1>1, <1>2, <2>3, WaitedInv
    <2> QED
      BY <1>2, <2>1, <2>4, AdvanceStep DEF l
  <1> QED
    BY <1>4, <1>5

\* What the Invoke of a Call leaves behind.
LEMMA InvokeStep ==
    ASSUME GrpcInv, NEW h \in Handlers, NEW k \in Calls, Invoke(h, k)
    PROVE  GrpcInv'
  <1> DEFINE l == lambda[h]
             n == l.invokes + 1
  <1>1. HandlerInv(l) /\ l \in HandlerTypes /\ lambda \in [Handlers -> HandlerTypes]
    BY DEF GrpcInv, GrpcTypes
  <1>2. l.calls[k].pc = "invoke" /\ UNCHANGED <<main, recv, send, sent>>
    BY DEF Invoke
  <1>3. l.invokes \in Nat /\ n \in Nat
    BY <1>1, HandlerParts
  <1>4. CASE lambda' = [lambda EXCEPT ![h] = Failed([l EXCEPT !.invokes = @ + 1], k)]
    <2> DEFINE c == [l.calls EXCEPT ![k] = [pc |-> "deliver", err |-> "error"]]
               m == [l EXCEPT !.invokes = n, !.calls = c]
    <2>1. lambda' = [lambda EXCEPT ![h] = m]
      BY <1>1, <1>4 DEF Failed, HandlerTypes
    <2>2. Changes(l, c, k, "deliver", "error")
      BY <1>1, ChangesCall
    <2> HIDE DEF l, c
    <2>3. /\ Goes(l, m, k, "deliver", "error")
          /\ m.invokes = l.invokes + 1 /\ m.result = l.result
          /\ m.counted = l.counted /\ m.isLastResult = l.isLastResult
          /\ m.streamError = l.streamError /\ m.closed = l.closed
      BY <1>1, <1>3, <2>2 DEF Goes, Changes, HandlerTypes
    <2> HIDE DEF m
    <2>4. Advance(l, m)
      BY <1>1, <1>2, <2>3, FailedInv
    <2> QED
      BY <1>2, <2>1, <2>4, AdvanceStep DEF l
  <1>5. ASSUME NEW pc \in {"deliver", "processing"}, NEW err \in {"EOF", "status"},
               lambda' = [lambda EXCEPT ![h] = [l EXCEPT
                   !.invokes = n, !.result = n, !.isLastResult = TRUE,
                   !.calls = [l.calls EXCEPT ![k] = [pc |-> pc, err |-> err]]]]
        PROVE  GrpcInv'
    <2> DEFINE c == [l.calls EXCEPT ![k] = [pc |-> pc, err |-> err]]
               m == [l EXCEPT !.invokes = n, !.result = n, !.isLastResult = TRUE,
                              !.calls = c]
    <2>1. lambda' = [lambda EXCEPT ![h] = m]
      BY <1>5
    <2>2. Changes(l, c, k, pc, err)
      BY <1>1, ChangesCall
    <2> HIDE DEF l, c
    <2>3. /\ Goes(l, m, k, pc, err)
          /\ m.invokes = l.invokes + 1 /\ m.result = l.invokes + 1
          /\ m.counted = l.counted /\ m.isLastResult = TRUE
          /\ m.streamError = l.streamError /\ m.closed = l.closed
          /\ m.timer = l.timer
      BY <1>1, <1>3, <2>2 DEF Goes, Changes, HandlerTypes
    <2> HIDE DEF m
    <2>4. Advance(l, m)
      BY <1>1, <1>2, <2>3, AnsweredInv
    <2> QED
      BY <1>2, <2>1, <2>4, AdvanceStep DEF l
  <1>6. ASSUME NEW err \in {"EOF", "status"}
        PROVE  Answered([l EXCEPT !.invokes = @ + 1], k, n, err) =
                   [l EXCEPT !.invokes = n, !.result = n, !.isLastResult = TRUE,
                             !.calls = [l.calls EXCEPT
                                 ![k] = [pc |-> "deliver", err |-> err]]]
    BY <1>1 DEF Answered, HandlerTypes
  <1>7. [Answered([l EXCEPT !.invokes = @ + 1], k, n, "EOF")
         EXCEPT !.calls[k].pc = "processing"] =
            [l EXCEPT !.invokes = n, !.result = n, !.isLastResult = TRUE,
                      !.calls = [l.calls EXCEPT
                          ![k] = [pc |-> "processing", err |-> "EOF"]]]
    <2> DEFINE c == [l.calls EXCEPT ![k] = [pc |-> "deliver", err |-> "EOF"]]
               a == [l EXCEPT !.invokes = n, !.result = n, !.isLastResult = TRUE,
                              !.calls = c]
    <2>1. Answered([l EXCEPT !.invokes = @ + 1], k, n, "EOF") = a
      BY <1>6
    <2>2. [c EXCEPT ![k].pc = "processing"] =
              [l.calls EXCEPT ![k] = [pc |-> "processing", err |-> "EOF"]]
      <3>1. l.calls \in [Calls -> CallTypes]
        BY <1>1, HandlerParts
      <3> QED
        BY <3>1
    <2> HIDE DEF c
    <2>3. [a EXCEPT !.calls[k].pc = "processing"] =
              [l EXCEPT !.invokes = n, !.result = n, !.isLastResult = TRUE,
                        !.calls = [c EXCEPT ![k].pc = "processing"]]
      BY <1>1 DEF HandlerTypes
    <2> QED
      BY <2>1, <2>2, <2>3
  <1>8. [l EXCEPT !.invokes = @ + 1].invokes = n
    BY <1>1 DEF HandlerTypes
  <1> QED
    BY <1>4, <1>5, <1>6, <1>7, <1>8 DEF Invoke

\* A 102 is no last result.
LEMMA ProcessingStep ==
    ASSUME GrpcInv, NEW h \in Handlers, NEW k \in Calls, Processing(h, k)
    PROVE  GrpcInv'
  <1> DEFINE l == lambda[h]
  <1>1. HandlerInv(l) /\ l \in HandlerTypes /\ lambda \in [Handlers -> HandlerTypes]
    BY DEF GrpcInv, GrpcTypes
  <1>2. l.calls[k].pc = "processing" /\ UNCHANGED <<main, recv, send, sent>>
    BY DEF Processing
  <1>3. PICK timeout \in {"set", "none", "bad"},
             left \in IF l.timer \in {1, 2} THEN {0, 1} ELSE {0} :
            lambda' = [lambda EXCEPT ![h] = [l EXCEPT
                !.isLastResult = FALSE,
                !.calls[k] = [pc |-> "deliver",
                              err |-> IF timeout = "bad" THEN "status"
                                      ELSE IF l.counted THEN "nil"
                                      ELSE "EOF"],
                !.timer = IF timeout = "set" THEN 1 + left ELSE @]]
    BY DEF Processing
  <1> DEFINE err == IF timeout = "bad" THEN "status"
                    ELSE IF l.counted THEN "nil" ELSE "EOF"
             w == IF timeout = "set" THEN 1 + left ELSE l.timer
             c == [l.calls EXCEPT ![k] = [pc |-> "deliver", err |-> err]]
             m == [l EXCEPT !.isLastResult = FALSE, !.calls = c, !.timer = w]
  <1>4. lambda' = [lambda EXCEPT ![h] = m]
    BY <1>1, <1>3 DEF HandlerTypes
  <1>5. w \in {None} \cup 0..2
    <2>1. left \in {0, 1}
      OBVIOUS
    <2>2. l.timer \in {None} \cup 0..2
      BY <1>1, HandlerParts
    <2> QED
      BY <2>1, <2>2
  <1>6. err \in {"nil", "EOF", "status", "error"} /\ (err = "EOF" => ~l.counted)
    OBVIOUS
  <1> HIDE DEF err
  <1>7. Changes(l, c, k, "deliver", err)
    BY <1>1, <1>6, ChangesCall
  <1> HIDE DEF l, c, w
  <1>8. /\ Goes(l, m, k, "deliver", err)
        /\ m.invokes = l.invokes /\ m.result = l.result
        /\ m.counted = l.counted /\ m.isLastResult = FALSE
        /\ m.streamError = l.streamError /\ m.closed = l.closed
    BY <1>1, <1>5, <1>7 DEF Goes, Changes, HandlerTypes
  <1> HIDE DEF m
  <1>9. Advance(l, m)
    BY <1>1, <1>2, <1>6, <1>8, ProcessingInv
  <1> QED
    BY <1>2, <1>4, <1>9, AdvanceStep DEF l

\* The stream handler panics only while a Call of a stream runs.
LEMMA PanicStep ==
    ASSUME GrpcInv, NEW h \in Handlers,
           \E k \in Calls : k > 1 /\ lambda[h].calls[k].pc # "none",
           main' = [main EXCEPT !.pc = "panicked"],
           UNCHANGED <<recv, send, lambda, sent>>
    PROVE  GrpcInv'
  <1>1. /\ GrpcTypes /\ MainInv /\ RecvInv /\ SentInv /\ SendInv
        /\ \A g \in Handlers : HandlerInv(lambda[g])
    BY DEF GrpcInv
  <1>2. /\ main'.pc = "panicked" /\ cur' = cur /\ L' = L
        /\ main'.status = main.status /\ main'.handler = main.handler
        /\ main' = [pc |-> main'.pc, handler |-> main'.handler,
                    status |-> main'.status]
    BY <1>1 DEF GrpcTypes, cur, L
  <1>3. GrpcTypes' /\ \A g \in Handlers : HandlerInv(lambda'[g])
    BY <1>1, <1>2 DEF GrpcTypes
  <1>4. MainInv'
    BY <1>1, <1>2 DEF MainInv
  <1>5. RecvInv'
    BY <1>1, <1>2 DEF RecvInv, FirstReturned
  <1>6. SentInv' /\ SendInv'
    BY <1>1, <1>2 DEF SentInv, SendInv, SentInOrder, Complete
  <1> QED
    BY <1>3, <1>4, <1>5, <1>6 DEF GrpcInv

\* The panics: the closed stream, and a send on the closed waitCall.
LEMMA PanicSteps ==
    ASSUME GrpcInv, NEW h \in Handlers, NEW k \in Calls,
           StreamClosed(h, k) \/ DeliverClosed(h, k)
    PROVE  GrpcInv'
  <1>1. HandlerInv(lambda[h]) /\ lambda[h].calls[k].pc # "none"
    BY DEF GrpcInv, StreamClosed, DeliverClosed
  <1>2. k # 1
    BY <1>1 DEF HandlerInv, FirstAlone, Pending, StreamClosed, DeliverClosed
  <1>3. k > 1
    BY <1>2, CallNumbers
  <1> QED
    BY <1>1, <1>3, PanicStep DEF StreamClosed, DeliverClosed

\* The end of the deferred function.
LEMMA CloseIfLastStep ==
    ASSUME GrpcInv, NEW h \in Handlers, NEW k \in Calls, CloseIfLast(h, k)
    PROVE  GrpcInv'
  <1> DEFINE l == lambda[h]
             pc == IF k = 1 THEN "done" ELSE "assign"
             c == [l.calls EXCEPT ![k].pc = pc]
             m == [l EXCEPT !.closed = l.closed \/ l.isLastResult, !.calls = c]
  <1>1. HandlerInv(l) /\ l \in HandlerTypes /\ lambda \in [Handlers -> HandlerTypes]
    BY DEF GrpcInv, GrpcTypes
  <1>2. l.calls[k].pc = "tail" /\ UNCHANGED <<recv, send, sent>>
    BY DEF CloseIfLast
  <1>3. CASE l.isLastResult /\ l.closed
    <2>1. main' = [main EXCEPT !.pc = "panicked"] /\ UNCHANGED lambda
      BY <1>3 DEF CloseIfLast
    <2>2. \E j \in Calls : j > 1 /\ lambda[h].calls[j].pc # "none"
      <3>1. CASE k = 1
        BY <1>1, <1>2, <1>3, <3>1 DEF HandlerInv, FirstAlone
      <3>2. CASE k # 1
        BY <1>2, <3>2, CallNumbers
      <3> QED
        BY <3>1, <3>2
    <2> QED
      BY <1>2, <2>1, <2>2, PanicStep
  <1>4. CASE ~(l.isLastResult /\ l.closed)
    <2>1. lambda' = [lambda EXCEPT ![h] = m] /\ UNCHANGED main
      BY <1>1, <1>4 DEF CloseIfLast, HandlerTypes
    <2>2. Changes(l, c, k, pc, l.calls[k].err)
      BY <1>1, ChangesCall
    <2>3. l.closed \in BOOLEAN /\ l.isLastResult \in BOOLEAN
      BY <1>1, HandlerParts
    <2> HIDE DEF l, c
    <2>4. /\ Goes(l, m, k, pc, l.calls[k].err)
          /\ m.invokes = l.invokes /\ m.result = l.result
          /\ m.counted = l.counted /\ m.isLastResult = l.isLastResult
          /\ m.timer = l.timer /\ m.streamError = l.streamError
          /\ m.closed <=> l.closed \/ l.isLastResult
      BY <1>1, <2>2, <2>3 DEF Goes, Changes, HandlerTypes
    <2> HIDE DEF m
    <2>5. Advance(l, m)
      BY <1>1, <1>2, <1>4, <2>4, CloseIfLastInv
    <2> QED
      BY <1>2, <2>1, <2>5, AdvanceStep DEF l
  <1> QED
    BY <1>3, <1>4

\* The goroutine of Result ends.
LEMMA AssignStep ==
    ASSUME GrpcInv, NEW h \in Handlers, NEW k \in Calls, Assign(h, k)
    PROVE  GrpcInv'
  <1> DEFINE l == lambda[h]
             c == [l.calls EXCEPT ![k].pc = "done"]
             m == [l EXCEPT !.streamError = l.calls[k].err, !.calls = c]
  <1>1. HandlerInv(l) /\ l \in HandlerTypes /\ lambda \in [Handlers -> HandlerTypes]
    BY DEF GrpcInv, GrpcTypes
  <1>2. l.calls[k].pc = "assign" /\ UNCHANGED <<main, recv, send, sent>>
    BY DEF Assign
  <1>3. lambda' = [lambda EXCEPT ![h] = m]
    BY <1>1 DEF Assign, HandlerTypes
  <1>4. Changes(l, c, k, "done", l.calls[k].err)
    BY <1>1, ChangesCall
  <1>5. l.calls[k].err \in {"nil", "EOF", "status", "error"}
    BY <1>1, HandlerParts
  <1> HIDE DEF l, c
  <1>6. /\ Goes(l, m, k, "done", l.calls[k].err)
        /\ m.invokes = l.invokes /\ m.result = l.result
        /\ m.counted = l.counted /\ m.isLastResult = l.isLastResult
        /\ m.timer = l.timer /\ m.streamError = l.calls[k].err
        /\ m.closed <=> l.closed
    BY <1>1, <1>4, <1>5 DEF Goes, Changes, HandlerTypes
  <1> HIDE DEF m
  <1>7. Advance(l, m)
    BY <1>1, <1>2, <1>6, AssignInv
  <1> QED
    BY <1>2, <1>3, <1>7, AdvanceStep DEF l

\* Result has received: it sends the last result, or reads on.
LEMMA AfterResultStep ==
    ASSUME GrpcInv, send.pc = "result", cur \in Handlers, NEW m, Advance(L, m),
           m.result = L.result, m.calls[1].pc # "none",
           L.isLastResult =>
               \/ AboutToPanic(m)
               \/ m.result = m.invokes /\ \A j \in Calls : ~Pending(m, j),
           lambda' = [lambda EXCEPT ![cur] = m], send' = AfterResult(L),
           UNCHANGED <<main, recv, sent>>
    PROVE  GrpcInv'
  <1>1. GrpcTypes /\ MainInv /\ SentInv /\ cur' = cur
    BY DEF GrpcInv, cur
  <1>2. Advance(lambda[cur], m)
    BY DEF L
  <1>3. /\ lambda' \in [Handlers -> HandlerTypes]
        /\ \A g \in Handlers : HandlerInv(lambda'[g])
        /\ RecvInv' /\ SentInv'
    BY <1>2, AdvanceKeeps
  <1>4. L = lambda[cur] /\ L' = m /\ L \in HandlerTypes /\ L.result \in Nat
    BY <1>1, HandlerParts DEF L, GrpcTypes
  <1>5. \/ /\ L.isLastResult /\ send'.pc = "send" /\ send'.payload = L.result
           /\ send'.err = "EOF" /\ send'.first = send.first
        \/ /\ send'.pc = "read" /\ send'.payload = send.payload
           /\ send'.err = send.err /\ send'.first = send.first
    BY <1>1 DEF AfterResult, GrpcTypes
  <1>6. GrpcTypes'
    <2>1. send' \in [pc : {"none", "result", "read", "send", "offer", "closed",
                           "done"},
                     err : {"nil", "EOF", "status", "error"},
                     payload : Nat, first : BOOLEAN]
      BY <1>1, <1>4 DEF AfterResult, GrpcTypes
    <2> QED
      BY <1>1, <1>3, <2>1 DEF GrpcTypes
  <1>7. MainInv'
    <2>1. send'.pc \in {"read", "send", "offer"}
      BY <1>5
    <2> QED
      BY <1>2, <2>1, AdvanceMain
  <1>8. SendInv'
    <2>1. L'.calls[1].pc # "none"
      BY <1>4
    <2>2. send'.pc = "send" =>
              /\ send'.payload <= L'.result
              /\ \A i \in DOMAIN sent[cur] : sent[cur][i] <= send'.payload
      BY <1>1, <1>4, <1>5 DEF SentInv
    <2>3. send'.pc = "send" =>
              \/ AboutToPanic(L')
              \/ (\A k \in Calls : ~Pending(L', k)) /\ send'.payload = L'.invokes
      BY <1>4, <1>5
    <2>4. send'.pc \notin {"offer", "closed", "done"}
      BY <1>5
    <2> QED
      BY <1>1, <2>1, <2>2, <2>3, <2>4 DEF SendInv
  <1> QED
    BY <1>3, <1>6, <1>7, <1>8 DEF GrpcInv

\* Result, from a Call.
LEMMA ResultStep ==
    ASSUME GrpcInv, NEW h \in Handlers, NEW k \in Calls, Result(h, k)
    PROVE  GrpcInv'
  <1> DEFINE r == Received(L)
  <1>1. /\ h = cur /\ L = lambda[h] /\ HandlerInv(L) /\ L \in HandlerTypes
        /\ send.pc = "result" /\ L.calls[k].pc = "deliver" /\ ~L.closed
        /\ send' = AfterResult(L) /\ UNCHANGED <<main, recv, sent>>
    BY DEF GrpcInv, GrpcTypes, Result, L
  <1>2. Receives(L, r)
    BY <1>1, ReceivedShape
  <1> DEFINE m == Taken(r, k)
  <1>3. lambda' = [lambda EXCEPT ![h] = m]
    BY <1>1 DEF Result, Taken
  <1> HIDE DEF r
  <1>4. /\ Advance(L, m) /\ m.result = L.result /\ m.invokes = L.invokes
        /\ L.isLastResult =>
               m.result = m.invokes /\ \A j \in Calls : ~Pending(m, j)
    BY <1>1, <1>2, ResultInv
  <1>5. lambda' = [lambda EXCEPT ![cur] = m]
    BY <1>1, <1>3
  <1> HIDE DEF m
  <1>6. m.calls[1].pc # "none"
    <2>1. 1 \in 1..k /\ 1 \in Calls
      BY CallNumbers
    <2>2. L.calls[1].pc # "none"
      BY <1>1, <2>1 DEF HandlerInv, InTurn
    <2> QED
      BY <1>4, <2>1, <2>2 DEF Advance
  <1> QED
    BY <1>1, <1>4, <1>5, <1>6, AfterResultStep

\* Result, from the closed channel.
LEMMA ResultClosedStep ==
    ASSUME GrpcInv, ResultClosed
    PROVE  GrpcInv'
  <1> DEFINE m == Received(L)
  <1>1. send.pc = "result" /\ L.closed
        /\ send' = AfterResult(L) /\ UNCHANGED <<main, recv, sent>>
        /\ lambda' = [lambda EXCEPT ![cur] = Received(@)]
    BY DEF ResultClosed
  <1>2. cur \in Handlers
    BY <1>1, CurrentHandler DEF GrpcInv, MainInv
  <1>3. L = lambda[cur] /\ HandlerInv(L) /\ L \in HandlerTypes
    BY <1>2 DEF GrpcInv, GrpcTypes, L
  <1>4. Receives(L, m)
    BY <1>3, ReceivedShape
  <1>5. lambda' = [lambda EXCEPT ![cur] = m]
    BY <1>1, <1>3
  <1> HIDE DEF m
  <1>6. /\ Advance(L, m) /\ m.result = L.result /\ m.invokes = L.invokes
        /\ \/ AboutToPanic(m)
           \/ m.result = m.invokes /\ \A j \in Calls : ~Pending(m, j)
    BY <1>1, <1>3, <1>4, ResultClosedInv
  <1>7. m.calls[1].pc # "none"
    <2>1. L.calls[1].pc # "none"
      BY <1>1, <1>3 DEF HandlerInv, FirstAlone
    <2> QED
      BY <1>6, <2>1, CallNumbers DEF Advance
  <1> QED
    BY <1>1, <1>2, <1>5, <1>6, <1>7, AfterResultStep

\* The end of Result: io.EOF comes with the last result.
LEMMA ReadResultStep ==
    ASSUME GrpcInv, ReadResult
    PROVE  GrpcInv'
  <1>1. /\ GrpcTypes /\ MainInv /\ RecvInv /\ SentInv /\ SendInv
        /\ \A g \in Handlers : HandlerInv(lambda[g])
    BY DEF GrpcInv
  <1>2. send.pc = "read" /\ UNCHANGED <<main, recv, lambda, sent>>
    BY DEF ReadResult
  <1>3. cur \in Handlers /\ cur' = cur /\ L' = L
    BY <1>1, <1>2, CurrentHandler DEF MainInv, cur, L
  <1>4. L \in HandlerTypes /\ HandlerInv(L) /\ L.result \in Nat
        /\ L.streamError \in {"nil", "EOF", "status", "error"}
    BY <1>1, <1>3, HandlerParts DEF GrpcTypes, L
  <1>5. /\ send'.payload = L.result /\ send'.err = L.streamError
        /\ send'.pc = IF L.streamError \in {"nil", "EOF"} THEN "send" ELSE "offer"
    BY <1>1 DEF ReadResult, GrpcTypes
  <1>6. GrpcTypes'
    <2>1. send' \in [pc : {"none", "result", "read", "send", "offer", "closed",
                           "done"},
                     err : {"nil", "EOF", "status", "error"},
                     payload : Nat, first : BOOLEAN]
      BY <1>1, <1>4 DEF ReadResult, GrpcTypes
    <2> QED
      BY <1>1, <1>2, <2>1 DEF GrpcTypes
  <1>7. MainInv'
    BY <1>1, <1>2, <1>3, <1>5 DEF MainInv
  <1>8. RecvInv' /\ SentInv'
    BY <1>1, <1>2, <1>3 DEF RecvInv, SentInv, SentInOrder, FirstReturned, Complete
  <1>9. SendInv'
    <2>1. L.calls[1].pc # "none"
      BY <1>1, <1>2, <1>3 DEF SendInv, Handlers
    <2>2. L.result <= L.result /\ \A i \in DOMAIN sent[cur] : sent[cur][i] <= L.result
      BY <1>1, <1>3, <1>4 DEF SentInv, L
    <2>3. ASSUME L.streamError = "EOF", ~AboutToPanic(L)
          PROVE  (\A k \in Calls : ~Pending(L, k)) /\ L.result = L.invokes
      <3>1. PICK j \in Calls : j > 1 /\ L.calls[j].pc = "done" /\ L.calls[j].err = "EOF"
        BY <1>4, <2>3 DEF HandlerInv
      <3>2. OneAtATime(L)
        BY <1>4, <2>3 DEF HandlerInv
      <3>3. L.isLastResult /\ (\A k \in Calls : Pending(L, k) => k = j) /\ ~Pending(L, j)
        BY <3>1, <3>2 DEF OneAtATime, Pending
      <3> QED
        BY <3>2, <3>3 DEF OneAtATime
    <2> QED
      BY <1>2, <1>3, <1>5, <2>1, <2>2, <2>3 DEF SendInv
  <1> QED
    BY <1>1, <1>2, <1>6, <1>7, <1>8, <1>9 DEF GrpcInv

\* SendMsg: what is sent keeps the order, and the last result completes it.
LEMMA SendMsgStep ==
    ASSUME GrpcInv, SendMsg
    PROVE  GrpcInv'
  <1>1. /\ GrpcTypes /\ MainInv /\ RecvInv /\ SentInv /\ SendInv
        /\ \A g \in Handlers : HandlerInv(lambda[g])
    BY DEF GrpcInv
  <1>2. send.pc = "send" /\ UNCHANGED <<main, recv, lambda>>
    BY DEF SendMsg
  <1>3. cur \in Handlers /\ cur' = cur /\ L' = L /\ cur # 0
    BY <1>1, <1>2, CurrentHandler DEF MainInv, cur, L, Handlers
  <1>4. PICK fails :
            /\ send' = [send EXCEPT
                   !.first = FALSE,
                   !.pc = IF fails \/ send.err = "EOF" THEN "offer" ELSE "result",
                   !.err = IF fails THEN "error" ELSE "nil"]
            /\ sent' = IF fails THEN sent
                       ELSE [sent EXCEPT ![cur] = Append(@, send.payload)]
    BY DEF SendMsg
  <1>5. /\ send'.pc = IF fails \/ send.err = "EOF" THEN "offer" ELSE "result"
        /\ send'.err = IF fails THEN "error" ELSE "nil"
        /\ send' \in [pc : {"none", "result", "read", "send", "offer", "closed",
                            "done"},
                      err : {"nil", "EOF", "status", "error"},
                      payload : Nat, first : BOOLEAN]
    BY <1>1, <1>4 DEF GrpcTypes
  <1>6. /\ send.payload \in Nat /\ send.payload <= L.result
        /\ sent[cur] \in Seq(Nat)
        /\ \A i \in DOMAIN sent[cur] : sent[cur][i] <= send.payload
        /\ L.calls[1].pc # "none"
    BY <1>1, <1>2, <1>3 DEF SendInv, GrpcTypes
  <1>7. CASE fails
    <2>1. sent' = sent /\ send'.pc = "offer" /\ send'.err = "error"
      BY <1>4, <1>5, <1>7
    <2>2. GrpcTypes' /\ MainInv'
      BY <1>1, <1>2, <1>3, <1>5, <2>1 DEF GrpcTypes, MainInv
    <2>3. RecvInv' /\ SentInv'
      BY <1>1, <1>2, <1>3, <2>1
         DEF RecvInv, SentInv, SentInOrder, FirstReturned, Complete
    <2>4. SendInv'
      BY <1>3, <1>6, <2>1 DEF SendInv
    <2> QED
      BY <1>1, <1>2, <2>2, <2>3, <2>4 DEF GrpcInv
  <1>8. CASE ~fails
    <2> DEFINE q == Append(sent[cur], send.payload)
    <2>1. sent' = [sent EXCEPT ![cur] = q] /\ send'.err = "nil"
      BY <1>4, <1>5, <1>8
    <2>2. /\ q \in Seq(Nat) /\ q # <<>> /\ q[Len(q)] = send.payload
          /\ \A i \in DOMAIN q : q[i] \in Nat /\ q[i] <= send.payload
          /\ \A i, j \in DOMAIN q : i < j =>
                 \/ q[j] = send.payload
                 \/ /\ i \in DOMAIN sent[cur] /\ j \in DOMAIN sent[cur]
                    /\ q[i] = sent[cur][i] /\ q[j] = sent[cur][j]
      <3> DEFINE e == sent[cur]
                 n == Len(e)
      <3>1. /\ q \in Seq(Nat) /\ Len(q) = n + 1 /\ n \in Nat
            /\ DOMAIN q = 1..n + 1 /\ DOMAIN e = 1..n
            /\ q[n + 1] = send.payload /\ \A i \in 1..n : q[i] = e[i] /\ e[i] \in Nat
        BY <1>6
      <3>2. q # <<>>
        BY <1>6, AppendProperties
      <3> HIDE DEF n
      <3>3. \A i \in 1..n + 1 : i = n + 1 \/ i \in 1..n
        BY <3>1
      <3>4. \A i, j \in 1..n + 1 : i < j => i \in 1..n
        BY <3>1
      <3>5. \A i \in 1..n : e[i] <= send.payload
        BY <1>6, <3>1
      <3> HIDE DEF q
      <3>6. \A i \in DOMAIN q : q[i] \in Nat /\ q[i] <= send.payload
        BY <1>6, <3>1, <3>3, <3>5
      <3> QED
        BY <3>1, <3>2, <3>3, <3>4, <3>6
    <2> HIDE DEF q
    <2>3. sent'[cur] = q /\ \A g \in Handlers : g # cur => sent'[g] = sent[g]
      BY <1>1, <1>3, <2>1 DEF GrpcTypes
    <2>4. GrpcTypes'
      BY <1>1, <1>2, <1>5, <2>1, <2>2 DEF GrpcTypes
    <2>5. MainInv'
      <3>1. \A g \in Handlers : g > cur => sent'[g] = <<>>
        BY <1>1, <1>3, <2>3 DEF MainInv, Handlers
      <3>2. main.status # "OK" /\ send'.pc # "none"
        BY <1>1, <1>2, <1>5 DEF MainInv
      <3> QED
        BY <1>1, <1>2, <1>3, <3>1, <3>2 DEF MainInv
    <2>6. RecvInv'
      BY <1>1, <1>2, <1>3 DEF RecvInv, FirstReturned
    <2>7. SentInv'
      <3>1. SentInOrder'
        <4>1. \A i, j \in DOMAIN q : i < j => q[i] <= q[j]
          BY <1>1, <1>3, <2>2 DEF SentInv, SentInOrder
        <4> QED
          BY <1>1, <2>3, <4>1 DEF SentInv, SentInOrder
      <3>2. \A i \in DOMAIN q : q[i] <= L.result
        <4>1. L.result \in Nat
          BY <1>1, <1>3, HandlerParts DEF GrpcTypes, L
        <4> QED
          BY <1>6, <2>2, <4>1
      <3>3. \A g \in Handlers : \A i \in DOMAIN sent'[g] :
                sent'[g][i] <= lambda[g].result
        BY <1>1, <2>3, <3>2 DEF SentInv, L
      <3>4. \A g \in Handlers : g < cur => Complete(g)'
        <4>1. \A g \in Handlers : g < cur => g # cur
          BY DEF Handlers
        <4> QED
          BY <1>1, <1>2, <2>3, <4>1 DEF SentInv, Complete
      <3> QED
        BY <1>2, <1>3, <3>1, <3>3, <3>4 DEF SentInv
    <2>8. SendInv'
      <3>1. CASE send.err = "EOF"
        <4>1. send'.pc = "offer"
          BY <1>5, <3>1
        <4>2. Complete(cur)'
          BY <1>1, <1>2, <1>3, <2>2, <2>3, <3>1 DEF SendInv, Complete, L
        <4> QED
          BY <1>3, <1>6, <2>1, <4>1, <4>2 DEF SendInv
      <3>2. CASE send.err # "EOF"
        <4>1. send'.pc = "result"
          BY <1>5, <1>8, <3>2
        <4> QED
          BY <4>1 DEF SendInv
      <3> QED
        BY <3>1, <3>2
    <2> QED
      BY <1>1, <1>2, <2>4, <2>5, <2>6, <2>7, <2>8 DEF GrpcInv
  <1> QED
    BY <1>7, <1>8

\* ReceiveFrom: only recv changes.
LEMMA RecvStep ==
    ASSUME GrpcInv, recv.pc \in {"recv", "call"}, recv'.pc = "offer",
           recv' \in [pc : {"none", "recv", "call", "offer", "closed", "done"},
                      err : {"nil", "status", "error"}],
           L.calls[1].pc \in {"none", "done"},
           recv'.err = "nil" => FirstReturned(L),
           UNCHANGED <<main, send, lambda, sent>>
    PROVE  GrpcInv'
  <1>1. /\ GrpcTypes /\ MainInv /\ RecvInv /\ SentInv /\ SendInv
        /\ \A g \in Handlers : HandlerInv(lambda[g])
    BY DEF GrpcInv
  <1>2. cur' = cur /\ L' = L
    BY DEF cur, L
  <1>3. GrpcTypes'
    BY <1>1 DEF GrpcTypes
  <1>4. MainInv'
    BY <1>1, <1>2 DEF MainInv
  <1>5. RecvInv'
    BY <1>1, <1>2 DEF RecvInv, FirstReturned
  <1>6. SentInv' /\ SendInv'
    BY <1>1, <1>2 DEF SentInv, SendInv, SentInOrder, Complete
  <1> QED
    BY <1>1, <1>3, <1>4, <1>5, <1>6 DEF GrpcInv

\* The first Call is started: nothing was sent for its handler.
LEMMA FirstCallStep ==
    ASSUME GrpcInv, recv.pc = "recv", recv' = [recv EXCEPT !.pc = "call"],
           lambda' = [lambda EXCEPT ![cur].calls[1].pc = "wait"],
           UNCHANGED <<main, send, sent>>
    PROVE  GrpcInv'
  <1>1. /\ GrpcTypes /\ MainInv /\ RecvInv /\ SentInv /\ SendInv
        /\ \A g \in Handlers : HandlerInv(lambda[g])
    BY DEF GrpcInv
  <1>2. cur \in Handlers /\ cur' = cur /\ cur # 0
    BY <1>1, CurrentHandler DEF MainInv, cur, Handlers
  <1> DEFINE l == lambda[cur]
             c == [l.calls EXCEPT ![1].pc = "wait"]
             m == [l EXCEPT !.calls = c]
  <1>3. l = L /\ l \in HandlerTypes /\ HandlerInv(l) /\ l.calls[1].pc = "none"
    BY <1>1, <1>2 DEF GrpcTypes, RecvInv, L
  <1>4. send.pc = "result"
    BY <1>1, <1>2, <1>3 DEF SendInv
  <1>5. lambda' = [lambda EXCEPT ![cur] = m]
    BY <1>1, <1>2, <1>3 DEF HandlerTypes, GrpcTypes
  <1>6. Changes(l, c, 1, "wait", l.calls[1].err)
    BY <1>3, ChangesCall, CallNumbers
  <1> HIDE DEF l, c
  <1>7. /\ Goes(l, m, 1, "wait", l.calls[1].err)
        /\ m.invokes = l.invokes /\ m.result = l.result
        /\ m.counted = l.counted /\ m.isLastResult = l.isLastResult
        /\ m.timer = l.timer /\ m.streamError = l.streamError
        /\ m.closed = l.closed
    BY <1>3, <1>6 DEF Goes, Changes, HandlerTypes
  <1> HIDE DEF m
  <1>8. HandlerInv(m)
    BY <1>3, <1>7, FirstCallInv
  <1>9. lambda'[cur] = m /\ \A g \in Handlers : g # cur => lambda'[g] = lambda[g]
    BY <1>1, <1>2, <1>5 DEF GrpcTypes
  <1>10. \A g \in Handlers : HandlerInv(lambda'[g])
    BY <1>1, <1>8, <1>9
  <1>11. recv'.pc = "call"
         /\ recv' \in [pc : {"none", "recv", "call", "offer", "closed", "done"},
                       err : {"nil", "status", "error"}]
    BY <1>1 DEF GrpcTypes
  <1>12. GrpcTypes'
    <2>1. lambda' \in [Handlers -> HandlerTypes]
      BY <1>1, <1>5, <1>8 DEF GrpcTypes, HandlerInv
    <2> QED
      BY <1>1, <1>11, <2>1 DEF GrpcTypes
  <1>13. \A g \in Handlers : g > cur \/ g < cur => g # cur
    BY DEF Handlers
  <1>14. MainInv'
    <2>1. main.pc = "panicked" =>
              \E g \in Handlers, k \in Calls :
                  k > 1 /\ lambda'[g].calls[k].pc # "none"
      <3>1. SUFFICES ASSUME main.pc = "panicked"
                     PROVE  \E g \in Handlers, k \in Calls :
                                k > 1 /\ lambda'[g].calls[k].pc # "none"
        OBVIOUS
      <3>2. PICK g \in Handlers, k \in Calls :
                k > 1 /\ lambda[g].calls[k].pc # "none"
        BY <1>1, <3>1 DEF MainInv
      <3>3. k # 1
        BY <3>2
      <3>4. lambda'[g].calls[k].pc # "none"
        BY <1>7, <1>9, <3>2, <3>3 DEF Goes, l
      <3> QED
        BY <3>2, <3>4
    <2>2. \A g \in Handlers : g > cur =>
              lambda'[g].calls[1].pc = "none" /\ sent[g] = <<>>
      BY <1>1, <1>9, <1>13 DEF MainInv
    <2>3. main.status # "OK"
      BY <1>1, <1>4 DEF MainInv
    <2> QED
      BY <1>1, <1>2, <1>11, <2>1, <2>2, <2>3 DEF MainInv
  <1>15. RecvInv'
    BY <1>1, <1>2, <1>9, <1>11, <1>13 DEF RecvInv, FirstReturned
  <1>16. SentInv'
    <2>1. \A g \in Handlers : lambda'[g].result = lambda[g].result
      BY <1>7, <1>9 DEF l
    <2>2. \A g \in Handlers : g < cur => Complete(g)'
      BY <1>1, <1>9, <1>13 DEF SentInv, Complete
    <2> QED
      BY <1>1, <1>2, <2>1, <2>2 DEF SentInv, SentInOrder
  <1>17. SendInv'
    BY <1>4 DEF SendInv
  <1> QED
    BY <1>10, <1>12, <1>14, <1>15, <1>16, <1>17 DEF GrpcInv

\* The goroutine of ReceiveFrom.
LEMMA RecvSteps ==
    ASSUME GrpcInv, RecvMsg \/ RecvFails \/ CallReturned
    PROVE  GrpcInv'
  <1>1. GrpcTypes /\ MainInv /\ RecvInv /\ recv.pc \in {"recv", "call"}
    BY DEF GrpcInv, RecvMsg, RecvFails, CallReturned
  <1>2. cur \in Handlers
    BY <1>1, CurrentHandler DEF MainInv
  <1>3. L \in HandlerTypes /\ HandlerInv(L)
    BY <1>2 DEF GrpcInv, GrpcTypes, L
  <1>4. ASSUME recv.pc = "recv"
        PROVE  L.calls[1].pc = "none" /\ FirstReturned(L)
    BY <1>1, <1>3, <1>4, CallNumbers DEF RecvInv, HandlerInv, InTurn, FirstReturned
  <1>5. CASE RecvMsg
    <2>1. CASE recv' = [recv EXCEPT !.pc = "call"]
      <3>1. recv'.pc = "call"
        BY <1>1, <2>1 DEF GrpcTypes
      <3>2. /\ lambda' = [lambda EXCEPT ![cur].calls[1].pc = "wait"]
            /\ recv.pc = "recv" /\ UNCHANGED <<main, send, sent>>
        <4>1. recv' # [recv EXCEPT !.pc = "offer"]
          BY <1>1, <3>1 DEF GrpcTypes
        <4> QED
          BY <1>5, <4>1 DEF RecvMsg
      <3> QED
        BY <2>1, <3>2, FirstCallStep
    <2>2. CASE recv' = [recv EXCEPT !.pc = "offer"]
      <3>1. /\ recv'.pc = "offer"
            /\ recv' \in [pc : {"none", "recv", "call", "offer", "closed", "done"},
                          err : {"nil", "status", "error"}]
        BY <1>1, <2>2 DEF GrpcTypes
      <3>2. recv.pc = "recv" /\ UNCHANGED <<main, send, lambda, sent>>
        <4>1. recv' # [recv EXCEPT !.pc = "call"]
          BY <1>1, <3>1 DEF GrpcTypes
        <4> QED
          BY <1>5, <4>1 DEF RecvMsg
      <3> QED
        BY <1>4, <3>1, <3>2, RecvStep
    <2> QED
      BY <1>5, <2>1, <2>2 DEF RecvMsg
  <1>6. CASE RecvFails
    <2>1. /\ recv.pc = "recv" /\ recv' = [pc |-> "offer", err |-> "error"]
          /\ UNCHANGED <<main, send, lambda, sent>>
      BY <1>6 DEF RecvFails
    <2>2. /\ recv'.pc = "offer" /\ recv'.err # "nil"
          /\ recv' \in [pc : {"none", "recv", "call", "offer", "closed", "done"},
                        err : {"nil", "status", "error"}]
      BY <2>1
    <2> QED
      BY <1>1, <1>4, <2>1, <2>2, RecvStep
  <1>7. CASE CallReturned
    <2> DEFINE e == IF L.calls[1].err = "EOF" THEN "nil" ELSE L.calls[1].err
    <2>1. /\ recv.pc = "call" /\ recv' = [pc |-> "offer", err |-> e]
          /\ L.calls[1].pc = "done" /\ UNCHANGED <<main, send, lambda, sent>>
      BY <1>7 DEF CallReturned
    <2>2. e \in {"nil", "status", "error"} /\ (e = "nil" => FirstReturned(L))
      <3>1. L.calls[1].err \in {"nil", "EOF", "status", "error"}
        BY <1>3, CallNumbers, HandlerParts
      <3> QED
        BY <2>1, <3>1 DEF FirstReturned
    <2> HIDE DEF e
    <2>3. /\ recv'.pc = "offer" /\ recv'.err = e
          /\ recv' \in [pc : {"none", "recv", "call", "offer", "closed", "done"},
                        err : {"nil", "status", "error"}]
      BY <2>1, <2>2
    <2> QED
      BY <2>1, <2>2, <2>3, <1>1, RecvStep
  <1> QED
    BY <1>5, <1>6, <1>7

\* An event without an error leaves the stream handler in its loop; an error is
\* its status.
LEMMA EventCases ==
    ASSUME GrpcTypes, NEW err, Event(err), err # "OK"
    PROVE  \/ err = "nil" /\ main' = main
           \/ /\ err # "nil" /\ main'.pc = "returned" /\ main'.status # "OK"
              /\ main'.handler = main.handler
              /\ main' = [pc |-> main'.pc, handler |-> main'.handler,
                          status |-> main'.status]
  BY DEF Event, GrpcTypes

\* The loop receives the value of ReceiveFrom.
LEMMA LoopReceivesStep ==
    ASSUME GrpcInv, LoopReceives
    PROVE  GrpcInv'
  <1>1. /\ GrpcTypes /\ MainInv /\ RecvInv /\ SentInv /\ SendInv
        /\ \A g \in Handlers : HandlerInv(lambda[g])
    BY DEF GrpcInv
  <1>2. /\ main.pc = "loop" /\ recv.pc = "offer" /\ Event(recv.err)
        /\ recv' = [recv EXCEPT !.pc = "closed"]
        /\ UNCHANGED <<send, lambda, sent>>
    BY DEF LoopReceives
  <1>3. /\ recv'.pc = "closed" /\ recv'.err = recv.err
        /\ recv' \in [pc : {"none", "recv", "call", "offer", "closed", "done"},
                      err : {"nil", "status", "error"}]
        /\ recv.err # "OK"
    BY <1>1, <1>2 DEF GrpcTypes
  <1>4. \/ recv.err = "nil" /\ main' = main
        \/ /\ recv.err # "nil" /\ main'.pc = "returned" /\ main'.status # "OK"
           /\ main'.handler = main.handler
           /\ main' = [pc |-> main'.pc, handler |-> main'.handler,
                       status |-> main'.status]
    BY <1>1, <1>2, <1>3, EventCases
  <1>5. cur' = cur /\ L' = L
    BY <1>2, <1>4 DEF cur, L
  <1>6. GrpcTypes'
    BY <1>1, <1>2, <1>3, <1>4 DEF GrpcTypes
  <1>7. MainInv'
    BY <1>1, <1>2, <1>3, <1>4, <1>5 DEF MainInv
  <1>8. RecvInv'
    BY <1>1, <1>2, <1>3, <1>4, <1>5 DEF RecvInv, FirstReturned
  <1>9. SentInv' /\ SendInv'
    <2>1. main'.pc = "loop" => main.pc = "loop"
      BY <1>4
    <2> QED
      BY <1>1, <1>2, <1>5, <2>1 DEF SentInv, SendInv, SentInOrder, Complete
  <1> QED
    BY <1>1, <1>2, <1>6, <1>7, <1>8, <1>9 DEF GrpcInv

\* The loop receives the value of SendFrom.
LEMMA LoopSendsStep ==
    ASSUME GrpcInv, LoopSends
    PROVE  GrpcInv'
  <1>1. /\ GrpcTypes /\ MainInv /\ RecvInv /\ SentInv /\ SendInv
        /\ \A g \in Handlers : HandlerInv(lambda[g])
    BY DEF GrpcInv
  <1>2. /\ main.pc = "loop" /\ send.pc = "offer" /\ Event(send.err)
        /\ send' = [send EXCEPT !.pc = "closed"]
        /\ UNCHANGED <<recv, lambda, sent>>
    BY DEF LoopSends
  <1>3. /\ send'.pc = "closed" /\ send'.err = send.err
        /\ send' \in [pc : {"none", "result", "read", "send", "offer", "closed",
                            "done"},
                      err : {"nil", "EOF", "status", "error"},
                      payload : Nat, first : BOOLEAN]
        /\ send.err # "OK"
    BY <1>1, <1>2 DEF GrpcTypes
  <1>4. \/ send.err = "nil" /\ main' = main
        \/ /\ send.err # "nil" /\ main'.pc = "returned" /\ main'.status # "OK"
           /\ main'.handler = main.handler
           /\ main' = [pc |-> main'.pc, handler |-> main'.handler,
                       status |-> main'.status]
    BY <1>1, <1>2, <1>3, EventCases
  <1>5. cur' = cur /\ L' = L
    BY <1>2, <1>4 DEF cur, L
  <1>6. GrpcTypes'
    BY <1>1, <1>2, <1>3, <1>4 DEF GrpcTypes
  <1>7. MainInv'
    BY <1>1, <1>2, <1>3, <1>4, <1>5 DEF MainInv
  <1>8. RecvInv'
    BY <1>1, <1>2, <1>4, <1>5 DEF RecvInv, FirstReturned
  <1>9. SentInv'
    BY <1>1, <1>2, <1>5 DEF SentInv, SentInOrder, Complete
  <1>10. SendInv'
    <2>1. L.calls[1].pc # "none" \/ cur = 0
      BY <1>1, <1>2 DEF SendInv
    <2>2. send.err = "nil" => Complete(cur)'
      BY <1>1, <1>2, <1>5 DEF SendInv, Complete
    <2> QED
      BY <1>3, <1>4, <1>5, <2>1, <2>2 DEF SendInv
  <1> QED
    BY <1>1, <1>2, <1>6, <1>7, <1>8, <1>9, <1>10 DEF GrpcInv

\* The next handler starts, or the call returns OK.
LEMMA NextHandlerStep ==
    ASSUME GrpcInv, main.pc \in {"none", "loop"},
           cur # 0 =>
               /\ recv.pc \in {"closed", "done"} /\ recv.err = "nil"
               /\ send.pc \in {"closed", "done"} /\ send.err = "nil",
           NextHandler(cur + 1), UNCHANGED <<lambda, sent>>
    PROVE  GrpcInv'
  <1>1. /\ GrpcTypes /\ MainInv /\ RecvInv /\ SentInv /\ SendInv
        /\ \A g \in Handlers : HandlerInv(lambda[g])
    BY DEF GrpcInv
  <1>2. cur \in 0..MaxHandlers /\ main.status = "none" /\ MaxHandlers \in Nat
    BY <1>1, BoundsAssumption DEF GrpcTypes, MainInv, cur
  <1>3. cur # 0 => FirstReturned(lambda[cur]) /\ Complete(cur)
    BY <1>1 DEF RecvInv, SendInv, L
  <1>4. CASE cur + 1 \in Handlers
    <2>1. /\ main' = [main EXCEPT !.pc = "loop", !.handler = cur + 1]
          /\ recv' = [pc |-> "recv", err |-> "nil"]
          /\ send' = [pc |-> "result", err |-> "nil", payload |-> 0,
                      first |-> TRUE]
      BY <1>4 DEF NextHandler
    <2>2. /\ main'.pc = "loop" /\ cur' = cur + 1 /\ main'.status = "none"
          /\ main'.handler = cur + 1
          /\ main' = [pc |-> main'.pc, handler |-> main'.handler,
                      status |-> main'.status]
      BY <1>1, <1>2, <2>1 DEF GrpcTypes, cur
    <2>3. /\ cur + 1 \in 0..MaxHandlers /\ cur + 1 # 0 /\ cur + 1 > cur
          /\ \A g \in Handlers : g < cur + 1 => g < cur \/ (g = cur /\ cur # 0)
          /\ \A g \in Handlers : g > cur + 1 => g > cur
      BY <1>2, <1>4 DEF Handlers
    <2>4. /\ recv'.pc = "recv" /\ recv'.err = "nil"
          /\ send'.pc = "result" /\ send'.err = "nil"
          /\ recv' \in [pc : {"none", "recv", "call", "offer", "closed", "done"},
                        err : {"nil", "status", "error"}]
          /\ send' \in [pc : {"none", "result", "read", "send", "offer", "closed",
                              "done"},
                        err : {"nil", "EOF", "status", "error"},
                        payload : Nat, first : BOOLEAN]
      BY <2>1
    <2>5. L' = lambda[cur + 1] /\ L'.calls[1].pc = "none"
      BY <1>1, <1>4, <2>2, <2>3 DEF MainInv, L
    <2>6. GrpcTypes'
      BY <1>1, <2>2, <2>3, <2>4 DEF GrpcTypes
    <2>7. MainInv'
      BY <1>1, <1>4, <2>2, <2>3, <2>4 DEF MainInv
    <2>8. RecvInv'
      <3>1. \A g \in Handlers : g < cur + 1 => FirstReturned(lambda[g])
        BY <1>1, <1>3, <2>3 DEF RecvInv
      <3> QED
        BY <2>2, <2>4, <2>5, <3>1 DEF RecvInv, FirstReturned
    <2>9. SentInv'
      <3>1. \A g \in Handlers : g < cur + 1 => Complete(g)
        BY <1>1, <1>3, <2>3 DEF SentInv
      <3> QED
        BY <1>1, <2>2, <3>1 DEF SentInv, SentInOrder, Complete
    <2>10. SendInv'
      BY <2>4 DEF SendInv
    <2> QED
      BY <1>1, <2>6, <2>7, <2>8, <2>9, <2>10 DEF GrpcInv
  <1>5. CASE cur + 1 \notin Handlers
    <2>1. /\ main' = [main EXCEPT !.pc = "returned", !.status = "OK"]
          /\ UNCHANGED <<recv, send>>
      BY <1>5 DEF NextHandler
    <2>2. /\ main'.pc = "returned" /\ cur' = cur /\ L' = L
          /\ main'.handler = main.handler
          /\ main' = [pc |-> main'.pc, handler |-> main'.handler,
                      status |-> main'.status]
      BY <1>1, <2>1 DEF GrpcTypes, cur, L
    <2>3. cur = MaxHandlers
      BY <1>2, <1>5 DEF Handlers
    <2>4. /\ recv.pc \in {"none", "closed", "done"} /\ recv.err = "nil"
          /\ send.pc \in {"none", "closed", "done"} /\ send.err = "nil"
      BY <1>1 DEF MainInv
    <2>5. GrpcTypes'
      BY <1>1, <2>1, <2>2 DEF GrpcTypes
    <2>6. MainInv'
      BY <1>1, <2>1, <2>2, <2>3, <2>4 DEF MainInv
    <2>7. RecvInv'
      BY <1>1, <2>1, <2>2 DEF RecvInv, FirstReturned
    <2>8. SentInv' /\ SendInv'
      BY <1>1, <2>1, <2>2 DEF SentInv, SendInv, SentInOrder, Complete
    <2> QED
      BY <1>1, <2>5, <2>6, <2>7, <2>8 DEF GrpcInv
  <1> QED
    BY <1>4, <1>5

\* MatchGrpc: no policy, or the first handler.
LEMMA MatchGrpcStep ==
    ASSUME GrpcInv, MatchGrpc
    PROVE  GrpcInv'
  <1>1. /\ GrpcTypes /\ MainInv /\ RecvInv /\ SentInv /\ SendInv
        /\ \A g \in Handlers : HandlerInv(lambda[g])
    BY DEF GrpcInv
  <1>2. main.pc = "none" /\ cur = 0 /\ cur + 1 = 1 /\ UNCHANGED <<lambda, sent>>
    BY <1>1 DEF MatchGrpc, MainInv
  <1>3. CASE NextHandler(1)
    BY <1>2, <1>3, NextHandlerStep
  <1>4. CASE /\ main' = [main EXCEPT !.pc = "returned",
                                    !.status = "Unimplemented"]
             /\ UNCHANGED <<recv, send>>
    <2>1. /\ main'.pc = "returned" /\ main'.status # "OK" /\ cur' = cur /\ L' = L
          /\ main'.handler = main.handler
          /\ main' = [pc |-> main'.pc, handler |-> main'.handler,
                      status |-> main'.status]
      BY <1>1, <1>2, <1>4 DEF GrpcTypes, cur, L
    <2>2. GrpcTypes' /\ MainInv'
      BY <1>1, <1>2, <1>4, <2>1 DEF GrpcTypes, MainInv
    <2>3. RecvInv'
      BY <1>1, <1>2, <1>4, <2>1 DEF RecvInv, FirstReturned
    <2>4. SentInv' /\ SendInv'
      BY <1>1, <1>2, <1>4, <2>1 DEF SentInv, SendInv, SentInOrder, Complete
    <2> QED
      BY <1>1, <1>2, <2>2, <2>3, <2>4 DEF GrpcInv
  <1> QED
    BY <1>3, <1>4 DEF MatchGrpc

\* The closing of the channels; the fourth event ends the handler.
LEMMA LoopClosedStep ==
    ASSUME GrpcInv, LoopClosed
    PROVE  GrpcInv'
  <1>1. /\ GrpcTypes /\ MainInv /\ RecvInv /\ SentInv /\ SendInv
        /\ \A g \in Handlers : HandlerInv(lambda[g])
    BY DEF GrpcInv
  <1>2. main.pc = "loop" /\ UNCHANGED <<lambda, sent>>
    BY DEF LoopClosed
  <1>3. CASE /\ recv.pc = "closed" /\ recv' = [recv EXCEPT !.pc = "done"]
             /\ UNCHANGED <<main, send>>
    <2>1. /\ recv'.pc = "done" /\ recv'.err = recv.err /\ cur' = cur /\ L' = L
          /\ recv' \in [pc : {"none", "recv", "call", "offer", "closed", "done"},
                        err : {"nil", "status", "error"}]
      BY <1>1, <1>2, <1>3 DEF GrpcTypes, cur, L
    <2>2. GrpcTypes' /\ MainInv'
      BY <1>1, <1>2, <1>3, <2>1 DEF GrpcTypes, MainInv
    <2>3. RecvInv'
      BY <1>1, <1>2, <1>3, <2>1 DEF RecvInv, FirstReturned
    <2>4. SentInv' /\ SendInv'
      BY <1>1, <1>2, <1>3, <2>1 DEF SentInv, SendInv, SentInOrder, Complete
    <2> QED
      BY <1>1, <1>2, <2>2, <2>3, <2>4 DEF GrpcInv
  <1>4. CASE /\ send.pc = "closed" /\ send' = [send EXCEPT !.pc = "done"]
             /\ UNCHANGED <<main, recv>>
    <2>1. /\ send'.pc = "done" /\ send'.err = send.err /\ cur' = cur /\ L' = L
          /\ send' \in [pc : {"none", "result", "read", "send", "offer", "closed",
                              "done"},
                        err : {"nil", "EOF", "status", "error"},
                        payload : Nat, first : BOOLEAN]
      BY <1>1, <1>2, <1>4 DEF GrpcTypes, cur, L
    <2>2. GrpcTypes' /\ MainInv'
      BY <1>1, <1>2, <1>4, <2>1 DEF GrpcTypes, MainInv
    <2>3. RecvInv'
      BY <1>1, <1>2, <1>4, <2>1 DEF RecvInv, FirstReturned
    <2>4. SentInv' /\ SendInv'
      BY <1>1, <1>2, <1>4, <2>1 DEF SentInv, SendInv, SentInOrder, Complete
    <2> QED
      BY <1>1, <1>2, <2>2, <2>3, <2>4 DEF GrpcInv
  <1>5. CASE {recv.pc, send.pc} = {"closed", "done"} /\ NextHandler(cur + 1)
    <2>1. recv.pc \in {"closed", "done"} /\ send.pc \in {"closed", "done"}
      BY <1>5
    <2>2. recv.err = "nil" /\ send.err = "nil"
      BY <1>1, <1>2, <2>1 DEF RecvInv, SendInv
    <2> QED
      BY <1>2, <1>5, <2>1, <2>2, NextHandlerStep
  <1> QED
    BY <1>3, <1>4, <1>5 DEF LoopClosed

\* A step that changes nothing of the call.
LEMMA GrpcStutter ==
    ASSUME GrpcInv, UNCHANGED <<main, recv, send, lambda, sent>>
    PROVE  GrpcInv'
  <1>1. /\ GrpcTypes /\ MainInv /\ RecvInv /\ SentInv /\ SendInv
        /\ \A g \in Handlers : HandlerInv(lambda[g])
    BY DEF GrpcInv
  <1>2. cur' = cur /\ L' = L
    BY DEF cur, L
  <1>3. GrpcTypes' /\ MainInv'
    BY <1>1, <1>2 DEF GrpcTypes, MainInv
  <1>4. RecvInv' /\ SentInv' /\ SendInv'
    BY <1>1, <1>2 DEF RecvInv, FirstReturned, SentInv, SendInv, SentInOrder, Complete
  <1> QED
    BY <1>1, <1>3, <1>4 DEF GrpcInv

-----------------------------------------------------------------------------
(* The invariant *)

\* The call begins with the invariant.
LEMMA GrpcInitInv == GrpcInit => GrpcInv
  <1> SUFFICES ASSUME GrpcInit PROVE GrpcInv
    OBVIOUS
  <1> DEFINE c == [k \in Calls |-> [pc |-> "none", err |-> "nil"]]
  <1>1. /\ c \in [Calls -> CallTypes]
        /\ \A k \in Calls : c[k].pc = "none" /\ c[k].err = "nil"
    BY DEF CallTypes
  <1> HIDE DEF c
  <1>2. NewHandler = [calls |-> c, invokes |-> 0, result |-> 0, counted |-> FALSE,
                      isLastResult |-> FALSE, timer |-> None,
                      streamError |-> "nil", closed |-> FALSE]
    BY DEF NewHandler, c
  <1>3. /\ NewHandler \in HandlerTypes /\ NewHandler.calls = c
        /\ NewHandler.invokes = 0 /\ NewHandler.result = 0
        /\ ~NewHandler.isLastResult /\ ~NewHandler.closed
        /\ NewHandler.timer = None /\ NewHandler.streamError = "nil"
    BY <1>1, <1>2 DEF HandlerTypes
  <1>4. HandlerInv(NewHandler)
    <2>1. InTurn(NewHandler)
      BY <1>1, <1>3, CallNumbers DEF InTurn
    <2>2. FirstAlone(NewHandler)
      BY <1>1, <1>3 DEF FirstAlone
    <2>3. OneAtATime(NewHandler)
      BY <1>1, <1>3, CallNumbers DEF OneAtATime, Pending
    <2> QED
      BY <1>3, <2>1, <2>2, <2>3 DEF HandlerInv
  <1>5. \A h \in Handlers : lambda[h] = NewHandler /\ sent[h] = <<>>
    BY DEF GrpcInit
  <1>6. /\ main.pc = "none" /\ main.status = "none" /\ cur = 0
        /\ recv.pc = "none" /\ recv.err = "nil"
        /\ send.pc = "none" /\ send.err = "nil"
    BY DEF GrpcInit, cur
  <1>7. GrpcTypes
    <2>1. lambda \in [Handlers -> HandlerTypes]
      BY <1>3 DEF GrpcInit
    <2>2. sent \in [Handlers -> Seq(Nat)]
      BY DEF GrpcInit
    <2>3. main.handler \in 0..MaxHandlers
      BY BoundsAssumption DEF GrpcInit
    <2> QED
      BY <2>1, <2>2, <2>3 DEF GrpcTypes, GrpcInit
  <1>8. MainInv
    BY <1>1, <1>3, <1>5, <1>6, CallNumbers DEF MainInv
  <1>9. RecvInv
    BY <1>6 DEF RecvInv, Handlers
  <1>10. SentInv
    <2>1. \A h \in Handlers : DOMAIN sent[h] = {}
      BY <1>5
    <2> QED
      BY <1>6, <2>1 DEF SentInv, SentInOrder, Handlers
  <1>11. SendInv
    BY <1>6 DEF SendInv
  <1> QED
    BY <1>4, <1>5, <1>7, <1>8, <1>9, <1>10, <1>11 DEF GrpcInv

\* Every step of the gRPC call keeps the invariant.
LEMMA GrpcNextInv == GrpcInv /\ GrpcNext => GrpcInv'
  <1> SUFFICES ASSUME GrpcInv, GrpcNext PROVE GrpcInv'
    OBVIOUS
  <1>1. ASSUME NEW h \in Handlers, NEW k \in Calls, Call(h, k)
        PROVE  GrpcInv'
    BY <1>1, WaitedStep, InvokeStep, ProcessingStep, ResultStep, PanicSteps,
       CloseIfLastStep, AssignStep DEF Call
  <1>2. ASSUME NEW h \in Handlers, NEW k \in Calls,
               Notified(h, k) \/ StreamClosed(h, k)
        PROVE  GrpcInv'
    BY <1>2, WaitedStep, PanicSteps
  <1>3. CASE Gone
    BY <1>3, GrpcStutter DEF Gone
  <1>4. CASE Steps
    BY <1>1, <1>4, MatchGrpcStep, LoopReceivesStep, LoopSendsStep, LoopClosedStep,
       RecvSteps, ResultClosedStep, ReadResultStep, SendMsgStep DEF Steps
  <1> QED
    BY <1>2, <1>3, <1>4 DEF GrpcNext

\* Every step of a plain HTTP request answers an early error at once.
LEMMA HttpNextInv == HttpInv /\ HttpNext => HttpInv'
  <1> SUFFICES ASSUME HttpInv, HttpNext PROVE HttpInv'
    OBVIOUS
  <1>1. http.pc # "done" => http.early # TRUE
    BY DEF HttpInv
  <1>2. CASE ServeGrpc
    BY <1>2 DEF ServeGrpc, HttpInv
  <1>3. CASE MatchHttp
    BY <1>3 DEF MatchHttp, HttpInv, Return, WriteHeader
  <1>4. CASE CallEnds
    BY <1>4 DEF CallEnds, HttpInv, WriteHeader
  <1>5. CASE HandlersDone
    BY <1>5 DEF HandlersDone, HttpInv, Return, WriteHeader
  <1>6. ASSUME NEW err \in EarlyErrors \cup LateErrors, CallFails(err)
        PROVE  HttpInv'
    BY <1>6 DEF CallFails, HttpInv, Return, WriteHeader
  <1>7. ASSUME NEW err \in Panics, CallPanics(err)
        PROVE  HttpInv'
    BY <1>7 DEF CallPanics, HttpInv
  <1> QED
    BY <1>2, <1>3, <1>4, <1>5, <1>6, <1>7 DEF HttpNext

\* The invariant of the specification.
LEMMA HttpCallInv == Spec => [](GrpcInv /\ HttpInv)
  <1>1. Init => GrpcInv /\ HttpInv
    BY GrpcInitInv DEF Init, HttpInv
  <1>2. GrpcInv /\ HttpInv /\ [Next]_vars => GrpcInv' /\ HttpInv'
    <2> SUFFICES ASSUME GrpcInv, HttpInv, [Next]_vars
                 PROVE  GrpcInv' /\ HttpInv'
      OBVIOUS
    <2>1. CASE HttpNext
      <3>1. UNCHANGED <<main, recv, send, lambda, sent>>
        BY <2>1 DEF HttpNext, ServeGrpc, MatchHttp, CallEnds, HandlersDone,
                    CallFails, CallPanics, grpcVars
      <3> QED
        BY <2>1, <3>1, HttpNextInv, GrpcStutter
    <2>2. CASE GrpcNext /\ UNCHANGED http
      BY <2>2, GrpcNextInv DEF HttpInv
    <2>3. CASE UNCHANGED vars
      BY <2>3, GrpcStutter DEF vars, grpcVars, HttpInv
    <2> QED
      BY <2>1, <2>2, <2>3 DEF Next
  <1> QED
    BY <1>1, <1>2, PTL DEF Spec

-----------------------------------------------------------------------------
(* Types *)

\* The Calls that have invoked their function.
Answering(l) ==
    {k \in Calls : l.calls[k].pc \notin {"none", "wait", "invoke"}}

\* Each Call invokes once, so that the Calls bound the Invokes and the results.
Counted(l) == l.invokes = Cardinality(Answering(l))

\* What the type invariant adds to GrpcInv.
HttpTypes ==
    /\ main.status \in {"none", "OK", "status", "error", "Unimplemented"}
    /\ send.payload \in 0..MaxInvokes
    /\ send.pc = "offer" => send.err # "EOF"
    /\ \A h \in Handlers : Counted(lambda[h])
    /\ client \in [messages : 0..MaxMessages, gone : BOOLEAN]
    /\ quirks \in SUBSET {"empty", "notimeout", "streamfail"}
    /\ http \in [pc : {"serve", "grpc", "handler", "done"},
                 handler : 0..MaxHandlers + 1,
                 last : 0..MaxHandlers,
                 status : {"none", "404", "502", "aborted", "lambda", "200"},
                 errors : SUBSET (EarlyErrors \cup Panics \cup LateErrors),
                 early : BOOLEAN]
    /\ http.handler >= 1

\* There are as many Invokes as Calls, at most.
LEMMA CallsBoundInvokes ==
    ASSUME NEW l, Counted(l)
    PROVE  IsFiniteSet(Answering(l)) /\ l.invokes \in 0..MaxInvokes
  <1>1. IsFiniteSet(Calls) /\ Cardinality(Calls) = MaxInvokes
    BY FS_Interval, BoundsAssumption DEF Calls
  <1>2. Answering(l) \in SUBSET Calls
    BY DEF Answering
  <1>3. /\ IsFiniteSet(Answering(l)) /\ Cardinality(Answering(l)) \in Nat
        /\ Cardinality(Answering(l)) <= Cardinality(Calls)
    BY <1>1, <1>2, FS_Subset, FS_CardinalityType
  <1> QED
    BY <1>1, <1>3, BoundsAssumption DEF Counted

\* A Call moves, and is counted if it invokes.
LEMMA CountedGoes ==
    ASSUME NEW l, NEW m, Counted(l), NEW k \in Calls,
           \A j \in Calls : j # k => m.calls[j].pc = l.calls[j].pc,
           \/ /\ l.calls[k].pc \in {"none", "wait"} /\ m.invokes = l.invokes
              /\ m.calls[k].pc \in {"none", "wait", "invoke"}
           \/ /\ l.calls[k].pc = "invoke" /\ m.invokes = l.invokes + 1
              /\ m.calls[k].pc \in {"processing", "deliver"}
           \/ /\ l.calls[k].pc \notin {"none", "wait", "invoke"}
              /\ m.calls[k].pc \notin {"none", "wait", "invoke"}
              /\ m.invokes = l.invokes
    PROVE  Counted(m)
  <1>1. CASE l.calls[k].pc = "invoke" /\ m.invokes = l.invokes + 1
             /\ m.calls[k].pc \in {"processing", "deliver"}
    <2>1. Answering(m) = Answering(l) \cup {k} /\ k \notin Answering(l)
      BY <1>1 DEF Answering
    <2>2. IsFiniteSet(Answering(l))
      BY CallsBoundInvokes
    <2>3. Cardinality(Answering(l) \cup {k}) = Cardinality(Answering(l)) + 1
      BY <2>1, <2>2, FS_AddElement
    <2> QED
      BY <1>1, <2>1, <2>3 DEF Counted
  <1>2. CASE m.invokes = l.invokes /\ Answering(m) = Answering(l)
    BY <1>2 DEF Counted
  <1> QED
    BY <1>1, <1>2 DEF Answering

\* Result may start a Call, which has not invoked.
LEMMA CountedReceives ==
    ASSUME NEW l \in HandlerTypes, Counted(l)
    PROVE  Counted(Received(l))
  <1> DEFINE m == Received(l)
  <1>1. Counts(l, m) /\ (m.calls = l.calls \/ \E n \in Calls : Starts(l, m, n))
    BY ReceivedShape DEF Receives
  <1>2. m.invokes = l.invokes
    BY <1>1 DEF Counts
  <1> HIDE DEF m
  <1>3. ASSUME m.calls = l.calls PROVE Counted(m)
    <2>1. Answering(m) = Answering(l)
      BY <1>3 DEF Answering
    <2> QED
      BY <1>2, <2>1 DEF Counted
  <1>4. ASSUME NEW n \in Calls, Starts(l, m, n) PROVE Counted(m)
    BY <1>2, <1>4, CountedGoes DEF Starts
  <1> QED
    BY <1>1, <1>3, <1>4 DEF m

\* A step of one handler keeps the others.
LEMMA OneCounted ==
    ASSUME GrpcTypes, \A g \in Handlers : Counted(lambda[g]), NEW h \in Handlers,
           NEW m, lambda' = [lambda EXCEPT ![h] = m], Counted(m)
    PROVE  \A g \in Handlers : Counted(lambda'[g])
  <1>1. \A g \in Handlers : lambda'[g] = IF g = h THEN m ELSE lambda[g]
    BY DEF GrpcTypes
  <1> QED
    BY <1>1 DEF Counted, Answering

\* A Call with status 102 delivers.
LEMMA ProcessingMoves ==
    ASSUME GrpcTypes, NEW h \in Handlers, NEW k \in Calls, Processing(h, k)
    PROVE  /\ lambda' = [lambda EXCEPT ![h] = lambda'[h]]
           /\ lambda'[h].invokes = lambda[h].invokes
           /\ lambda[h].calls[k].pc = "processing"
           /\ lambda'[h].calls[k].pc = "deliver"
           /\ \A j \in Calls :
                  j # k => lambda'[h].calls[j].pc = lambda[h].calls[j].pc
  <1> DEFINE l == lambda[h]
             m == lambda'[h]
  <1>1. l \in HandlerTypes /\ lambda \in [Handlers -> HandlerTypes]
    BY DEF GrpcTypes
  <1>2. PICK timeout \in {"set", "none", "bad"},
             left \in IF l.timer \in {1, 2} THEN {0, 1} ELSE {0} :
            lambda' = [lambda EXCEPT ![h] = [l EXCEPT
                !.isLastResult = FALSE,
                !.calls[k] = [pc |-> "deliver",
                              err |-> IF timeout = "bad" THEN "status"
                                      ELSE IF l.counted THEN "nil"
                                      ELSE "EOF"],
                !.timer = IF timeout = "set" THEN 1 + left ELSE @]]
    BY DEF Processing
  <1> DEFINE err == IF timeout = "bad" THEN "status"
                    ELSE IF l.counted THEN "nil" ELSE "EOF"
  <1>3. /\ lambda' = [lambda EXCEPT ![h] = m] /\ m.invokes = l.invokes
        /\ m.calls = [l.calls EXCEPT ![k] = [pc |-> "deliver", err |-> err]]
    BY <1>1, <1>2 DEF HandlerTypes
  <1>4. l.calls[k].pc = "processing"
    BY DEF Processing
  <1> HIDE DEF err
  <1>5. l.calls \in [Calls -> CallTypes]
    BY <1>1, HandlerParts
  <1>6. /\ m.calls[k].pc = "deliver"
        /\ \A j \in Calls : j # k => m.calls[j].pc = l.calls[j].pc
    BY <1>3, <1>5 DEF CallTypes
  <1> QED
    BY <1>3, <1>4, <1>6

\* A Call that goes on is counted when it invokes.
LEMMA CallCounted ==
    ASSUME GrpcInv, \A g \in Handlers : Counted(lambda[g]),
           NEW h \in Handlers, NEW k \in Calls,
           Call(h, k) \/ Notified(h, k) \/ StreamClosed(h, k)
    PROVE  \A g \in Handlers : Counted(lambda'[g])
  <1> DEFINE l == lambda[h]
             m == lambda'[h]
  <1>1. /\ GrpcTypes /\ lambda \in [Handlers -> HandlerTypes]
        /\ l \in HandlerTypes /\ Counted(l) /\ l.calls \in [Calls -> CallTypes]
    BY HandlerParts DEF GrpcInv, GrpcTypes
  <1>2. ASSUME lambda' = [lambda EXCEPT ![h] = m],
               \A j \in Calls : j # k => m.calls[j].pc = l.calls[j].pc,
               \/ /\ l.calls[k].pc = "wait" /\ m.calls[k].pc = "invoke"
                  /\ m.invokes = l.invokes
               \/ /\ l.calls[k].pc = "invoke"
                  /\ m.calls[k].pc \in {"processing", "deliver"}
                  /\ m.invokes = l.invokes + 1
               \/ /\ l.calls[k].pc \in {"processing", "deliver", "tail", "assign"}
                  /\ m.calls[k].pc \in {"deliver", "tail", "assign", "done"}
                  /\ m.invokes = l.invokes
        PROVE  \A g \in Handlers : Counted(lambda'[g])
    <2> HIDE DEF l, m
    <2>1. Counted(m)
      BY <1>1, <1>2, CountedGoes
    <2> QED
      BY <1>1, <1>2, <2>1, OneCounted DEF l
  <1>3. CASE Waited(h, k) \/ Notified(h, k)
    <2>1. /\ lambda' = [lambda EXCEPT ![h] = m] /\ m.invokes = l.invokes
          /\ m.calls = [l.calls EXCEPT ![k].pc = "invoke"]
      <3>1. CASE Waited(h, k)
        BY <1>1, <3>1 DEF Waited, HandlerTypes
      <3>2. CASE Notified(h, k)
        BY <1>1, <3>2 DEF Notified, HandlerTypes
      <3> QED
        BY <1>3, <3>1, <3>2
    <2>2. l.calls[k].pc = "wait"
      BY <1>3 DEF Waited, Notified
    <2>3. /\ m.calls[k].pc = "invoke"
          /\ \A j \in Calls : j # k => m.calls[j].pc = l.calls[j].pc
      BY <1>1, <2>1 DEF CallTypes
    <2> QED
      BY <1>2, <2>1, <2>2, <2>3
  <1>4. CASE Invoke(h, k)
    <2> DEFINE i == [l EXCEPT !.invokes = @ + 1]
    <2>1. /\ i \in [calls : [Calls -> CallTypes], invokes : Nat, result : Nat,
                    counted : BOOLEAN, isLastResult : BOOLEAN,
                    timer : {None} \cup 0..2,
                    streamError : {"nil", "EOF", "status", "error"},
                    closed : BOOLEAN]
          /\ i.calls = l.calls /\ i.invokes = l.invokes + 1
          /\ l.calls[k].pc = "invoke"
      BY <1>1, <1>4 DEF Invoke, HandlerTypes
    <2>2. CASE lambda' = [lambda EXCEPT ![h] = Failed(i, k)]
      <3>1. /\ m.invokes = i.invokes /\ lambda' = [lambda EXCEPT ![h] = m]
            /\ m.calls = [i.calls EXCEPT ![k] = [pc |-> "deliver", err |-> "error"]]
        BY <1>1, <2>1, <2>2 DEF Failed
      <3>2. i.calls \in [Calls -> CallTypes] /\ i.calls = l.calls
        BY <2>1
      <3> HIDE DEF i, m, l
      <3>3. /\ m.calls[k].pc = "deliver"
            /\ \A j \in Calls : j # k => m.calls[j].pc = l.calls[j].pc
        BY <3>1, <3>2 DEF CallTypes
      <3> QED
        BY <1>2, <2>1, <3>1, <3>3
    <2>3. ASSUME NEW err \in {"EOF", "status"},
                 lambda' = [lambda EXCEPT ![h] = Answered(i, k, i.invokes, err)]
          PROVE  \A g \in Handlers : Counted(lambda'[g])
      <3>1. /\ m.invokes = i.invokes /\ lambda' = [lambda EXCEPT ![h] = m]
            /\ m.calls = [i.calls EXCEPT ![k] = [pc |-> "deliver", err |-> err]]
        BY <1>1, <2>1, <2>3 DEF Answered
      <3>2. i.calls \in [Calls -> CallTypes] /\ i.calls = l.calls
        BY <2>1
      <3> HIDE DEF i, m, l
      <3>3. /\ m.calls[k].pc = "deliver"
            /\ \A j \in Calls : j # k => m.calls[j].pc = l.calls[j].pc
        BY <3>1, <3>2 DEF CallTypes
      <3> QED
        BY <1>2, <2>1, <3>1, <3>3
    <2>4. CASE lambda' = [lambda EXCEPT ![h] =
                   [Answered(i, k, i.invokes, "EOF") EXCEPT !.calls[k].pc = "processing"]]
      <3> DEFINE c == [i.calls EXCEPT ![k] = [pc |-> "deliver", err |-> "EOF"]]
      <3>1. /\ m.invokes = i.invokes /\ lambda' = [lambda EXCEPT ![h] = m]
            /\ m.calls = [c EXCEPT ![k].pc = "processing"]
        BY <1>1, <2>1, <2>4 DEF Answered
      <3>2. c \in [Calls -> CallTypes]
        BY <2>1 DEF CallTypes
      <3>3. \A j \in Calls : j # k => c[j].pc = l.calls[j].pc
        BY <2>1
      <3> HIDE DEF i, m, l, c
      <3>4. /\ m.calls[k].pc = "processing"
            /\ \A j \in Calls : j # k => m.calls[j].pc = l.calls[j].pc
        BY <3>1, <3>2, <3>3 DEF CallTypes
      <3> QED
        BY <1>2, <2>1, <3>1, <3>4
    <2> QED
      BY <1>4, <2>2, <2>3, <2>4 DEF Invoke
  <1>5. CASE Processing(h, k)
    <2>1. /\ lambda' = [lambda EXCEPT ![h] = m] /\ m.invokes = l.invokes
          /\ l.calls[k].pc = "processing" /\ m.calls[k].pc = "deliver"
          /\ \A j \in Calls : j # k => m.calls[j].pc = l.calls[j].pc
      BY <1>1, <1>5, ProcessingMoves
    <2> QED
      BY <1>2, <2>1
  <1>6. CASE Result(h, k)
    <2> DEFINE r == Received(l)
    <2>1. /\ lambda' = [lambda EXCEPT ![h] = Taken(r, k)]
          /\ l.calls[k].pc = "deliver"
      BY <1>6 DEF Result, Taken
    <2>2. Receives(l, r) /\ Counted(r)
      BY <1>1, ReceivedShape, CountedReceives
    <2> HIDE DEF r
    <2>3. r \in HandlerTypes /\ r.calls[k].pc = "deliver"
      BY <1>1, <2>1, <2>2 DEF Receives, Counts, Starts
    <2> DEFINE t == Taken(r, k)
    <2>4. /\ t.invokes = r.invokes /\ t.calls[k].pc = "tail"
          /\ \A j \in Calls : j # k => t.calls[j].pc = r.calls[j].pc
      <3>1. t.invokes = r.invokes /\ t.calls = [r.calls EXCEPT ![k].pc = "tail"]
        BY <2>3 DEF Taken, HandlerTypes
      <3> QED
        BY <2>3, <3>1, HandlerParts DEF CallTypes
    <2>5. lambda' = [lambda EXCEPT ![h] = t]
      BY <2>1
    <2> HIDE DEF t, l
    <2>6. Counted(t)
      BY <2>2, <2>3, <2>4, CountedGoes
    <2> QED
      BY <1>1, <2>5, <2>6, OneCounted
  <1>7. CASE CloseIfLast(h, k)
    <2>1. CASE UNCHANGED lambda
      BY <2>1 DEF Counted, Answering
    <2>2. CASE lambda' # lambda
      <3>1. /\ lambda' = [lambda EXCEPT ![h] = m] /\ m.invokes = l.invokes
            /\ m.calls = [l.calls EXCEPT ![k].pc = IF k = 1 THEN "done" ELSE "assign"]
            /\ l.calls[k].pc = "tail"
        BY <1>1, <1>7, <2>2 DEF CloseIfLast, HandlerTypes
      <3>2. /\ m.calls[k].pc \in {"done", "assign"}
            /\ \A j \in Calls : j # k => m.calls[j].pc = l.calls[j].pc
        BY <1>1, <3>1 DEF CallTypes
      <3> QED
        BY <1>2, <3>1, <3>2
    <2> QED
      BY <2>1, <2>2
  <1>8. CASE Assign(h, k)
    <2>1. /\ lambda' = [lambda EXCEPT ![h] = m] /\ m.invokes = l.invokes
          /\ m.calls = [l.calls EXCEPT ![k].pc = "done"]
          /\ l.calls[k].pc = "assign"
      BY <1>1, <1>8 DEF Assign, HandlerTypes
    <2>2. /\ m.calls[k].pc = "done"
          /\ \A j \in Calls : j # k => m.calls[j].pc = l.calls[j].pc
      BY <1>1, <2>1 DEF CallTypes
    <2> QED
      BY <1>2, <2>1, <2>2
  <1>9. CASE DeliverClosed(h, k) \/ StreamClosed(h, k)
    BY <1>9 DEF DeliverClosed, StreamClosed, Counted, Answering
  <1> QED
    BY <1>3, <1>4, <1>5, <1>6, <1>7, <1>8, <1>9 DEF Call

\* Every step of the gRPC call counts the Invokes.
LEMMA StepsCounted ==
    ASSUME GrpcInv, \A g \in Handlers : Counted(lambda[g]), GrpcNext
    PROVE  \A g \in Handlers : Counted(lambda'[g])
  <1>1. GrpcTypes /\ MainInv /\ RecvInv
    BY DEF GrpcInv
  <1>2. CASE UNCHANGED lambda
    BY <1>2 DEF Counted, Answering
  <1>3. CASE RecvMsg /\ lambda' # lambda
    <2> DEFINE l == lambda[cur]
               m == lambda'[cur]
    <2>1. /\ lambda' = [lambda EXCEPT ![cur].calls[1].pc = "wait"]
          /\ recv.pc = "recv"
      BY <1>3 DEF RecvMsg
    <2>2. cur \in Handlers
      BY <1>1, <2>1, CurrentHandler DEF MainInv
    <2>3. /\ l \in HandlerTypes /\ l.calls \in [Calls -> CallTypes]
          /\ l.calls[1].pc = "none" /\ lambda \in [Handlers -> HandlerTypes]
      BY <1>1, <2>1, <2>2, HandlerParts DEF GrpcTypes, RecvInv, L
    <2>4. /\ lambda' = [lambda EXCEPT ![cur] = m] /\ m.invokes = l.invokes
          /\ m.calls = [l.calls EXCEPT ![1].pc = "wait"]
      BY <2>1, <2>2, <2>3 DEF HandlerTypes
    <2>5. /\ m.calls[1].pc = "wait"
          /\ \A j \in Calls : j # 1 => m.calls[j].pc = l.calls[j].pc
      BY <2>3, <2>4, CallNumbers DEF CallTypes
    <2>6. Counted(l)
      BY <2>2
    <2> HIDE DEF l, m
    <2>7. Counted(m)
      BY <2>3, <2>4, <2>5, <2>6, CountedGoes, CallNumbers
    <2> QED
      BY <1>1, <2>2, <2>4, <2>7, OneCounted
  <1>4. CASE ResultClosed
    <2>1. /\ lambda' = [lambda EXCEPT ![cur] = Received(@)]
          /\ send.pc = "result"
      BY <1>4 DEF ResultClosed
    <2>2. cur \in Handlers
      BY <1>1, <2>1, CurrentHandler DEF MainInv
    <2>3. lambda' = [lambda EXCEPT ![cur] = Received(lambda[cur])]
      BY <2>1
    <2>4. Counted(Received(lambda[cur]))
      BY <1>1, <2>2, CountedReceives DEF GrpcTypes
    <2> QED
      BY <1>1, <2>2, <2>3, <2>4, OneCounted
  <1>5. ASSUME NEW h \in Handlers, NEW k \in Calls,
               Call(h, k) \/ Notified(h, k) \/ StreamClosed(h, k)
        PROVE  \A g \in Handlers : Counted(lambda'[g])
    BY <1>5, CallCounted
  <1>6. CASE Gone
    BY <1>2, <1>6 DEF Gone
  <1>7. CASE Steps
    BY <1>2, <1>3, <1>4, <1>5, <1>7
       DEF Steps, MatchGrpc, LoopReceives, LoopSends, LoopClosed, CallReturned,
           RecvMsg, RecvFails, ReadResult, SendMsg
  <1> QED
    BY <1>5, <1>6, <1>7 DEF GrpcNext

\* With the Invokes the results are bounded, and what is sent.
LEMMA TypesSuffice == GrpcInv /\ HttpTypes => TypeOK
  <1> SUFFICES ASSUME GrpcInv, HttpTypes PROVE TypeOK
    OBVIOUS
  <1>1. GrpcTypes /\ SentInv /\ \A h \in Handlers : HandlerInv(lambda[h])
    BY DEF GrpcInv
  <1>2. \A h \in Handlers : /\ lambda[h] \in HandlerTypes
                            /\ lambda[h].invokes \in 0..MaxInvokes
                            /\ lambda[h].result \in 0..MaxInvokes
    <2> SUFFICES ASSUME NEW h \in Handlers
                 PROVE  /\ lambda[h] \in HandlerTypes
                        /\ lambda[h].invokes \in 0..MaxInvokes
                        /\ lambda[h].result \in 0..MaxInvokes
      OBVIOUS
    <2>1. /\ lambda[h] \in HandlerTypes /\ lambda[h].result \in Nat
          /\ lambda[h].result <= lambda[h].invokes
      BY <1>1, HandlerParts DEF HandlerInv
    <2>2. lambda[h].invokes \in 0..MaxInvokes
      BY CallsBoundInvokes DEF HttpTypes
    <2> QED
      BY <2>1, <2>2, BoundsAssumption
  <1>3. lambda \in [Handlers -> LambdaTypes]
    <2>1. \A h \in Handlers : lambda[h] \in LambdaTypes
      BY <1>2 DEF HandlerTypes, LambdaTypes
    <2> QED
      BY <1>1, <2>1 DEF GrpcTypes
  <1>4. ASSUME NEW h \in Handlers PROVE sent[h] \in Seq(0..MaxInvokes)
    <2>1. sent[h] \in Seq(Nat)
      BY <1>1 DEF GrpcTypes
    <2>2. \A i \in DOMAIN sent[h] : sent[h][i] \in Nat /\ sent[h][i] <= lambda[h].result
      BY <1>1, <2>1 DEF SentInv
    <2>3. \A i \in DOMAIN sent[h] : sent[h][i] \in 0..MaxInvokes
      BY <1>2, <2>2, BoundsAssumption
    <2>4. Len(sent[h]) \in Nat /\ sent[h] \in [1..Len(sent[h]) -> 0..MaxInvokes]
      BY <2>1, <2>3
    <2> QED
      BY <2>4, SeqDef
  <1>5. /\ main \in [pc : {"none", "loop", "returned", "panicked"},
                     handler : 0..MaxHandlers,
                     status : {"none", "OK", "status", "error", "Unimplemented"}]
        /\ send \in [pc : {"none", "result", "read", "send", "offer", "closed",
                           "done"},
                     err : {"nil", "EOF", "status", "error"},
                     payload : 0..MaxInvokes, first : BOOLEAN]
    BY <1>1 DEF GrpcTypes, HttpTypes
  <1> QED
    BY <1>1, <1>3, <1>4, <1>5 DEF TypeOK, GrpcTypeOK, GrpcTypes, HttpTypes

LEMMA HttpTypesInit == Init => HttpTypes
  <1> SUFFICES ASSUME Init PROVE HttpTypes
    OBVIOUS
  <1>1. \A h \in Handlers : Counted(lambda[h])
    <2> SUFFICES ASSUME NEW h \in Handlers PROVE Counted(lambda[h])
      OBVIOUS
    <2>1. lambda[h].invokes = 0 /\ \A k \in Calls : lambda[h].calls[k].pc = "none"
      BY DEF Init, GrpcInit, NewHandler
    <2>2. Answering(lambda[h]) = {}
      BY <2>1 DEF Answering
    <2> QED
      BY <2>1, <2>2, FS_EmptySet DEF Counted
  <1> QED
    BY <1>1, BoundsAssumption DEF Init, GrpcInit, HttpTypes

\* The steps of the gRPC call.
LEMMA GrpcKeepsTypes ==
    ASSUME GrpcInv, HttpTypes, GrpcNext, UNCHANGED http
    PROVE  HttpTypes'
  <1>1. GrpcTypes /\ MainInv
    BY DEF GrpcInv
  <1>2. \A h \in Handlers : Counted(lambda'[h])
    BY StepsCounted DEF HttpTypes
  <1>3. \A h \in Handlers : lambda[h].result \in 0..MaxInvokes
    BY TypesSuffice DEF TypeOK, GrpcTypeOK, LambdaTypes
  <1>4. main'.status \in {"none", "OK", "status", "error", "Unimplemented"}
    <2>1. main.status \in {"none", "OK", "status", "error", "Unimplemented"}
      BY DEF HttpTypes
    <2>2. CASE LoopReceives
      BY <1>1, <2>1, <2>2 DEF LoopReceives, Event, GrpcTypes
    <2>3. CASE LoopSends
      BY <1>1, <2>1, <2>3 DEF LoopSends, Event, GrpcTypes, HttpTypes
    <2>4. CASE MatchGrpc
      BY <1>1, <2>1, <2>4 DEF MatchGrpc, NextHandler, GrpcTypes
    <2>5. CASE LoopClosed
      BY <1>1, <2>1, <2>5 DEF LoopClosed, NextHandler, GrpcTypes
    <2>6. ASSUME NEW h \in Handlers, NEW k \in Calls,
                 Call(h, k) \/ Notified(h, k) \/ StreamClosed(h, k)
          PROVE  main'.status = main.status
      BY <1>1, <2>6 DEF Call, Waited, Invoke, Processing, Result, DeliverClosed,
         CloseIfLast, Assign, Notified, StreamClosed, GrpcTypes
    <2> QED
      BY <2>1, <2>2, <2>3, <2>4, <2>5, <2>6
         DEF GrpcNext, Steps, CallReturned, RecvMsg, RecvFails, ResultClosed,
             ReadResult, SendMsg, Gone
  <1>5. send'.payload \in 0..MaxInvokes /\ (send'.pc = "offer" => send'.err # "EOF")
    <2>1. /\ send.payload \in 0..MaxInvokes
          /\ send.pc = "offer" => send.err # "EOF"
      BY DEF HttpTypes
    <2>2. CASE UNCHANGED send
      BY <2>1, <2>2
    <2>3. CASE LoopSends \/ LoopClosed \/ MatchGrpc
      BY <1>1, <2>1, <2>3, BoundsAssumption
         DEF LoopSends, LoopClosed, MatchGrpc, NextHandler, GrpcTypes
    <2>4. CASE SendMsg
      BY <1>1, <2>1, <2>4 DEF SendMsg, GrpcTypes
    <2>5. ASSUME send.pc \in {"result", "read"} PROVE L.result \in 0..MaxInvokes
      BY <1>1, <1>3, <2>5, CurrentHandler DEF MainInv, L
    <2>6. CASE ReadResult
      BY <1>1, <2>1, <2>5, <2>6 DEF ReadResult, GrpcTypes
    <2>7. CASE send.pc = "result" /\ send' = AfterResult(L)
      BY <1>1, <2>1, <2>5, <2>7 DEF AfterResult, GrpcTypes
    <2>8. ASSUME NEW h \in Handlers, NEW k \in Calls,
                 Call(h, k) \/ Notified(h, k) \/ StreamClosed(h, k)
          PROVE  UNCHANGED send \/ (send.pc = "result" /\ send' = AfterResult(L))
      BY <2>8 DEF Call, Waited, Invoke, Processing, Result, DeliverClosed,
         CloseIfLast, Assign, Notified, StreamClosed
    <2> QED
      BY <2>2, <2>3, <2>4, <2>6, <2>7, <2>8
         DEF GrpcNext, Steps, LoopReceives, CallReturned, RecvMsg, RecvFails,
             ResultClosed, Gone
  <1>6. client' \in [messages : 0..MaxMessages, gone : BOOLEAN]
    <2>1. client \in [messages : 0..MaxMessages, gone : BOOLEAN]
      BY DEF HttpTypes
    <2>2. CASE UNCHANGED client
      BY <2>1, <2>2
    <2>3. CASE RecvMsg
      BY <2>1, <2>3, BoundsAssumption DEF RecvMsg
    <2>4. CASE Gone
      BY <2>1, <2>4 DEF Gone
    <2>5. ASSUME NEW h \in Handlers, NEW k \in Calls,
                 Call(h, k) \/ Notified(h, k) \/ StreamClosed(h, k)
          PROVE  UNCHANGED client
      BY <2>5 DEF Call, Waited, Invoke, Processing, Result, DeliverClosed,
         CloseIfLast, Assign, Notified, StreamClosed
    <2> QED
      BY <2>2, <2>3, <2>4, <2>5
         DEF GrpcNext, Steps, MatchGrpc, LoopReceives, LoopSends, LoopClosed,
             CallReturned, RecvFails, ResultClosed, ReadResult, SendMsg
  <1>7. quirks' \in SUBSET {"empty", "notimeout", "streamfail"}
    <2>1. quirks \in SUBSET {"empty", "notimeout", "streamfail"}
      BY DEF HttpTypes
    <2>2. CASE UNCHANGED quirks
      BY <2>1, <2>2
    <2>3. CASE RecvMsg
      BY <2>1, <2>3 DEF RecvMsg
    <2>4. ASSUME NEW h \in Handlers, NEW k \in Calls, Invoke(h, k)
          PROVE  quirks' \in SUBSET {"empty", "notimeout", "streamfail"}
      BY <2>1, <2>4 DEF Invoke, FailureOf
    <2>5. ASSUME NEW h \in Handlers, NEW k \in Calls, Processing(h, k)
          PROVE  quirks' \in SUBSET {"empty", "notimeout", "streamfail"}
      <3>1. PICK timeout \in {"set", "none", "bad"} :
                quirks' = quirks \cup CASE timeout = "none" -> {"notimeout"}
                                        [] timeout = "bad" -> FailureOf(k)
                                        [] OTHER -> {}
        BY <2>5 DEF Processing
      <3>2. FailureOf(k) \subseteq {"streamfail"}
        BY DEF FailureOf
      <3> QED
        BY <2>1, <3>1, <3>2
    <2>6. ASSUME NEW h \in Handlers, NEW k \in Calls,
                 Call(h, k) \/ Notified(h, k) \/ StreamClosed(h, k)
          PROVE  UNCHANGED quirks \/ Invoke(h, k) \/ Processing(h, k)
      BY <2>6 DEF Call, Waited, Result, DeliverClosed, CloseIfLast, Assign,
         Notified, StreamClosed
    <2> QED
      BY <2>2, <2>3, <2>4, <2>5, <2>6
         DEF GrpcNext, Steps, MatchGrpc, LoopReceives, LoopSends, LoopClosed,
             CallReturned, RecvFails, ResultClosed, ReadResult, SendMsg, Gone
  <1> QED
    BY <1>2, <1>4, <1>5, <1>6, <1>7 DEF HttpTypes

\* The steps of a plain HTTP request.
LEMMA HttpKeepsTypes ==
    ASSUME HttpTypes, HttpNext
    PROVE  HttpTypes'
  <1>1. UNCHANGED grpcVars
    BY DEF HttpNext, ServeGrpc, MatchHttp, CallEnds, HandlersDone, CallFails,
           CallPanics
  <1> DEFINE HT == [pc : {"serve", "grpc", "handler", "done"},
                    handler : 0..MaxHandlers + 1, last : 0..MaxHandlers,
                    status : {"none", "404", "502", "aborted", "lambda", "200"},
                    errors : SUBSET (EarlyErrors \cup Panics \cup LateErrors),
                    early : BOOLEAN]
  <1>2. http \in HT /\ http.handler >= 1
    BY DEF HttpTypes
  <1>3. http' \in HT /\ http'.handler >= 1
    <2>1. ASSUME NEW h \in HT, NEW code \in {"404", "502", "lambda", "200"}
          PROVE  /\ WriteHeader(h, code) \in HT
                 /\ WriteHeader(h, code).handler = h.handler
                 /\ WriteHeader(h, code).last = h.last
      BY DEF WriteHeader
    <2>2. ASSUME NEW h \in HT
          PROVE  Return(h) \in HT /\ Return(h).handler = h.handler
      BY <2>1 DEF Return
    <2>3. CASE ServeGrpc
      BY <1>2, <2>3 DEF ServeGrpc
    <2>4. CASE MatchHttp
      <3>1. CASE http' = Return(WriteHeader(http, "404"))
        BY <1>2, <2>1, <2>2, <3>1
      <3>2. CASE http' # Return(WriteHeader(http, "404"))
        BY <1>2, <2>4, <3>2 DEF MatchHttp
      <3> QED
        BY <3>1, <3>2
    <2>5. CASE CallEnds
      <3>1. /\ WriteHeader(http, "lambda") \in HT
            /\ WriteHeader(http, "lambda").handler = http.handler
        BY <1>2, <2>1
      <3>2. /\ http.handler <= http.last
            /\ http' = [WriteHeader(http, "lambda") EXCEPT !.handler = @ + 1]
        BY <2>5 DEF CallEnds
      <3>3. http.handler + 1 \in 0..MaxHandlers + 1
        BY <1>2, <3>2, BoundsAssumption
      <3> QED
        BY <1>2, <3>1, <3>2, <3>3
    <2>6. CASE HandlersDone
      BY <1>2, <2>2, <2>6 DEF HandlersDone
    <2>7. ASSUME NEW err \in EarlyErrors \cup LateErrors, CallFails(err)
          PROVE  http' \in HT /\ http'.handler >= 1
      <3> DEFINE h == IF err \in LateErrors THEN WriteHeader(http, "lambda") ELSE http
                 r == Return(WriteHeader(h, "502"))
      <3>1. h \in HT /\ h.handler = http.handler
        BY <1>2, <2>1
      <3>2. http' = [r EXCEPT !.errors = @ \cup {err}, !.early = h.status = "none"]
        BY <2>7 DEF CallFails
      <3> HIDE DEF h
      <3>3. r \in HT /\ r.handler = http.handler
        BY <2>1, <2>2, <3>1
      <3> HIDE DEF r
      <3> QED
        BY <1>2, <3>2, <3>3
    <2>8. ASSUME NEW err \in Panics, CallPanics(err)
          PROVE  http' \in HT /\ http'.handler >= 1
      BY <1>2, <2>8 DEF CallPanics
    <2> QED
      BY <2>3, <2>4, <2>5, <2>6, <2>7, <2>8 DEF HttpNext
  <1> QED
    BY <1>1, <1>3 DEF HttpTypes, grpcVars, Counted, Answering

-----------------------------------------------------------------------------
(* Theorems *)

\* An error that a Lambda handler of a plain HTTP request returns before any
\* header is written reaches the client as 502, for any number of handlers
\* (ServeHTTP, lambdaHttpHandler.Call).
THEOREM HttpEarlyErrorsReachClient == Spec => []EarlyErrorsReachClient
  <1>1. HttpInv => EarlyErrorsReachClient
    BY DEF HttpInv, EarlyErrorsReachClient
  <1> QED
    BY <1>1, HttpCallInv, PTL

\* For any number of handlers and of Invokes, the results that SendFrom sends
\* for a handler are in the order of the Invokes, although Result reads the
\* result after it has started the Call that overwrites it.
THEOREM GrpcSentInOrder == Spec => []SentInOrder
  <1>1. GrpcInv => SentInOrder
    BY DEF GrpcInv, SentInv
  <1> QED
    BY <1>1, HttpCallInv, PTL

\* A gRPC call returns OK only if the first Call of every handler ended without
\* an error: the events that the loop counts cannot hide it.
THEOREM GrpcFirstErrorReported == Spec => []FirstErrorReported
  <1>1. GrpcInv => FirstErrorReported
    <2> SUFFICES ASSUME GrpcInv, main.status = "OK", NEW h \in Handlers
                 PROVE  lambda[h].calls[1].err \notin {"status", "error"}
      BY DEF FirstErrorReported
    <2>1. GrpcTypes /\ MainInv /\ RecvInv
      BY DEF GrpcInv
    <2>2. cur = MaxHandlers /\ (h < cur \/ h = cur) /\ cur # 0
      BY <2>1, BoundsAssumption DEF MainInv, Handlers
    <2>3. FirstReturned(lambda[h])
      BY <2>1, <2>2 DEF MainInv, RecvInv, L
    <2> QED
      BY <2>3 DEF FirstReturned
  <1> QED
    BY <1>1, HttpCallInv, PTL

\* A gRPC call that has returned OK leaves no Call of any handler behind that
\* is still to deliver, and the last thing sent for every handler is the answer
\* of its last Invoke, unless waitCall was closed too early and the process is
\* about to panic (GrpcHandlerFromGateway, Result, Call).
THEOREM GrpcOkIsComplete == Spec => []OkIsComplete
  <1>1. GrpcInv => OkIsComplete
    <2> SUFFICES ASSUME GrpcInv, main.status = "OK", NEW h \in Handlers
                 PROVE  \/ AboutToPanic(lambda[h])
                        \/ /\ \A k \in Calls : lambda[h].calls[k].pc \in
                                   {"none", "tail", "assign", "done"}
                           /\ sent[h] # <<>>
                           /\ sent[h][Len(sent[h])] = lambda[h].invokes
      BY DEF OkIsComplete
    <2>1. GrpcTypes /\ MainInv /\ SentInv /\ SendInv
      BY DEF GrpcInv
    <2>2. cur = MaxHandlers /\ (h < cur \/ h = cur) /\ cur # 0
      BY <2>1, BoundsAssumption DEF MainInv, Handlers
    <2>3. Complete(h)
      BY <2>1, <2>2 DEF MainInv, SentInv, SendInv
    <2>4. \A k \in Calls : ~Pending(lambda[h], k) =>
              lambda[h].calls[k].pc \in {"none", "tail", "assign", "done"}
      <3>1. lambda[h] \in HandlerTypes
        BY <2>1 DEF GrpcTypes
      <3> QED
        BY <3>1, HandlerParts DEF Pending
    <2> QED
      BY <2>3, <2>4 DEF Complete
  <1> QED
    BY <1>1, HttpCallInv, PTL

\* A call without a server-side stream, one for which Result has started no
\* Call, never takes the gateway down with a panic on waitCall or on the stream
\* of the subscriber.
THEOREM GrpcUnaryNeverPanics == Spec => []UnaryNeverPanics
  <1>1. GrpcInv => UnaryNeverPanics
    <2> SUFFICES ASSUME GrpcInv, main.pc = "panicked"
                 PROVE  \E h \in Handlers : lambda[h].calls[2].pc # "none"
      BY DEF UnaryNeverPanics
    <2>1. PICK h \in Handlers, k \in Calls :
              k > 1 /\ lambda[h].calls[k].pc # "none"
      BY DEF GrpcInv, MainInv
    <2>2. 2 \in 1..k
      BY <2>1, CallNumbers
    <2> QED
      BY <2>1, <2>2 DEF GrpcInv, HandlerInv, InTurn
  <1> QED
    BY <1>1, HttpCallInv, PTL

\* The state of a call is well typed: its Invokes, and with them the results it
\* sends, are bounded by the Calls that are started, one by one, and each of
\* which invokes once; and nothing but an error ends the loop of the stream
\* handler early, never io.EOF.
THEOREM HttpTypeCorrect == Spec => []TypeOK
  <1>1. GrpcInv /\ HttpTypes /\ [Next]_vars => HttpTypes'
    <2> SUFFICES ASSUME GrpcInv, HttpTypes, [Next]_vars PROVE HttpTypes'
      OBVIOUS
    <2>1. CASE UNCHANGED vars
      BY <2>1 DEF vars, grpcVars, HttpTypes, Counted, Answering
    <2> QED
      BY <2>1, GrpcKeepsTypes, HttpKeepsTypes DEF Next
  <1>2. Spec => []HttpTypes
    BY <1>1, HttpTypesInit, HttpCallInv, PTL DEF Spec
  <1> QED
    BY <1>2, HttpCallInv, TypesSuffice, PTL
=============================================================================

------------------------------ MODULE HttpCall ------------------------------
(***************************************************************************)
(* HttpServer.ServeHTTP (pkg/server/http_server.go): a request with a gRPC *)
(* content type goes to the gRPC server and its proxy, module GrpcCall,    *)
(* any other one to the Lambda handlers of its policy, one after the other *)
(* (provider/aws/lambda_http_handler.go).                                  *)
(***************************************************************************)
EXTENDS GrpcCall

VARIABLE http   \* the goroutine of the request

vars == <<grpcVars, http>>

\* What a handler's Call may meet.  Before the header is written: an error of
\* the body, of the function or of its answer; an error of Invoke, or an answer
\* without status code, which panic.  After it: a body that is no base64, or
\* that cannot be written.
EarlyErrors == {"body", "function", "json"}
Panics == {"invoke", "nostatus"}
LateErrors == {"base64", "write"}

TypeOK ==
    /\ GrpcTypeOK
    /\ http \in [pc : {"serve", "grpc", "handler", "done"},
                 handler : 0..MaxHandlers + 1,
                 last : 0..MaxHandlers,
                 status : {"none", "404", "502", "aborted", "lambda", "200"},
                 errors : SUBSET (EarlyErrors \cup Panics \cup LateErrors),
                 early : BOOLEAN]

Init ==
    /\ GrpcInit
    /\ http = [pc |-> "serve", handler |-> 1, last |-> 0, status |-> "none",
               errors |-> {}, early |-> FALSE]

\* http.ResponseWriter: the first header counts.  Returning without one is 200.
WriteHeader(h, code) ==
    IF h.status = "none" THEN [h EXCEPT !.status = code] ELSE h
Return(h) == [WriteHeader(h, "200") EXCEPT !.pc = "done"]

\* A request for the gRPC handler.
ServeGrpc ==
    /\ http.pc = "serve"
    /\ http' = [http EXCEPT !.pc = "grpc"]
    /\ UNCHANGED grpcVars

\* MatchHttp, whose only error is ErrNotSupported, and HandleHttp for the
\* handlers of the policy; it may have none that the gateway knows.
MatchHttp ==
    /\ http.pc = "serve"
    /\ \/ http' = Return(WriteHeader(http, "404"))
       \/ \E n \in 0..MaxHandlers :
              http' = [http EXCEPT !.pc = "handler", !.last = n]
    /\ UNCHANGED grpcVars

\* Mutant of CallFails: the loop goes on with the next handler.
CallFails_GoesOn(err) ==
    /\ http.pc = "handler" /\ http.handler <= http.last
    /\ err \in EarlyErrors
    /\ http' = [http EXCEPT !.errors = @ \cup {err}, !.handler = @ + 1,
                            !.early = @ \/ http.status = "none"]
    /\ UNCHANGED grpcVars

\* lambdaHttpHandler.Call returns an error and ServeHTTP answers 502, if no
\* header was written before: by an earlier handler or by this one.
CallFails(err) ==
    /\ http.pc = "handler" /\ http.handler <= http.last
    /\ err = "body" => http.handler = 1   \* later ones read an empty body
    /\ LET h == IF err \in LateErrors THEN WriteHeader(http, "lambda") ELSE http
       IN  http' = [Return(WriteHeader(h, "502")) EXCEPT
                        !.errors = @ \cup {err}, !.early = h.status = "none"]
    /\ UNCHANGED grpcVars

\* A panic, which net/http recovers from: the connection is closed.
CallPanics(err) ==
    /\ http.pc = "handler" /\ http.handler <= http.last
    /\ err = "nostatus" => http.status = "none"
    /\ http' = [http EXCEPT !.pc = "done", !.status = "aborted",
                            !.errors = @ \cup {err}]
    /\ UNCHANGED grpcVars

\* Call writes the answer of the function and returns io.EOF.
CallEnds ==
    /\ http.pc = "handler" /\ http.handler <= http.last
    /\ http' = [WriteHeader(http, "lambda") EXCEPT !.handler = @ + 1]
    /\ UNCHANGED grpcVars

HandlersDone ==
    /\ http.pc = "handler" /\ http.handler > http.last
    /\ http' = Return(http)
    /\ UNCHANGED grpcVars

HttpNext ==
    \/ ServeGrpc \/ MatchHttp \/ CallEnds \/ HandlersDone
    \/ \E err \in EarlyErrors \cup LateErrors : CallFails(err)
    \/ \E err \in Panics : CallPanics(err)

Next ==
    \/ HttpNext
    \/ http.pc = "grpc" /\ GrpcNext /\ UNCHANGED http

Running == http.pc = "grpc" /\ main.pc # "panicked"

\* Go runs every goroutine, timers fire, and Invoke returns.  Nothing is
\* assumed of the client and of notifications.
GrpcStep(A) == Running /\ A /\ UNCHANGED http

Fairness ==
    /\ WF_vars(GrpcStep(MatchGrpc))
    /\ WF_vars(GrpcStep(LoopReceives)) /\ WF_vars(GrpcStep(LoopSends))
    /\ WF_vars(GrpcStep(LoopClosed))
    /\ WF_vars(GrpcStep(RecvFails)) /\ WF_vars(GrpcStep(CallReturned))
    /\ WF_vars(GrpcStep(ResultClosed)) /\ WF_vars(GrpcStep(ReadResult))
    /\ WF_vars(GrpcStep(SendMsg))
    /\ \A h \in Handlers, k \in Calls : WF_vars(GrpcStep(Call(h, k)))

Spec == Init /\ [][Next]_vars /\ Fairness

-----------------------------------------------------------------------------
\* An error before any header was written never ends as a success.
EarlyErrorsReachClient ==
    http.pc = "done" /\ http.early => http.status = "502"
=============================================================================

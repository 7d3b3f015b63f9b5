------------------------------- MODULE Pipeline --------------------------------
(***************************************************************************)
(* The handlers every request passes through (cmd/api/routes.go):          *)
(* recoverPanic, secureHeaders, requestID, logRequest, rateLimit, the      *)
(* router, and per route observeHTTP and, for partners, requirePartner.    *)
(* RateLimiter decides which requests get through; the header setters      *)
(* leave no trace here, and what a handler answers (Ordering, MenuCache)   *)
(* is open.                                                                *)
(***************************************************************************)
EXTENDS RateLimiter, FiniteSets

CONSTANT Procs   \* goroutines that serve requests

ASSUME PipelineAssumption == IsFiniteSet(Procs)

Routes == {"unmatched", "/metrics", "/v1/orders", "/v1/partner/orders"}
PartnerRoutes == {"/v1/partner/orders"}

\* No header has been written.
Unset == 0

VARIABLES
  at,        \* where each request is, "idle" between requests
  route,     \* the route it asks for
  wire,      \* the status sent to the client
  outer,     \* the status in logRequest's statusRecorder
  inner,     \* the status in observeHTTP's statusRecorder
  broken,    \* whether a write of the body has failed
  counted,   \* the status httpRequests has counted it under
  logged,    \* the status logRequest has printed
  inFlight   \* httpInFlight, by route

requestVars == <<at, route, wire, outer, inner, broken, counted, logged, inFlight>>

pipelineVars == <<requestVars, limiter>>

PipelineInit ==
  /\ at = [p \in Procs |-> "idle"]
  /\ route \in [Procs -> {"unmatched"}]
  /\ wire = [p \in Procs |-> Unset]
  /\ outer = wire /\ inner = wire /\ counted = wire /\ logged = wire
  /\ broken = [p \in Procs |-> FALSE]
  /\ inFlight = [r \in Routes |-> 0]
  /\ LimiterInit

Goes(p, place) == at' = [at EXCEPT ![p] = place]

\* The first WriteHeader decides what the client gets.
Sends(p, status) == wire' = [wire EXCEPT ![p] = IF @ = Unset THEN status ELSE @]

\* Mutant: logRequest hands on its own writer, not the recorder.
WriteUnrecorded(p, status) == Sends(p, status) /\ UNCHANGED <<outer, inner>>

\* errorResponse or writeJSON behind logRequest alone, and behind observeHTTP:
\* a recorder keeps the status of the last WriteHeader.
WriteOuter(p, status) ==
  Sends(p, status) /\ outer' = [outer EXCEPT ![p] = status] /\ UNCHANGED inner

WriteInner(p, status) ==
  /\ Sends(p, status)
  /\ outer' = [outer EXCEPT ![p] = status]
  /\ inner' = [inner EXCEPT ![p] = status]

\* A request arrives: everything known of the previous one is forgotten.
Arrive(p) ==
  /\ at[p] = "idle"
  /\ \E r \in Routes : route' = [route EXCEPT ![p] = r]
  /\ wire' = [wire EXCEPT ![p] = Unset]
  /\ outer' = [outer EXCEPT ![p] = Unset]
  /\ inner' = [inner EXCEPT ![p] = Unset]
  /\ counted' = [counted EXCEPT ![p] = Unset]
  /\ logged' = [logged EXCEPT ![p] = Unset]
  /\ broken' = [broken EXCEPT ![p] = FALSE]
  /\ Goes(p, "limit")
  /\ UNCHANGED inFlight

\* rateLimit, for a host of its choice: the path /metrics is exempt, with any
\* method, and the router knows only GET.
PassLimit(p) ==
  /\ at[p] = "limit"
  /\ \/ route[p] \in {"/metrics", "unmatched"} /\ UNCHANGED limiter
     \/ route[p] # "/metrics" /\ \E a \in Addresses : Admit(a)
  /\ Goes(p, "observe")
  /\ UNCHANGED <<route, wire, outer, inner, broken, counted, logged, inFlight>>

\* 429, or 500 for a remote address without a port.
RefuseRate(p) ==
  /\ at[p] = "limit"
  /\ route[p] # "/metrics"
  /\ \/ (\E a \in Addresses : Refuse(a)) /\ WriteOuter(p, 429)
     \/ UNCHANGED limiter /\ WriteOuter(p, 500)
  /\ Goes(p, "refusal")
  /\ UNCHANGED <<route, broken, counted, logged, inFlight>>

\* httprouter redirects a trailing slash and answers OPTIONS itself, the
\* latter without writing anything.
RouterAnswers(p) ==
  /\ at[p] = "observe"
  /\ route[p] = "unmatched"
  /\ \/ WriteOuter(p, 301)
     \/ UNCHANGED <<wire, outer, inner>>
  /\ Goes(p, "log")
  /\ UNCHANGED <<route, broken, counted, logged, inFlight>>

\* observeHTTP up to next.ServeHTTP.
EnterRoute(p) ==
  /\ at[p] = "observe"
  /\ inFlight' = [inFlight EXCEPT ![route[p]] = @ + 1]
  /\ Goes(p, IF route[p] \in PartnerRoutes THEN "authenticate" ELSE "handle")
  /\ UNCHANGED <<route, wire, outer, inner, broken, counted, logged>>

\* requirePartner: a key of some partner, or 401.
Authenticate(p) ==
  /\ at[p] = "authenticate"
  /\ \/ WriteInner(p, 401) /\ Goes(p, "body")
     \/ Goes(p, "handle") /\ UNCHANGED <<wire, outer, inner>>
  /\ UNCHANGED <<route, broken, counted, logged, inFlight>>

\* The handler runs and answers.
Handle(p) ==
  /\ at[p] = "handle"
  /\ \E status \in {200, 404, 500} : WriteInner(p, status)
  /\ Goes(p, "body")
  /\ UNCHANGED <<route, broken, counted, logged, inFlight>>

\* The body is written, or writing it fails and serverError is tried, which
\* sets the recorders and nothing else. promhttp does not try it.
WriteBody(p) ==
  /\ at[p] = "body"
  /\ \/ UNCHANGED <<wire, outer, inner, broken>>
     \/ /\ route[p] # "/metrics"
        /\ WriteInner(p, 500)
        /\ broken' = [broken EXCEPT ![p] = TRUE]
  /\ Goes(p, "count")
  /\ UNCHANGED <<route, counted, logged, inFlight>>

\* The same for an answer that was given outside observeHTTP.
WriteRefusal(p) ==
  /\ at[p] = "refusal"
  /\ \/ UNCHANGED <<wire, outer, inner, broken>>
     \/ WriteOuter(p, 500) /\ broken' = [broken EXCEPT ![p] = TRUE]
  /\ Goes(p, "log")
  /\ UNCHANGED <<route, counted, logged, inFlight>>

\* observeHTTP after next.ServeHTTP, and its deferred Dec.
Count(p) ==
  /\ at[p] = "count"
  /\ counted' = [counted EXCEPT ![p] = IF inner[p] = Unset THEN 200 ELSE inner[p]]
  /\ inFlight' = [inFlight EXCEPT ![route[p]] = @ - 1]
  /\ Goes(p, "log")
  /\ UNCHANGED <<route, wire, outer, inner, broken, logged>>

\* logRequest after next.ServeHTTP. net/http sends 200 for a handler that has
\* written nothing.
Log(p) ==
  /\ at[p] = "log"
  /\ logged' = [logged EXCEPT ![p] = IF outer[p] = Unset THEN 200 ELSE outer[p]]
  /\ Sends(p, 200)
  /\ Goes(p, "idle")
  /\ UNCHANGED <<route, outer, inner, broken, counted, inFlight>>

\* Mutant: Dec is called at the end instead of deferred.
PanicPastDec(p) ==
  /\ at[p] = "handle"
  /\ Sends(p, 500)
  /\ Goes(p, "idle")
  /\ UNCHANGED <<route, outer, inner, broken, counted, logged, inFlight>>

\* Mutant: the panic is recovered without an answer.
PanicSilently(p) ==
  /\ at[p] = "handle"
  /\ inFlight' = [inFlight EXCEPT ![route[p]] = @ - 1]
  /\ Goes(p, "idle")
  /\ UNCHANGED <<route, wire, outer, inner, broken, counted, logged>>

\* A handler panics: the deferred Dec runs, recoverPanic answers outside both
\* recorders, and nothing is counted or logged.
Panic(p) ==
  /\ at[p] = "handle"
  /\ inFlight' = [inFlight EXCEPT ![route[p]] = @ - 1]
  /\ Sends(p, 500)
  /\ Goes(p, "idle")
  /\ UNCHANGED <<route, outer, inner, broken, counted, logged>>

PipelineNext ==
  \/ \E p \in Procs :
       \/ PassLimit(p) \/ RefuseRate(p)
       \/ /\ \/ Arrive(p) \/ EnterRoute(p) \/ Authenticate(p) \/ RouterAnswers(p)
             \/ Handle(p) \/ WriteBody(p) \/ WriteRefusal(p) \/ Count(p) \/ Log(p)
             \/ Panic(p)
          /\ UNCHANGED limiter
  \/ (Tick \/ \E a \in Addresses : Observe(a)) /\ UNCHANGED requestVars

PipelineSpec == PipelineInit /\ [][PipelineNext]_pipelineVars

(***************************************************************************)
(* Properties.                                                             *)
(***************************************************************************)

Inside(r) == {p \in Procs : route[p] = r /\ at[p] \in {"authenticate", "handle", "body", "count"}}

\* The gauge of a route is the number of requests inside it, after panics,
\* refusals and broken connections too: it never drifts (metrics.go:99-100).
GaugeIsExact == \A r \in Routes : inFlight[r] = Cardinality(Inside(r))

\* The log and the counter agree with each other always, and with what the
\* client got unless its connection broke, when both say 500 of an answer that
\* began with another status (middleware.go:50-60, helpers.go:29-32).
StatusIsRecorded ==
  \A p \in Procs :
    /\ logged[p] # Unset /\ ~broken[p] => logged[p] = wire[p]
    /\ logged[p] # Unset /\ counted[p] # Unset => logged[p] = counted[p]

\* Nobody is left without an answer: a step that ends a request has sent a
\* status, panics included (middleware.go:166-177).
EveryRequestIsAnswered ==
  [][\A p \in Procs : at[p] # "idle" /\ at'[p] = "idle" => wire'[p] # Unset]_pipelineVars

(***************************************************************************)
(* Why: what the two recorders hold, by how far a request has come.        *)
(***************************************************************************)
Places == {"idle", "limit", "observe", "authenticate", "handle", "body", "refusal",
           "count", "log"}

PipelineTypeOK ==
  /\ at \in [Procs -> Places]
  /\ route \in [Procs -> Routes]
  /\ wire \in [Procs -> Nat] /\ outer \in [Procs -> Nat] /\ inner \in [Procs -> Nat]
  /\ counted \in [Procs -> Nat] /\ logged \in [Procs -> Nat]
  /\ broken \in [Procs -> BOOLEAN]
  /\ inFlight \in [Routes -> Nat]

\* Nothing is written before the handler or a refusal answers; from then on
\* the recorders say what the client gets or, of a broken connection, 500; and
\* only the end of a request is logged.
Recorded(p) ==
  /\ at[p] # "idle" => logged[p] = Unset
  /\ at[p] \notin {"idle", "log"} => counted[p] = Unset
  /\ at[p] \in {"limit", "observe", "authenticate", "handle"} =>
       wire[p] = Unset /\ outer[p] = Unset /\ inner[p] = Unset /\ ~broken[p]
  /\ at[p] \in {"body", "count"} => inner[p] = outer[p] /\ inner[p] # Unset
  /\ at[p] \in {"body", "refusal", "count", "log"} /\ ~broken[p] => wire[p] = outer[p]
  /\ at[p] = "log" /\ counted[p] # Unset => outer[p] = counted[p]

PipelineInv ==
  /\ PipelineTypeOK
  /\ GaugeIsExact
  /\ StatusIsRecorded
  /\ \A p \in Procs : Recorded(p)

================================================================================

--------------------------------- MODULE Server ---------------------------------
(***************************************************************************)
(* One run of the API process (cmd/api/server.go, serve, and what run of   *)
(* cmd/api/main.go does around it): the goroutine that waits for a signal  *)
(* and shuts the server down, the main goroutine that waits for it and     *)
(* closes the database, and the requests that run meanwhile.               *)
(*                                                                         *)
(* A tick is a second.  Only durations that a timeout limits take time.    *)
(***************************************************************************)
EXTENDS Naturals

CONSTANTS
  Connections,   \* client connections, of one request at a time
  ReadTimeout,   \* of the server: 5
  WriteTimeout,  \* of the server: 10
  MaxWork,       \* the contexts of a handler, one after another: 7, of a menu
  Grace          \* the context of Shutdown: 10

ASSUME ServerAssumption ==
  /\ ReadTimeout \in Nat /\ WriteTimeout \in Nat
  /\ MaxWork \in Nat /\ Grace \in Nat

VARIABLES
  main,       \* the main goroutine
  watcher,    \* the goroutine that waits for the signal
  listening,  \* whether the listener accepts
  result,     \* what Shutdown has returned
  failed,     \* whether ListenAndServe has ended with another error
  drained,    \* seconds since Shutdown was called
  at,         \* what the request of each connection does
  read, work, \* how long it has been read, and worked on
  fate        \* what became of the latest request

process == <<main, watcher, listening, result, failed, drained>>
requests == <<at, read, work, fate>>
server == <<process, requests>>

Active == {c \in Connections : at[c] # "idle"}

ServerTypeOK ==
  /\ main \in {"serving", "waiting", "closing", "closed", "exited"}
  /\ watcher \in {"waiting", "draining", "sending", "gone"}
  /\ listening \in BOOLEAN
  /\ result \in {"none", "ok", "deadline"}
  /\ failed \in BOOLEAN
  /\ drained \in 0..Grace
  /\ at \in [Connections -> {"idle", "reading", "working"}]
  /\ read \in [Connections -> 0..ReadTimeout]
  /\ work \in [Connections -> 0..MaxWork]
  /\ fate \in [Connections -> {"none", "answered", "lost", "cut"}]

ServerInit ==
  /\ main = "serving"
  /\ watcher = "waiting"
  /\ listening = TRUE
  /\ result = "none"
  /\ failed = FALSE
  /\ drained = 0
  /\ at = [c \in Connections |-> "idle"]
  /\ read = [c \in Connections |-> 0]
  /\ work = [c \in Connections |-> 0]
  /\ fate = [c \in Connections |-> "none"]

(***************************************************************************)
(* Requests.                                                               *)
(***************************************************************************)
Arrive(c) ==
  /\ listening
  /\ at[c] = "idle"
  /\ at' = [at EXCEPT ![c] = "reading"]
  /\ read' = [read EXCEPT ![c] = 0]
  /\ work' = [work EXCEPT ![c] = 0]
  /\ fate' = [fate EXCEPT ![c] = "none"]
  /\ UNCHANGED process

\* The body is complete, or there is none.
Begin(c) ==
  /\ main # "exited"
  /\ at[c] = "reading"
  /\ at' = [at EXCEPT ![c] = "working"]
  /\ UNCHANGED <<process, read, work, fate>>

\* The handler returns.  What it writes after WriteTimeout reaches nobody.
Answer(c) ==
  /\ main # "exited"
  /\ at[c] # "idle"
  /\ at' = [at EXCEPT ![c] = "idle"]
  /\ fate' = [fate EXCEPT ![c] = IF read[c] + work[c] <= WriteTimeout THEN "answered" ELSE "lost"]
  /\ UNCHANGED <<process, read, work>>

(***************************************************************************)
(* The goroutine of the signal.                                            *)
(***************************************************************************)

\* SIGINT or SIGTERM: Shutdown closes the listener and waits for the requests.
Signal ==
  /\ watcher = "waiting"
  /\ main # "exited"
  /\ watcher' = "draining"
  /\ listening' = FALSE
  /\ UNCHANGED <<main, result, failed, drained, requests>>

Returns(value) ==
  /\ watcher = "draining"
  /\ main # "exited"
  /\ watcher' = "sending"
  /\ result' = value
  /\ UNCHANGED <<main, listening, failed, drained, requests>>

\* Mutant: the context is cancelled before Shutdown has waited.
ExpiresAtOnce == Returns("deadline")

Expires == drained = Grace /\ Returns("deadline")

ShutdownReturns == (Active = {} /\ Returns("ok")) \/ Expires

(***************************************************************************)
(* The main goroutine.                                                     *)
(***************************************************************************)

\* Mutant: serve returns as soon as ListenAndServe does.
ListenReturnsFromServe ==
  /\ main = "serving"
  /\ ~listening
  /\ main' = "closing"
  /\ UNCHANGED <<watcher, listening, result, failed, drained, requests>>

\* ErrServerClosed, at once when Shutdown is called.
ListenReturns ==
  /\ main = "serving"
  /\ ~listening
  /\ main' = "waiting"
  /\ UNCHANGED <<watcher, listening, result, failed, drained, requests>>

\* Mutant: serve waits for the other goroutine in this case, too.
ListenFailsAndWaits ==
  /\ main = "serving"
  /\ listening
  /\ main' = "waiting"
  /\ listening' = FALSE
  /\ failed' = TRUE
  /\ UNCHANGED <<watcher, result, drained, requests>>

\* Any other error of ListenAndServe ends serve.
ListenFails ==
  /\ main = "serving"
  /\ listening
  /\ main' = "closing"
  /\ listening' = FALSE
  /\ failed' = TRUE
  /\ UNCHANGED <<watcher, result, drained, requests>>

\* shutdownError is unbuffered: the goroutines meet.
Receive ==
  /\ main = "waiting"
  /\ watcher = "sending"
  /\ main' = "closing"
  /\ watcher' = "gone"
  /\ UNCHANGED <<listening, result, failed, drained, requests>>

\* The deferred closing of Redis and the database.
CloseDatabase ==
  /\ main = "closing"
  /\ main' = "closed"
  /\ UNCHANGED <<watcher, listening, result, failed, drained, requests>>

\* The process ends, and with it whatever still runs.
Exit ==
  /\ main = "closed"
  /\ main' = "exited"
  /\ at' = [c \in Connections |-> "idle"]
  /\ fate' = [c \in Connections |-> IF c \in Active THEN "cut" ELSE fate[c]]
  /\ UNCHANGED <<watcher, listening, result, failed, drained, read, work>>

(***************************************************************************)
(* Time: nothing lasts longer than its timeout.                            *)
(***************************************************************************)
Longer(time, stage) ==
  [c \in Connections |-> IF at[c] = stage THEN time[c] + 1 ELSE time[c]]

\* Mutant: the queries have no context with a timeout.
InReadTimeout(c) == at[c] = "reading" => read[c] < ReadTimeout

InTime(c) ==
  /\ at[c] = "reading" => read[c] < ReadTimeout
  /\ at[c] = "working" => work[c] < MaxWork

Tick ==
  /\ main # "exited"
  /\ \A c \in Connections : InTime(c)
  /\ watcher = "draining" => drained < Grace
  /\ watcher = "draining" \/ Active # {}
  /\ drained' = IF watcher = "draining" THEN drained + 1 ELSE drained
  /\ read' = Longer(read, "reading")
  /\ work' = Longer(work, "working")
  /\ UNCHANGED <<main, watcher, listening, result, failed, at, fate>>

MainStep == ListenReturns \/ Receive \/ CloseDatabase \/ Exit

ServerNext ==
  \/ \E c \in Connections : Arrive(c) \/ Begin(c) \/ Answer(c)
  \/ Signal \/ ShutdownReturns
  \/ MainStep \/ ListenFails
  \/ Tick

ServerSpec == ServerInit /\ [][ServerNext]_server

\* The goroutines run, time passes, and handlers return.
FairServerSpec ==
  /\ ServerSpec
  /\ WF_server(MainStep)
  /\ WF_server(ShutdownReturns)
  /\ WF_server(Tick)
  /\ \A c \in Connections : WF_server(Answer(c))

(***************************************************************************)
(* Properties.                                                             *)
(***************************************************************************)

\* The database is closed under no request, unless Shutdown has given up
\* waiting or the server has failed, although ListenAndServe returns as soon as
\* Shutdown is called, long before the requests have ended (server.go:40-48,
\* main.go:98-102).
DatabaseOutlivesRequests ==
  main \in {"closed", "exited"} /\ ~failed /\ result # "deadline" =>
    Active = {} /\ \A c \in Connections : fate[c] # "cut"

Unanswered(c) == fate[c] \in {"cut", "lost"}

\* Only a request whose body was slow to come, by the code's limits three seconds
\* or more, can be cut off by a shutdown or be answered too late: the timeouts of
\* the handlers, which Shutdown does not cancel, fit into the rest (server.go:20,
\* 32; the contexts of internal/models).
PromptRequestsAreAnswered ==
  \A c \in Connections :
    Unanswered(c) /\ ~failed =>
      read[c] + MaxWork >= Grace \/ read[c] + MaxWork > WriteTimeout

(***************************************************************************)
(* Why: whoever is still served when Shutdown gives up was there when it   *)
(* was called, and Shutdown gives up no earlier than its context.          *)
(***************************************************************************)

\* Which states of the goroutines go together.
Handshake ==
  /\ watcher = "waiting" /\ ~failed => listening /\ main = "serving"
  /\ watcher # "waiting" \/ failed => ~listening
  /\ watcher \in {"sending", "gone"} <=> result # "none"
  /\ main = "waiting" => ~failed
  /\ main \in {"closing", "closed", "exited"} => failed \/ watcher = "gone"
  /\ failed => main \in {"closing", "closed", "exited"}

\* Nothing is served after an orderly shutdown; what is still served after
\* Shutdown was called is as old as that call (server.go:32-35).
ServerInv ==
  /\ ServerTypeOK
  /\ Handshake
  /\ result = "ok" => Active = {}
  /\ result = "deadline" => drained = Grace
  /\ watcher = "waiting" => drained = 0
  /\ \A c \in Connections :
       /\ watcher # "waiting" /\ at[c] # "idle" => read[c] + work[c] >= drained
       /\ fate[c] = "lost" => read[c] + work[c] > WriteTimeout
       /\ fate[c] = "cut" /\ ~failed => result = "deadline" /\ read[c] + work[c] >= Grace
       /\ main = "exited" => at[c] = "idle"

\* Told to stop, or failing to listen, the process ends: neither goroutine waits
\* for the other for ever (server.go:23-49).
EndsOnceStopped == watcher # "waiting" \/ failed ~> main = "exited"

================================================================================

------------------------------ MODULE ServerProofs ------------------------------
(***************************************************************************)
(* An orderly shutdown closes the database under no request and cuts off   *)
(* only those that were slow to come, for any timeouts and any number of   *)
(* connections.                                                            *)
(***************************************************************************)
EXTENDS Server, TLAPS

\* The process starts with nobody connected.
LEMMA ServerInitInv == ServerInit => ServerInv
<1> SUFFICES ASSUME ServerInit PROVE ServerInv
  OBVIOUS
<1> USE ServerAssumption DEF ServerInit
<1>1. ServerTypeOK
  <2>1. listening \in BOOLEAN /\ failed \in BOOLEAN
    OBVIOUS
  <2>2. QED
    BY <2>1 DEF ServerTypeOK
<1>2. Handshake
  BY DEF Handshake
<1>3. QED
  BY <1>1, <1>2 DEF ServerInv, Active

\* A second passes for every request and for Shutdown alike.
LEMMA ServerTickKeepsInv ==
  ASSUME ServerInv, Tick
  PROVE  ServerInv'
<1>1. /\ UNCHANGED <<main, watcher, listening, result, failed, at, fate>>
      /\ drained' = IF watcher = "draining" THEN drained + 1 ELSE drained
      /\ drained' \in 0..Grace
  BY ServerAssumption DEF Tick, ServerInv, ServerTypeOK
<1>2. ASSUME NEW c \in Connections
      PROVE  /\ read'[c] \in 0..ReadTimeout /\ work'[c] \in 0..MaxWork
             /\ at[c] = "idle" => read'[c] = read[c] /\ work'[c] = work[c]
             /\ at[c] # "idle" => read'[c] + work'[c] = read[c] + work[c] + 1
             /\ read'[c] + work'[c] >= read[c] + work[c]
  <2>1. /\ at[c] \in {"idle", "reading", "working"}
        /\ read[c] \in 0..ReadTimeout /\ work[c] \in 0..MaxWork
        /\ at[c] = "reading" => read[c] < ReadTimeout
        /\ at[c] = "working" => work[c] < MaxWork
    BY DEF Tick, InTime, ServerInv, ServerTypeOK
  <2>2. /\ read'[c] = IF at[c] = "reading" THEN read[c] + 1 ELSE read[c]
        /\ work'[c] = IF at[c] = "working" THEN work[c] + 1 ELSE work[c]
    BY DEF Tick, Longer
  <2>3. QED
    BY <2>1, <2>2, ServerAssumption
<1>3. ServerTypeOK'
  <2>1. read' \in [Connections -> 0..ReadTimeout] /\ work' \in [Connections -> 0..MaxWork]
    BY <1>2 DEF Tick, Longer
  <2>2. QED
    BY <1>1, <2>1 DEF ServerInv, ServerTypeOK
<1>4. Handshake'
  BY <1>1 DEF ServerInv, Handshake
<1>5. /\ (result = "ok" => Active = {})'
      /\ (result = "deadline" => drained = Grace)'
      /\ (watcher = "waiting" => drained = 0)'
  BY <1>1 DEF ServerInv, Active, Handshake
<1>6. ASSUME NEW c \in Connections
      PROVE  /\ watcher' # "waiting" /\ at'[c] # "idle" => read'[c] + work'[c] >= drained'
             /\ fate'[c] = "lost" => read'[c] + work'[c] > WriteTimeout
             /\ fate'[c] = "cut" /\ ~failed' =>
                  result' = "deadline" /\ read'[c] + work'[c] >= Grace
             /\ main' = "exited" => at'[c] = "idle"
  <2>1. /\ read[c] \in Nat /\ work[c] \in Nat /\ read'[c] \in Nat /\ work'[c] \in Nat
        /\ drained \in Nat /\ WriteTimeout \in Nat /\ Grace \in Nat
    BY <1>2, ServerAssumption DEF ServerInv, ServerTypeOK
  <2>2. QED
    BY <1>1, <1>2, <2>1 DEF ServerInv
<1>7. QED
  BY <1>3, <1>4, <1>5, <1>6 DEF ServerInv

\* Every step keeps the goroutines in step and the requests as old as the call
\* of Shutdown.
LEMMA ServerStepKeepsInv == ServerInv /\ [ServerNext]_server => ServerInv'
<1> SUFFICES ASSUME ServerInv, [ServerNext]_server PROVE ServerInv'
  OBVIOUS
<1> USE ServerAssumption DEF ServerInv, ServerTypeOK, Handshake, Active
<1>1. ASSUME NEW c \in Connections, Arrive(c) PROVE ServerInv'
  BY <1>1 DEF Arrive, process
<1>2. ASSUME NEW c \in Connections, Begin(c) PROVE ServerInv'
  BY <1>2 DEF Begin, process
<1>3. ASSUME NEW c \in Connections, Answer(c) PROVE ServerInv'
  BY <1>3 DEF Answer, process
<1>4. CASE Signal
  <2>1. listening' \in BOOLEAN /\ ~listening'
    BY <1>4 DEF Signal
  <2>2. QED
    BY <1>4, <2>1 DEF Signal, requests
<1>5. CASE ShutdownReturns
  BY <1>5 DEF ShutdownReturns, Expires, Returns, requests
<1>6. CASE ListenFails
  <2>1. listening' \in BOOLEAN /\ ~listening' /\ failed' \in BOOLEAN /\ failed'
    BY <1>6 DEF ListenFails
  <2>2. QED
    BY <1>6, <2>1 DEF ListenFails, requests
<1>7. CASE ListenReturns \/ Receive \/ CloseDatabase
  BY <1>7 DEF ListenReturns, Receive, CloseDatabase, requests
<1>8. CASE Exit
  BY <1>8 DEF Exit
<1>9. CASE Tick
  BY <1>9, ServerTickKeepsInv
<1>10. CASE UNCHANGED server
  BY <1>10 DEF server, process, requests
<1>11. QED
  BY <1>1, <1>2, <1>3, <1>4, <1>5, <1>6, <1>7, <1>8, <1>9, <1>10 DEF ServerNext, MainStep

\* Whoever is still served when Shutdown gives up is as old as its call
\* (server.go:31-34).
THEOREM ServerInvariant == ServerSpec => []ServerInv
BY ServerInitInv, ServerStepKeepsInv, PTL DEF ServerSpec

\* The database is closed under no request that Shutdown has not given up
\* (server.go:38-46, main.go:97-101).
THEOREM ShutdownIsOrderly == ServerSpec => []DatabaseOutlivesRequests
<1>1. ServerInv => DatabaseOutlivesRequests
  BY DEF ServerInv, ServerTypeOK, Handshake, DatabaseOutlivesRequests
<1>2. QED
  BY <1>1, ServerInvariant, PTL

\* A request that came promptly is answered (server.go:20, 31).
THEOREM PromptnessSuffices == ServerSpec => []PromptRequestsAreAnswered
<1>1. ServerInv => PromptRequestsAreAnswered
  BY ServerAssumption DEF ServerInv, ServerTypeOK, PromptRequestsAreAnswered, Unanswered
<1>2. QED
  BY <1>1, ServerInvariant, PTL

================================================================================

---------------------- MODULE ClientConnectionTheorems ----------------------
(***************************************************************************)
(* What the callers of a client are told is true, requests share one dial   *)
(* and a waiting request is always told, for any number of requests,        *)
(* connections and failures.                                                *)
(***************************************************************************)
EXTENDS ClientConnection, TLAPS

-----------------------------------------------------------------------------
(* Outcomes.                                                                *)

Early == {"idle", "ensure", "wait", "parked", "sleep", "dial", "open"}

Places == Early \cup {"notify", "read", "invalidate", "done", "dropped"}
Outcomes == {"none", "ok", "Application", "UnknownWithCause", "UnknownMutationOutcome", "Transport",
             "Protocol", "Endpoint", "cancelled"}
Streams == {"none", "sent", "serving", "ok", "refused", "unknown", "unreadable", "silent"}

(* How far a request and its stream are bounds what the server can have     *)
(* done and what the caller can have been told.                             *)
OutcomeOf(c) ==
  /\ stream[c] \in {"none", "sent", "serving", "refused"} => applied[c] = 0
  /\ stream[c] = "ok" /\ kind[c] = "mutation" => applied[c] = 1
  /\ at[c] \in Early => result[c] = "none"
  /\ at[c] \in Early \cup {"notify"} => stream[c] = "none"
  /\ at[c] = "notify" => result[c] \in {"none", "Transport", "Endpoint"}
  /\ result[c] = "ok" => stream[c] = "ok"
  /\ kind[c] = "mutation" /\ result[c] = "Application" => stream[c] = "refused"
  /\ kind[c] = "mutation" /\ result[c] \in {"Endpoint", "Transport", "Protocol"} => stream[c] = "none"

OutcomesInv ==
  /\ at \in [Calls -> Places] /\ kind \in [Calls -> {"read", "mutation"}] /\ result \in [Calls -> Outcomes]
  /\ stream \in [Calls -> Streams] /\ applied \in [Calls -> 0..1]
  /\ \A c \in Calls : OutcomeOf(c)

(* A step of one request, or of the server on its stream, leaves the others *)
(* alone.                                                                   *)
LEMMA OutcomesKept ==
  ASSUME OutcomesInv, NEW c \in Calls,
         at' \in [Calls -> Places], kind' \in [Calls -> {"read", "mutation"}], result' \in [Calls -> Outcomes],
         stream' \in [Calls -> Streams], applied' \in [Calls -> 0..1],
         \A d \in Calls \ {c} : /\ at'[d] = at[d] /\ kind'[d] = kind[d] /\ result'[d] = result[d]
                                /\ stream'[d] = stream[d] /\ applied'[d] = applied[d],
         OutcomeOf(c)'
  PROVE  OutcomesInv'
<1>1. ASSUME NEW d \in Calls PROVE OutcomeOf(d)'
  BY <1>1 DEF OutcomesInv, OutcomeOf
<1> QED
  BY <1>1 DEF OutcomesInv

(* execute refuses a request before anything is sent.                       *)
LEMMA Outcomes_execute == ASSUME OutcomesInv, NEW c \in Calls, NEW asked \in Kinds, execute(c, asked) PROVE OutcomesInv'
<1>1. asked \in {"read", "mutation"}
  BY ClientAssumption
<1>2. CASE UNCHANGED result /\ at' = [at EXCEPT ![c] = "ensure"]
  BY <1>1, <1>2, OutcomesKept DEF execute, serverVars, OutcomesInv, OutcomeOf, Places, Early, Outcomes, Streams
<1>3. CASE at' = [at EXCEPT ![c] = "done"] /\ result' = [result EXCEPT ![c] = "Protocol"]
  BY <1>1, <1>3, OutcomesKept DEF execute, serverVars, OutcomesInv, OutcomeOf, Places, Early, Outcomes, Streams
<1> QED
  BY <1>2, <1>3 DEF execute

(* An installed connection, a wait, a sleep or a dial: nothing is sent.     *)
LEMMA Outcomes_ensure_connection == ASSUME OutcomesInv, NEW c \in Calls, ensure_connection(c) PROVE OutcomesInv'
  BY OutcomesKept DEF ensure_connection, Goes, Uses, Returns, GoesWith, serverVars, OutcomesInv, OutcomeOf, Places, Early, Outcomes, Streams

(* Parking sends nothing.                                                   *)
LEMMA Outcomes_Park == ASSUME OutcomesInv, NEW c \in Calls, Park(c) PROVE OutcomesInv'
  BY OutcomesKept DEF Park, Goes, serverVars, OutcomesInv, OutcomeOf, Places, Early, Outcomes, Streams

(* Neither does going round the loop.                                       *)
LEMMA Outcomes_Again == ASSUME OutcomesInv, NEW c \in Calls, Again(c) PROVE OutcomesInv'
  BY OutcomesKept DEF Again, Goes, serverVars, OutcomesInv, OutcomeOf, Places, Early, Outcomes, Streams

(* A dial that ends well opens no stream yet.                               *)
LEMMA Outcomes_DialConnects == ASSUME OutcomesInv, NEW c \in Calls, DialConnects(c) PROVE OutcomesInv'
  BY OutcomesKept DEF DialConnects, Uses, GoesWith, serverVars, OutcomesInv, OutcomeOf, Places, Early, Outcomes, Streams

(* A failed dial is reported while nothing was sent.                        *)
LEMMA Outcomes_DialFails == ASSUME OutcomesInv, NEW c \in Calls, DialFails(c) PROVE OutcomesInv'
  BY OutcomesKept DEF DialFails, GoesWith, serverVars, OutcomesInv, OutcomeOf, Places, Early, Outcomes, Streams

(* Telling the waiting requests sends nothing.                              *)
LEMMA Outcomes_DialNotifies == ASSUME OutcomesInv, NEW c \in Calls, DialNotifies(c) PROVE OutcomesInv'
  BY OutcomesKept DEF DialNotifies, Goes, serverVars, OutcomesInv, OutcomeOf, Places, Early, Outcomes, Streams

(* A mutation whose frame may be on its way is not reported as failed.      *)
LEMMA Outcomes_SendRequest == ASSUME OutcomesInv, NEW c \in Calls, SendRequest(c) PROVE OutcomesInv'
  BY OutcomesKept DEF SendRequest, Goes, Fails, GoesWith, uncertain, invalidates_connection, OutcomesInv, OutcomeOf, Places, Early, Outcomes, Streams

(* The answer read is the server's.                                         *)
LEMMA Outcomes_ReadResponse == ASSUME OutcomesInv, NEW c \in Calls, ReadResponse(c) PROVE OutcomesInv'
  BY OutcomesKept DEF ReadResponse, Returns, Fails, GoesWith, uncertain, invalidates_connection, serverVars, OutcomesInv, OutcomeOf, Places, Early, Outcomes, Streams

(* Invalidating changes no outcome.                                         *)
LEMMA Outcomes_invalidate == ASSUME OutcomesInv, NEW c \in Calls, invalidate(c) PROVE OutcomesInv'
  BY OutcomesKept DEF invalidate, Goes, serverVars, OutcomesInv, OutcomeOf, Places, Early, Outcomes, Streams

(* A dropped request has no outcome.                                        *)
LEMMA Outcomes_Cancel == ASSUME OutcomesInv, NEW c \in Calls, Cancel(c) PROVE OutcomesInv'
  BY OutcomesKept DEF Cancel, GoesWith, serverVars, OutcomesInv, OutcomeOf, Places, Early, Outcomes, Streams

(* The server receives a frame once.                                        *)
LEMMA Outcomes_ServerReceives == ASSUME OutcomesInv, NEW c \in Calls, ServerReceives(c) PROVE OutcomesInv'
  BY OutcomesKept DEF ServerReceives, callVars, OutcomesInv, OutcomeOf, Places, Early, Outcomes, Streams

(* The server applies a received mutation at most once, and not when it refuses it.*)
LEMMA Outcomes_ServerAnswers == ASSUME OutcomesInv, NEW c \in Calls, ServerAnswers(c) PROVE OutcomesInv'
  BY OutcomesKept DEF ServerAnswers, callVars, OutcomesInv, OutcomeOf, Places, Early, Outcomes, Streams

(* The steps of no request in particular.                                   *)
LEMMA OutcomesRest == ASSUME OutcomesInv, UNCHANGED <<callVars, serverVars>> PROVE OutcomesInv'
  BY DEF callVars, serverVars, OutcomesInv, OutcomeOf

(* Every step of the client, the network and the server keeps it.           *)
LEMMA OutcomesNext == ASSUME OutcomesInv, [Next]_vars PROVE OutcomesInv'
<1>1. ASSUME NEW c \in Calls, NEW asked \in Kinds, execute(c, asked) PROVE OutcomesInv'
  BY <1>1, Outcomes_execute
<1>2. ASSUME NEW c \in Calls, CallStep(c) PROVE OutcomesInv'
  BY <1>2, Outcomes_ensure_connection, Outcomes_Park, Outcomes_Again, Outcomes_DialConnects, 
     Outcomes_DialFails, Outcomes_DialNotifies, Outcomes_SendRequest, Outcomes_ReadResponse, Outcomes_invalidate
     DEF CallStep
<1>3. ASSUME NEW c \in Calls, ServerStep(c) \/ Cancel(c) PROVE OutcomesInv'
  BY <1>3, Outcomes_Cancel, Outcomes_ServerReceives, Outcomes_ServerAnswers DEF ServerStep
<1>4. CASE BackoffPasses \/ close
  BY <1>4, OutcomesRest DEF BackoffPasses, close
<1>5. CASE CloseEndpoint
  BY <1>5, OutcomesRest DEF CloseEndpoint
<1>6. CASE \E g \in alive : ConnectionLost(g)
  BY <1>6, OutcomesRest DEF ConnectionLost
<1>7. CASE UNCHANGED vars
  BY <1>7, OutcomesRest DEF vars
<1> QED
  BY <1>1, <1>2, <1>3, <1>4, <1>5, <1>6, <1>7 DEF Next

(* Nothing is sent at the start.                                            *)
LEMMA OutcomesInit == Init => OutcomesInv
  BY DEF Init, OutcomesInv, OutcomeOf, Places, Early, Outcomes, Streams

(* Whatever is lost, closed or dropped, a mutation is applied at most once, *)
(* a success was applied, and a refusal, a transport or a protocol error    *)
(* never is (execute does not retry).                                       *)
THEOREM TrueOutcomes == Spec => []OutcomesTrue
<1>1. OutcomesInv => OutcomesTrue
  BY DEF OutcomesInv, OutcomeOf, OutcomesTrue, Outcomes, Streams
<1> QED
  BY <1>1, OutcomesInit, OutcomesNext, PTL DEF Spec

-----------------------------------------------------------------------------
(* Dialling.                                                                *)

StateType == [current : Nat, generation : Nat, reconnecting : BOOLEAN, failures : Nat,
              next_attempt_at : {"none", "later", "due"}, closed : BOOLEAN]

(* Unless the client is closed, reconnecting is set while a request dials;  *)
(* close is final.                                                          *)
DialInv ==
  /\ state \in StateType /\ DOMAIN at = Calls
  /\ \A c, d \in Calls : at[c] = "dial" /\ at[d] = "dial" => c = d
  /\ \A c \in Calls : at[c] = "dial" => state.current = NoConnection
  /\ \A c \in Calls : at[c] = "dial" => state.closed \/ state.reconnecting
  /\ state.closed => state.current = NoConnection
  /\ ~ endpoint => state.closed /\ alive = {}
  /\ NoConnection \notin alive

(* execute dials nothing.                                                   *)
LEMMA Dial_execute == ASSUME DialInv, NEW c \in Calls, NEW asked \in Kinds, execute(c, asked) PROVE DialInv'
  BY DEF execute, DialInv

(* ensure_connection dials only when nobody does.                           *)
LEMMA Dial_ensure_connection == ASSUME DialInv, NEW c \in Calls, ensure_connection(c) PROVE DialInv'
<1>1. CASE state.closed \/ state.current \in alive
  BY <1>1 DEF ensure_connection, Uses, Returns, GoesWith, DialInv
<1>2. CASE ~ state.closed /\ state.current \notin alive /\ (state.reconnecting \/ state.next_attempt_at = "later")
  <2>1. state' = [state EXCEPT !.current = NoConnection] /\ UNCHANGED <<endpoint, alive>>
    BY <1>2 DEF ensure_connection
  <2>2. at' = [at EXCEPT ![c] = "wait"] \/ at' = [at EXCEPT ![c] = "sleep"]
    BY <1>2 DEF ensure_connection, Goes
  <2> QED
    BY <2>1, <2>2 DEF DialInv, StateType, NoConnection
<1>3. CASE ~ state.closed /\ state.current \notin alive /\ ~ state.reconnecting /\ state.next_attempt_at # "later"
  <2>1. /\ state' = [state EXCEPT !.current = NoConnection, !.next_attempt_at = "none", !.reconnecting = TRUE]
        /\ UNCHANGED <<endpoint, alive>> /\ at' = [at EXCEPT ![c] = "dial"]
    BY <1>3 DEF ensure_connection, Goes
  <2>2. state' \in StateType /\ state'.current = NoConnection /\ state'.reconnecting /\ state'.closed = state.closed
    BY <2>1 DEF DialInv, StateType, NoConnection
  <2>3. \A d \in Calls : at[d] # "dial"
    BY <1>3 DEF DialInv
  <2> QED
    BY <1>3, <2>1, <2>2, <2>3 DEF DialInv
<1> QED
  BY <1>1, <1>2, <1>3

(* Parking leaves the dial alone.                                           *)
LEMMA Dial_Park == ASSUME DialInv, NEW c \in Calls, Park(c) PROVE DialInv'
  BY DEF Park, Goes, DialInv, StateType, NoConnection

(* So does going round the loop.                                            *)
LEMMA Dial_Again == ASSUME DialInv, NEW c \in Calls, Again(c) PROVE DialInv'
  BY DEF Again, Goes, DialInv, StateType, NoConnection

(* The dial's result is installed by the one request that dialled.          *)
LEMMA Dial_DialConnects == ASSUME DialInv, NEW c \in Calls, DialConnects(c) PROVE DialInv'
<1>1. at' = [at EXCEPT ![c] = "notify"] /\ UNCHANGED endpoint /\ at[c] = "dial"
  BY DEF DialConnects, Uses, GoesWith
<1>2. \A d \in Calls : at'[d] # "dial"
  BY <1>1 DEF DialInv
<1>3. CASE state.closed
  <2>1. state' = [state EXCEPT !.reconnecting = FALSE] /\ UNCHANGED alive
    BY <1>3 DEF DialConnects
  <2> QED
    BY <1>1, <1>2, <1>3, <2>1 DEF DialInv, StateType
<1>4. CASE ~ state.closed
  <2>1. state' = [state EXCEPT !.reconnecting = FALSE, !.failures = 0, !.next_attempt_at = "none",
                               !.generation = state.generation + 1, !.current = state.generation + 1]
    BY <1>4 DEF DialConnects
  <2>2. state' \in StateType /\ ~ state'.closed
    <3> DEFINE g == state.generation + 1
    <3>1. g \in Nat /\ state \in StateType
      BY DEF DialInv, StateType
    <3>2. state' = [state EXCEPT !.reconnecting = FALSE, !.failures = 0, !.next_attempt_at = "none",
                                 !.generation = g, !.current = g]
      BY <2>1
    <3> HIDE DEF g
    <3> QED
      BY <1>4, <3>1, <3>2 DEF StateType
  <2>3. NoConnection \notin alive'
    BY <1>4 DEF DialConnects, DialInv, StateType, NoConnection
  <2> QED
    BY <1>1, <1>2, <1>4, <2>2, <2>3 DEF DialInv
<1> QED
  BY <1>3, <1>4

(* A failed dial leaves the place to the next one.                          *)
LEMMA Dial_DialFails == ASSUME DialInv, NEW c \in Calls, DialFails(c) PROVE DialInv'
<1>1. at' = [at EXCEPT ![c] = "notify"] /\ UNCHANGED <<endpoint, alive>> /\ at[c] = "dial"
  BY DEF DialFails, GoesWith
<1>2. \A d \in Calls : at'[d] # "dial"
  BY <1>1 DEF DialInv
<1>3. state' \in StateType /\ state'.closed = state.closed /\ state'.current = state.current
  <2> DEFINE f == state.failures + 1
  <2>1. f \in Nat /\ state \in StateType
    BY DEF DialInv, StateType
  <2>2. \/ state' = [state EXCEPT !.reconnecting = FALSE]
        \/ state' = [state EXCEPT !.reconnecting = FALSE, !.failures = f, !.next_attempt_at = "later"]
    BY DEF DialFails
  <2> HIDE DEF f
  <2> QED
    BY <2>1, <2>2 DEF StateType
<1> QED
  BY <1>1, <1>2, <1>3 DEF DialInv

(* Telling the others installs nothing.                                     *)
LEMMA Dial_DialNotifies == ASSUME DialInv, NEW c \in Calls, DialNotifies(c) PROVE DialInv'
  BY DEF DialNotifies, Goes, DialInv, StateType, NoConnection

(* A request that has its connection dials no more.                         *)
LEMMA Dial_SendRequest == ASSUME DialInv, NEW c \in Calls, SendRequest(c) PROVE DialInv'
  BY DEF SendRequest, Goes, Fails, GoesWith, DialInv, StateType, NoConnection

(* Reading an answer changes no connection.                                 *)
LEMMA Dial_ReadResponse == ASSUME DialInv, NEW c \in Calls, ReadResponse(c) PROVE DialInv'
  BY DEF ReadResponse, Returns, Fails, GoesWith, DialInv, StateType, NoConnection

(* invalidate takes down what is installed, never a dial.                   *)
LEMMA Dial_invalidate == ASSUME DialInv, NEW c \in Calls, invalidate(c) PROVE DialInv'
  BY DEF invalidate, Goes, DialInv, StateType, NoConnection

(* Dropping a request removes no dial of another.                           *)
LEMMA Dial_Cancel == ASSUME DialInv, NEW c \in Calls, Cancel(c) PROVE DialInv'
  BY DEF Cancel, GoesWith, DialInv, StateType, NoConnection

(* Every step of the client, the network and the server keeps it.           *)
LEMMA DialNext == ASSUME DialInv, [Next]_vars PROVE DialInv'
<1>1. ASSUME NEW c \in Calls, NEW asked \in Kinds, execute(c, asked) PROVE DialInv'
  BY <1>1, Dial_execute
<1>2. ASSUME NEW c \in Calls, CallStep(c) PROVE DialInv'
  BY <1>2, Dial_ensure_connection, Dial_Park, Dial_Again, Dial_DialConnects, Dial_DialFails, 
     Dial_DialNotifies, Dial_SendRequest, Dial_ReadResponse, Dial_invalidate
     DEF CallStep
<1>3. ASSUME NEW c \in Calls, ServerStep(c) \/ Cancel(c) PROVE DialInv'
  BY <1>3, Dial_Cancel DEF ServerStep, ServerReceives, ServerAnswers, callVars, DialInv
<1>4. CASE BackoffPasses
  BY <1>4 DEF BackoffPasses, callVars, DialInv, StateType
<1>5. CASE close
  BY <1>5 DEF close, callVars, DialInv, StateType, NoConnection
<1>6. CASE CloseEndpoint
  BY <1>6 DEF CloseEndpoint, callVars, DialInv
<1>7. CASE \E g \in alive : ConnectionLost(g)
  BY <1>7 DEF ConnectionLost, callVars, DialInv
<1>8. CASE UNCHANGED vars
  BY <1>8 DEF vars, callVars, DialInv
<1> QED
  BY <1>1, <1>2, <1>3, <1>4, <1>5, <1>6, <1>7, <1>8 DEF Next

(* The client starts without a connection and without a dial.               *)
LEMMA DialInit == Init => DialInv
<1> SUFFICES ASSUME Init PROVE DialInv
  OBVIOUS
<1>1. state \in StateType /\ state.current = NoConnection /\ ~ state.closed
  BY ClientAssumption DEF Init, StateType, NoConnection
<1> QED
  BY <1>1 DEF Init, DialInv

(* Requests share one dial, also when dials are dropped, and nothing is     *)
(* installed while it runs.                                                 *)
THEOREM SharedDial == Spec => []OneDial
<1>1. DialInv => OneDial
  BY DEF DialInv, OneDial
<1> QED
  BY <1>1, DialInit, DialNext, PTL DEF Spec

(* After close nothing is installed, not even by a dial that was under way, *)
(* and no connection outlives the endpoint.                                 *)
THEOREM CloseIsFinal == Spec => []ClosedForGood
<1>1. DialInv => ClosedForGood
  BY DEF DialInv, ClosedForGood
<1> QED
  BY <1>1, DialInit, DialNext, PTL DEF Spec

-----------------------------------------------------------------------------
(* Waiting, when no dial is dropped.                                        *)

HasDialer ==
  \A c \in Calls :
    at[c] \in {"wait", "parked"} /\ c \notin notified =>
      \E d \in Calls : at[d] \in {"dial", "notify"}

WaitInv ==
  /\ DOMAIN at = Calls /\ state \in StateType
  /\ state.reconnecting => \E d \in Calls : at[d] = "dial"
  /\ HasDialer

(* Steps that take nobody from dialling or telling, and make nobody wait.   *)
LEMMA WaitKept ==
  ASSUME WaitInv, DOMAIN at' = Calls, state' \in StateType,
         \A d \in Calls : at[d] = "dial" => at'[d] = "dial",
         \A d \in Calls : at[d] = "notify" => at'[d] = "notify",
         \A d \in Calls : at'[d] \in {"wait", "parked"} /\ d \notin notified' =>
           at[d] \in {"wait", "parked"} /\ d \notin notified,
         state'.reconnecting => state.reconnecting
  PROVE  WaitInv'
<1>1. HasDialer'
  BY DEF WaitInv, HasDialer
<1> QED
  BY <1>1 DEF WaitInv

(* A request starts to wait only for one that dials.                        *)
LEMMA Wait_ensure_connection == ASSUME WaitInv, NEW c \in Calls, ensure_connection(c) PROVE WaitInv'
<1>1. CASE state.closed \/ state.current \in alive
  <2>1. UNCHANGED <<state, notified>> /\ (at' = [at EXCEPT ![c] = "done"] \/ at' = [at EXCEPT ![c] = "open"]) /\ at[c] = "ensure"
    BY <1>1 DEF ensure_connection, Uses, Returns, GoesWith
  <2> QED
    BY <2>1, WaitKept DEF WaitInv
<1>2. CASE ~ state.closed /\ state.current \notin alive /\ state.reconnecting
  <2>1. /\ state' = [state EXCEPT !.current = NoConnection] /\ UNCHANGED notified
        /\ at' = [at EXCEPT ![c] = "wait"] /\ at[c] = "ensure"
    BY <1>2 DEF ensure_connection, Goes
  <2>2. PICK d \in Calls : at[d] = "dial"
    BY <1>2 DEF WaitInv
  <2>3. at'[d] = "dial" /\ state' \in StateType /\ DOMAIN at' = Calls
    BY <2>1, <2>2 DEF WaitInv, StateType, NoConnection
  <2> QED
    BY <2>3 DEF WaitInv, HasDialer
<1>3. CASE ~ state.closed /\ state.current \notin alive /\ ~ state.reconnecting /\ state.next_attempt_at = "later"
  <2>1. /\ state' = [state EXCEPT !.current = NoConnection] /\ UNCHANGED notified
        /\ at' = [at EXCEPT ![c] = "sleep"] /\ at[c] = "ensure"
    BY <1>3 DEF ensure_connection, Goes
  <2>2. state' \in StateType /\ state'.reconnecting = state.reconnecting
    BY <2>1 DEF WaitInv, StateType, NoConnection
  <2> QED
    BY <2>1, <2>2, WaitKept DEF WaitInv
<1>4. CASE ~ state.closed /\ state.current \notin alive /\ ~ state.reconnecting /\ state.next_attempt_at # "later"
  <2>1. /\ state' = [state EXCEPT !.current = NoConnection, !.next_attempt_at = "none", !.reconnecting = TRUE]
        /\ at' = [at EXCEPT ![c] = "dial"]
    BY <1>4 DEF ensure_connection, Goes
  <2>2. at'[c] = "dial" /\ DOMAIN at' = Calls /\ state' \in StateType
    BY <2>1 DEF WaitInv, StateType, NoConnection
  <2> QED
    BY <2>2 DEF WaitInv, HasDialer
<1> QED
  BY <1>1, <1>2, <1>3, <1>4

(* The request that dialled has still to tell the others.                   *)
LEMMA WaitDialled == ASSUME WaitInv, DialInv', NEW c \in Calls, DialConnects(c) \/ DialFails(c) PROVE WaitInv'
<1>1. at' = [at EXCEPT ![c] = "notify"]
  BY DEF DialConnects, DialFails, Uses, GoesWith
<1>2. ~ state'.reconnecting
  <2>1. "reconnecting" \in DOMAIN state
    BY DEF WaitInv, StateType
  <2> QED
    BY <2>1 DEF DialConnects, DialFails
<1>3. at'[c] = "notify" /\ DOMAIN at' = Calls
  BY <1>1 DEF WaitInv
<1> QED
  BY <1>2, <1>3 DEF WaitInv, DialInv, HasDialer

(* notify_waiters reaches the requests that wait, parked or not.            *)
LEMMA WaitTold == ASSUME WaitInv, DialInv', NEW c \in Calls, DialNotifies(c) PROVE WaitInv'
<1>1. notified' = notified \cup {d \in Calls : registered(d)} /\ UNCHANGED state
  BY DEF DialNotifies, notify_waiters
<1>2. (at' = [at EXCEPT ![c] = "open"] \/ at' = [at EXCEPT ![c] = "done"]) /\ at[c] = "notify"
  BY DEF DialNotifies, Goes
<1>3. HasDialer'
  BY <1>1, <1>2 DEF WaitInv, HasDialer, registered
<1>4. \A d \in Calls : at[d] = "dial" => at'[d] = "dial"
  BY <1>2 DEF WaitInv
<1> QED
  BY <1>1, <1>3, <1>4 DEF WaitInv, DialInv

(* A request that was dropped while it dialled stays so.                    *)
LEMMA DroppedStays == ASSUME DialDropped, OutcomesInv, [Next]_vars PROVE DialDropped'
<1>1. PICK d \in Calls : at[d] = "dropped"
  BY DEF DialDropped
<1>2. \A c \in Calls, to \in Places : at[c] # "dropped" /\ at' = [at EXCEPT ![c] = to] => at'[d] = "dropped"
  BY <1>1 DEF OutcomesInv
<1>3. ASSUME NEW c \in Calls, NEW asked \in Kinds, execute(c, asked) PROVE at'[d] = "dropped"
  BY <1>2, <1>3 DEF execute, Places, Early
<1>4. ASSUME NEW c \in Calls, ensure_connection(c) \/ Park(c) \/ Again(c) PROVE at'[d] = "dropped"
  BY <1>2, <1>4 DEF ensure_connection, Park, Again, Goes, Uses, Returns, GoesWith, Places, Early
<1>5. ASSUME NEW c \in Calls, DialConnects(c) \/ DialFails(c) \/ DialNotifies(c) PROVE at'[d] = "dropped"
  BY <1>2, <1>5 DEF DialConnects, DialFails, DialNotifies, Goes, Uses, GoesWith, Places, Early
<1>6. ASSUME NEW c \in Calls, SendRequest(c) \/ ReadResponse(c) PROVE at'[d] = "dropped"
  BY <1>2, <1>6 DEF SendRequest, ReadResponse, Goes, Returns, Fails, GoesWith, Places, Early
<1>7. ASSUME NEW c \in Calls, invalidate(c) \/ Cancel(c) PROVE at'[d] = "dropped"
  BY <1>2, <1>7 DEF invalidate, Cancel, Goes, GoesWith, Places, Early
<1>8. ASSUME NEW c \in Calls, ServerStep(c) PROVE at'[d] = "dropped"
  BY <1>1, <1>8 DEF ServerStep, ServerReceives, ServerAnswers, callVars
<1>9. CASE BackoffPasses \/ close \/ CloseEndpoint \/ (\E g \in alive : ConnectionLost(g)) \/ UNCHANGED vars
  BY <1>1, <1>9 DEF BackoffPasses, close, CloseEndpoint, ConnectionLost, vars, callVars, DialDropped
<1> QED
  BY <1>3, <1>4, <1>5, <1>6, <1>7, <1>8, <1>9 DEF Next, CallStep, DialDropped

(* Every step but the drop of a dial keeps it.                              *)
LEMMA WaitNext == ASSUME ~ DialDropped', WaitInv, DialInv', [Next]_vars PROVE WaitInv'
<1>1. ASSUME NEW c \in Calls, NEW asked \in Kinds, execute(c, asked) PROVE WaitInv'
  BY <1>1, WaitKept DEF execute, WaitInv
<1>2. ASSUME NEW c \in Calls, Park(c) PROVE WaitInv'
  BY <1>2, WaitKept DEF Park, Goes, WaitInv
<1>3. ASSUME NEW c \in Calls, Again(c) PROVE WaitInv'
  BY <1>3, WaitKept DEF Again, Goes, WaitInv
<1>4. ASSUME NEW c \in Calls, SendRequest(c) \/ ReadResponse(c) PROVE WaitInv'
  <2>1. at[c] \in {"open", "read"} /\ UNCHANGED <<state, notified>>
        /\ \E to \in {"read", "invalidate", "done"} : at' = [at EXCEPT ![c] = to]
    BY <1>4 DEF SendRequest, ReadResponse, Goes, Returns, Fails, GoesWith
  <2> QED
    BY <2>1, WaitKept DEF WaitInv
<1>5. ASSUME NEW c \in Calls, invalidate(c) PROVE WaitInv'
  <2>1. at[c] = "invalidate" /\ at' = [at EXCEPT ![c] = "done"] /\ UNCHANGED notified
    BY <1>5 DEF invalidate, Goes
  <2>2. state' = state \/ state' = [state EXCEPT !.current = NoConnection]
    BY <1>5 DEF invalidate
  <2>3. state'.reconnecting = state.reconnecting /\ state' \in StateType
    BY <2>2 DEF WaitInv, StateType, NoConnection
  <2> QED
    BY <2>1, <2>3, WaitKept DEF WaitInv
<1>6. ASSUME NEW c \in Calls, Cancel(c) PROVE WaitInv'
  <2>1. at[c] # "dial"
    BY <1>6 DEF Cancel, GoesWith, DialDropped, WaitInv
  <2>2. at[c] # "notify" /\ at' = [at EXCEPT ![c] = "done"] /\ UNCHANGED <<state, notified>>
    BY <1>6, <2>1 DEF Cancel, GoesWith
  <2> QED
    BY <2>1, <2>2, WaitKept DEF WaitInv
<1>7. ASSUME NEW c \in Calls, ServerStep(c) PROVE WaitInv'
  BY <1>7, WaitKept DEF ServerStep, ServerReceives, ServerAnswers, callVars, WaitInv
<1>8. CASE BackoffPasses \/ close
  <2>1. state'.reconnecting => state.reconnecting
    BY <1>8 DEF BackoffPasses, close, WaitInv, StateType
  <2> QED
    BY <1>8, <2>1, WaitKept DEF BackoffPasses, close, callVars, WaitInv, DialInv
<1>9. CASE CloseEndpoint
  BY <1>9, WaitKept DEF CloseEndpoint, notify_waiters, callVars, WaitInv
<1>10. CASE \E g \in alive : ConnectionLost(g)
  BY <1>10, WaitKept DEF ConnectionLost, callVars, WaitInv
<1>11. CASE UNCHANGED vars
  BY <1>11, WaitKept DEF vars, callVars, WaitInv
<1> QED
  BY <1>1, <1>2, <1>3, <1>4, <1>5, <1>6, <1>7, <1>8, <1>9, <1>10, <1>11,
     Wait_ensure_connection, WaitDialled, WaitTold DEF Next, CallStep

(* As long as no caller drops a request that dials, a request that waits    *)
(* and was not told yet has one that will tell it: no notification falls    *)
(* between the lock and the await.                                          *)
THEOREM NoLostNotification == Spec => []WaiterHasDialer
<1>1. Init => WaitInv
  <2> SUFFICES ASSUME Init PROVE WaitInv
    OBVIOUS
  <2>1. state \in StateType /\ ~ state.reconnecting
    BY ClientAssumption DEF Init, StateType, NoConnection
  <2> QED
    BY <2>1 DEF Init, WaitInv, HasDialer
<1>2. DialDropped \/ WaitInv => WaiterHasDialer
  BY DEF WaitInv, HasDialer, WaiterHasDialer
<1>3. ASSUME DialDropped \/ WaitInv, OutcomesInv, DialInv', [Next]_vars PROVE (DialDropped \/ WaitInv)'
  BY <1>3, DroppedStays, WaitNext
<1> QED
  BY <1>1, <1>2, <1>3, DialInit, DialNext, OutcomesInit, OutcomesNext, PTL DEF Spec

-----------------------------------------------------------------------------
(* The installed connection.                                                *)

(* A connection that still works is dropped only by close or by a request   *)
(* that failed on this very connection (invalidate compares generations).   *)
THEOREM KeepsNewer == Spec => NewerConnectionKept
<1> DEFINE Kept == \A g \in alive : state.current = g /\ state'.current # g =>
                     state'.closed \/ \E c \in Calls : at[c] = "invalidate" /\ using[c] = g
<1>1. ASSUME DialInv, [Next]_vars PROVE Kept
  <2> SUFFICES ASSUME state.current \in alive, state'.current # state.current
               PROVE  state'.closed \/ \E c \in Calls : at[c] = "invalidate" /\ using[c] = state.current
    OBVIOUS
  <2>1. \A c \in Calls : at[c] # "dial"
    BY <1>1 DEF DialInv
  <2>2. state \in StateType
    BY <1>1 DEF DialInv
  <2>3. ASSUME NEW c \in Calls, ensure_connection(c) \/ invalidate(c)
        PROVE  state'.closed \/ \E d \in Calls : at[d] = "invalidate" /\ using[d] = state.current
    BY <2>2, <2>3 DEF ensure_connection, invalidate, generation_is_current, StateType
  <2>4. CASE BackoffPasses
    BY <2>2, <2>4 DEF BackoffPasses, StateType
  <2>5. CASE close
    BY <2>2, <2>5 DEF close, StateType
  <2>6. ASSUME UNCHANGED state PROVE FALSE
    BY <2>6
  <2>7. ASSUME NEW c \in Calls, Park(c) \/ Again(c) \/ DialNotifies(c) \/ SendRequest(c) \/ ReadResponse(c)
                                \/ Cancel(c) \/ ServerStep(c) \/ \E asked \in Kinds : execute(c, asked)
        PROVE  UNCHANGED state
    BY <2>7 DEF Park, Again, DialNotifies, SendRequest, ReadResponse, Cancel, ServerStep, ServerReceives, ServerAnswers, execute
  <2>8. ASSUME CloseEndpoint \/ (\E g \in alive : ConnectionLost(g)) \/ UNCHANGED vars PROVE UNCHANGED state
    BY <2>8 DEF CloseEndpoint, ConnectionLost, vars
  <2> QED
    BY <1>1, <2>1, <2>3, <2>4, <2>5, <2>6, <2>7, <2>8 DEF Next, CallStep, DialConnects, DialFails
<1> QED
  BY <1>1, DialInit, DialNext, PTL DEF Spec, NewerConnectionKept

=============================================================================

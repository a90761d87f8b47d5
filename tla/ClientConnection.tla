-------------------------- MODULE ClientConnection --------------------------
(***************************************************************************)
(* The connection manager shared by the tenant handles of one client        *)
(* (dodb-client): every request first ensures a connection, of which at     *)
(* most one is dialled at a time, then runs on a stream of its own.  A      *)
(* request whose stream failed invalidates the connection it used, unless a *)
(* newer one is installed.  Nothing is ever sent twice.                     *)
(*                                                                         *)
(* Requests run on any thread; the state below is behind a mutex, so each   *)
(* locked section is one step.  The server is present as what it does to    *)
(* one stream: it receives the frame, runs it to the end even when the      *)
(* connection is gone, and answers or gives up the stream.                  *)
(***************************************************************************)
EXTENDS Naturals, FiniteSets

CONSTANTS
  Calls,          \* requests, each made once
  Kinds,          \* which of "read" and "mutation" are asked
  EarlierFailures \* numbers of dials that may have failed before these requests

ASSUME ClientAssumption ==
  Kinds \subseteq {"read", "mutation"} /\ EarlierFailures \subseteq Nat /\ EarlierFailures # {}

VARIABLES
  state,     \* ConnectionState: current, generation, reconnecting, failures, next_attempt_at, closed
  delay,     \* milliseconds from the last failed dial to next_attempt_at
  alive,     \* generations of the connections without a close reason
  endpoint,  \* whether the endpoint is open
  at, kind,  \* per request: where it is, what it is
  using,     \* per request: the generation of the connection it was given
  result,    \* per request: what its caller is told
  notified,  \* requests whose reconnect_notify future has completed
  stream,    \* per request: what the server has done with its stream
  applied    \* per request: how often the server has applied it

callVars == <<at, kind, using, result>>
serverVars == <<stream, applied>>
vars == <<state, delay, alive, endpoint, callVars, notified, serverVars>>

NoConnection == 0

RECONNECT_BACKOFF_BASE == 50
RECONNECT_BACKOFF_MAX == 1000

reconnect_delay(failures) ==
  LET shift == IF failures = 0 THEN 0 ELSE IF failures - 1 > 5 THEN 5 ELSE failures - 1
      product == RECONNECT_BACKOFF_BASE * 2 ^ shift
  IN IF product > RECONNECT_BACKOFF_MAX THEN RECONNECT_BACKOFF_MAX ELSE product

(* An error that says nothing of the server's side spoils the connection; a *)
(* structured answer, whatever it says, does not.                           *)
invalidates_connection(outcome) == outcome \in {"Endpoint", "Transport", "Protocol", "UnknownMutationOutcome"}

uncertain(asked, outcome) == IF asked = "mutation" THEN "UnknownMutationOutcome" ELSE outcome

Goes(c, to) == at' = [at EXCEPT ![c] = to] /\ UNCHANGED <<kind, using, result>>
Uses(c, to, g) ==
  at' = [at EXCEPT ![c] = to] /\ using' = [using EXCEPT ![c] = g] /\ UNCHANGED <<kind, result>>
GoesWith(c, to, outcome) ==
  at' = [at EXCEPT ![c] = to] /\ result' = [result EXCEPT ![c] = outcome] /\ UNCHANGED <<kind, using>>
Returns(c, outcome) == GoesWith(c, "done", outcome)
Fails(c, outcome) == GoesWith(c, IF invalidates_connection(outcome) THEN "invalidate" ELSE "done", outcome)

-----------------------------------------------------------------------------
(* Ensuring a connection.                                                   *)

(* A request that does not fit its frame is refused before anything is      *)
(* sent; the others create the future that notify_waiters completes.        *)
execute(c, asked) ==
  /\ at[c] = "idle"
  /\ kind' = [kind EXCEPT ![c] = asked]
  /\ \/ at' = [at EXCEPT ![c] = "ensure"] /\ UNCHANGED result
     \/ at' = [at EXCEPT ![c] = "done"] /\ result' = [result EXCEPT ![c] = "Protocol"]
  /\ UNCHANGED <<using, state, delay, alive, endpoint, notified, serverVars>>

ensure_connection_unflagged(c) ==   \* a dial is not announced to the others
  /\ at[c] = "ensure"
  /\ IF state.closed THEN Returns(c, "Endpoint") /\ UNCHANGED state
     ELSE IF state.current \in alive
     THEN Uses(c, "open", state.current) /\ UNCHANGED state
     ELSE IF state.next_attempt_at = "later"
     THEN Goes(c, "sleep") /\ state' = [state EXCEPT !.current = NoConnection]
     ELSE Goes(c, "dial") /\ state' = [state EXCEPT !.current = NoConnection, !.next_attempt_at = "none"]
  /\ UNCHANGED <<delay, alive, endpoint, notified, serverVars>>
(* The locked section: the installed connection when it is still usable,    *)
(* else wait for the request that dials, sleep out the back-off, or dial.   *)
ensure_connection(c) ==
  /\ at[c] = "ensure"
  /\ IF state.closed THEN Returns(c, "Endpoint") /\ UNCHANGED state
     ELSE IF state.current \in alive
     THEN Uses(c, "open", state.current) /\ UNCHANGED state
     ELSE IF state.reconnecting
     THEN Goes(c, "wait") /\ state' = [state EXCEPT !.current = NoConnection]
     ELSE IF state.next_attempt_at = "later"
     THEN Goes(c, "sleep") /\ state' = [state EXCEPT !.current = NoConnection]
     ELSE /\ Goes(c, "dial")
          /\ state' = [state EXCEPT !.current = NoConnection, !.next_attempt_at = "none",
                                    !.reconnecting = TRUE]
  /\ UNCHANGED <<delay, alive, endpoint, notified, serverVars>>

(* notified.await: the request parks until the future completes, then goes  *)
(* round the loop with a new one.                                           *)
Park(c) ==
  /\ at[c] = "wait"
  /\ Goes(c, "parked")
  /\ UNCHANGED <<state, delay, alive, endpoint, notified, serverVars>>

Again(c) ==
  /\ \/ at[c] = "parked" /\ c \in notified
     \/ at[c] = "sleep" /\ state.next_attempt_at # "later"
  /\ Goes(c, "ensure")
  /\ notified' = notified \ {c}
  /\ UNCHANGED <<state, delay, alive, endpoint, serverVars>>

(* The clock reaches next_attempt_at.                                       *)
BackoffPasses ==
  /\ state.next_attempt_at = "later"
  /\ state' = [state EXCEPT !.next_attempt_at = "due"]
  /\ UNCHANGED <<delay, alive, endpoint, callVars, notified, serverVars>>

registered_when_polled(c) == at[c] = "parked"   \* the future exists only once awaited
registered(c) == at[c] \in {"ensure", "wait", "parked", "sleep"}
notify_waiters == notified' = notified \cup {c \in Calls : registered(c)}

(* The dial ends; its result is installed or recorded under the lock.       *)
DialConnects_unchecked(c) ==   \* closed is not looked at again
  /\ at[c] = "dial"
  /\ state' = [state EXCEPT !.reconnecting = FALSE, !.failures = 0, !.next_attempt_at = "none",
                            !.generation = @ + 1, !.current = state.generation + 1]
  /\ alive' = alive \cup {state.generation + 1}
  /\ Uses(c, "notify", state.generation + 1)
  /\ UNCHANGED <<delay, endpoint, notified, serverVars>>
DialConnects(c) ==
  /\ at[c] = "dial"
  /\ IF state.closed
     THEN /\ state' = [state EXCEPT !.reconnecting = FALSE]
          /\ GoesWith(c, "notify", "Endpoint")
          /\ UNCHANGED alive
     ELSE
          /\ state' = [state EXCEPT !.reconnecting = FALSE, !.failures = 0, !.next_attempt_at = "none",
                                    !.generation = @ + 1, !.current = state.generation + 1]
          /\ alive' = alive \cup {state.generation + 1}
          /\ Uses(c, "notify", state.generation + 1)
  /\ UNCHANGED <<delay, endpoint, notified, serverVars>>

DialFails(c) ==
  /\ at[c] = "dial"
  /\ IF state.closed
     THEN state' = [state EXCEPT !.reconnecting = FALSE] /\ UNCHANGED delay
     ELSE /\ state' = [state EXCEPT !.reconnecting = FALSE, !.failures = @ + 1, !.next_attempt_at = "later"]
          /\ delay' = reconnect_delay(state.failures + 1)
  /\ \E outcome \in {"Transport", "Endpoint"} : GoesWith(c, "notify", outcome)
  /\ UNCHANGED <<alive, endpoint, notified, serverVars>>

(* The waiting requests are told after the lock is released.                *)
DialNotifies(c) ==
  /\ at[c] = "notify"
  /\ notify_waiters
  /\ Goes(c, IF result[c] = "none" THEN "open" ELSE "done")
  /\ UNCHANGED <<state, delay, alive, endpoint, serverVars>>

-----------------------------------------------------------------------------
(* One request on its stream.                                               *)

(* open_bi, write_all and finish: the frame is on its way, or the           *)
(* connection was lost and part of it may have been.                        *)
SendRequest(c) ==
  /\ at[c] = "open"
  /\ \/ /\ using[c] \in alive
        /\ Goes(c, "read")
        /\ stream' = [stream EXCEPT ![c] = "sent"]
     \/ /\ using[c] \notin alive
        /\ Fails(c, uncertain(kind[c], "Transport"))
        /\ UNCHANGED stream
  /\ UNCHANGED <<state, delay, alive, endpoint, notified, applied>>

ReadResponse_waiting(c) ==   \* a lost connection leaves the reader waiting
  /\ at[c] = "read" /\ using[c] \in alive
  /\ \/ stream[c] = "ok" /\ Returns(c, "ok")
     \/ stream[c] = "refused" /\ Returns(c, "Application")
  /\ UNCHANGED <<state, delay, alive, endpoint, notified, serverVars>>
ReadResponse_certain(c) ==   \* a lost answer is reported as a transport error
  /\ at[c] = "read"
  /\ IF using[c] \in alive
     THEN stream[c] = "ok" /\ Returns(c, "ok")
     ELSE Fails(c, "Transport")
  /\ UNCHANGED <<state, delay, alive, endpoint, notified, serverVars>>
(* The answer is read to its end, or the stream or the connection ends      *)
(* before, or the frame is one this client does not accept.                 *)
ReadResponse(c) ==
  /\ at[c] = "read"
  /\ IF using[c] \in alive
     THEN \/ stream[c] = "ok" /\ Returns(c, "ok")
          \/ stream[c] = "refused" /\ Returns(c, "Application")
          \/ /\ stream[c] = "unknown"
             /\ Returns(c, IF kind[c] = "mutation" THEN "UnknownWithCause" ELSE "Application")
          \/ stream[c] = "silent" /\ Fails(c, uncertain(kind[c], "Transport"))
          \/ stream[c] = "unreadable" /\ Fails(c, uncertain(kind[c], "Protocol"))
     ELSE Fails(c, uncertain(kind[c], "Transport"))
  /\ UNCHANGED <<state, delay, alive, endpoint, notified, serverVars>>

invalidate_any(c) ==   \* whatever is installed is taken down
  /\ at[c] = "invalidate"
  /\ state' = [state EXCEPT !.current = NoConnection]
  /\ alive' = alive \ {state.current}
  /\ Goes(c, "done")
  /\ UNCHANGED <<delay, endpoint, notified, serverVars>>
generation_is_current(c) == state.current = using[c]
invalidate(c) ==
  /\ at[c] = "invalidate"
  /\ IF state.closed \/ ~generation_is_current(c)
     THEN UNCHANGED <<state, alive>>
     ELSE state' = [state EXCEPT !.current = NoConnection] /\ alive' = alive \ {state.current}
  /\ Goes(c, "done")
  /\ UNCHANGED <<delay, endpoint, notified, serverVars>>

(* The caller drops the request at an await; what was sent stays sent, and  *)
(* a dial that is dropped leaves reconnecting as it is.                     *)
Cancel(c) ==
  /\ at[c] \in {"parked", "sleep", "open", "read", "dial"}
  /\ GoesWith(c, IF at[c] = "dial" THEN "dropped" ELSE "done", "cancelled")
  /\ UNCHANGED <<state, delay, alive, endpoint, notified, serverVars>>

-----------------------------------------------------------------------------
(* Closing, the network and the server.                                     *)

close ==
  /\ ~state.closed
  /\ state' = [state EXCEPT !.closed = TRUE, !.reconnecting = FALSE, !.next_attempt_at = "none",
                            !.current = NoConnection]
  /\ UNCHANGED <<delay, alive, endpoint, callVars, notified, serverVars>>

(* The endpoint takes every connection down with it.                        *)
CloseEndpoint ==
  /\ state.closed /\ endpoint
  /\ endpoint' = FALSE
  /\ alive' = {}
  /\ notify_waiters
  /\ UNCHANGED <<state, delay, callVars, serverVars>>

ConnectionLost(g) ==
  /\ alive' = alive \ {g}
  /\ UNCHANGED <<state, delay, endpoint, callVars, notified, serverVars>>

ServerReceives(c) ==
  /\ stream[c] = "sent" /\ using[c] \in alive
  /\ stream' = [stream EXCEPT ![c] = "serving"]
  /\ UNCHANGED <<state, delay, alive, endpoint, callVars, notified, applied>>

(* The service runs the request and answers as far as the stream still      *)
(* carries it: a success, a definite refusal, an uncertain failure, a frame *)
(* beyond the client's limit, or nothing.                                   *)
ServerAnswers(c) ==
  /\ stream[c] = "serving"
  /\ \E answer \in {"ok", "refused", "unknown", "unreadable", "silent"}, applies \in BOOLEAN :
       /\ applies => kind[c] = "mutation" /\ answer # "refused"
       /\ answer = "ok" /\ kind[c] = "mutation" => applies
       /\ stream' = [stream EXCEPT ![c] = answer]
       /\ applied' = [applied EXCEPT ![c] = IF applies THEN @ + 1 ELSE @]
  /\ UNCHANGED <<state, delay, alive, endpoint, callVars, notified>>

-----------------------------------------------------------------------------

(* from_endpoint, or the same after some dials of earlier requests failed.  *)
Init ==
  /\ \E failures \in EarlierFailures :
       /\ state = [current |-> NoConnection, generation |-> 0, reconnecting |-> FALSE, failures |-> failures,
                   next_attempt_at |-> IF failures = 0 THEN "none" ELSE "later", closed |-> FALSE]
       /\ delay = IF failures = 0 THEN 0 ELSE reconnect_delay(failures)
  /\ alive = {} /\ endpoint = TRUE
  /\ at = [c \in Calls |-> "idle"] /\ kind = [c \in Calls |-> "read"]
  /\ using = [c \in Calls |-> NoConnection] /\ result = [c \in Calls |-> "none"]
  /\ notified = {}
  /\ stream = [c \in Calls |-> "none"] /\ applied = [c \in Calls |-> 0]

(* What the runtime runs for a request that its caller still awaits.        *)
CallStep(c) ==
  \/ ensure_connection(c) \/ Park(c) \/ Again(c)
  \/ DialConnects(c) \/ DialFails(c) \/ DialNotifies(c)
  \/ SendRequest(c) \/ ReadResponse(c) \/ invalidate(c)

ServerStep(c) == ServerReceives(c) \/ ServerAnswers(c)

Next ==
  \/ \E c \in Calls :
       \/ \E asked \in Kinds : execute(c, asked)
       \/ CallStep(c) \/ ServerStep(c) \/ Cancel(c)
  \/ BackoffPasses \/ close \/ CloseEndpoint
  \/ \E g \in alive : ConnectionLost(g)

Spec == Init /\ [][Next]_vars

(* A request that can run is run, a dial ends (the handshake times out),    *)
(* the clock goes on, the server works on what it received.                 *)
FairSpec ==
  /\ Spec
  /\ \A c \in Calls : WF_vars(CallStep(c)) /\ WF_vars(ServerStep(c))
  /\ WF_vars(BackoffPasses) /\ WF_vars(CloseEndpoint)

-----------------------------------------------------------------------------
(* Properties.                                                              *)

(* Requests that find no connection share one dial, and while it runs       *)
(* nothing is installed (reconnecting, in ensure_connection and dial).      *)
OneDial ==
  /\ \A c, d \in Calls : at[c] = "dial" /\ at[d] = "dial" => c = d
  /\ (\E c \in Calls : at[c] = "dial") => state.current = NoConnection

(* What a mutation's caller is told is true for good: success means it was  *)
(* applied, a refusal, a transport or a protocol error that it never will   *)
(* be, also when the server still works on a stream nobody reads; and       *)
(* nothing is applied twice (execute does not retry).                       *)
OutcomesTrue ==
  \A c \in Calls :
    /\ applied[c] <= 1
    /\ kind[c] = "mutation" =>
         /\ result[c] = "ok" => applied[c] = 1
         /\ result[c] = "Application" => applied[c] = 0 /\ stream[c] = "refused"
         /\ result[c] \in {"Endpoint", "Transport", "Protocol"} => stream[c] = "none" /\ applied[c] = 0

(* A connection that still works is dropped only by close or by a request   *)
(* that failed on this very connection, never by a late failure of an older *)
(* one (invalidate compares generations).                                   *)
NewerConnectionKept ==
  [][\A g \in alive : state.current = g /\ state'.current # g =>
        state'.closed \/ \E c \in Calls : at[c] = "invalidate" /\ using[c] = g]_vars

(* close is final: nothing is installed after it, not even by a dial that   *)
(* was under way, and no connection outlives the endpoint.                  *)
ClosedForGood ==
  /\ state.closed => state.current = NoConnection
  /\ ~endpoint => state.closed /\ alive = {}

DialDropped == \E c \in Calls : at[c] = "dropped"

(* As long as no caller has dropped a request that dials, a request that    *)
(* waits and was not told yet has one that will tell it: no notification is *)
(* lost between the lock and the await (reconnect_notify).                  *)
WaiterHasDialer ==
  ~DialDropped => \A c \in Calls :
    at[c] \in {"wait", "parked"} /\ c \notin notified =>
      \E d \in Calls : at[d] \in {"dial", "notify"}

(* Every request returns: waiting, sleeping and dialling all end, whatever  *)
(* is lost, closed or dropped meanwhile, unless a dial was dropped.         *)
EveryCallReturns == \A c \in Calls : at[c] = "ensure" ~> at[c] = "done" \/ DialDropped

=============================================================================

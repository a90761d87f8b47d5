----------------------------- MODULE QuicServer -----------------------------
(***************************************************************************)
(* DodbServer (dodb-server) over the tenant service: connections accepted   *)
(* within connection_slots, one stream per request served within            *)
(* request_slots by a task of its own, and shutdown, which closes the       *)
(* endpoint, waits for the connections and shuts the service down.  What    *)
(* quinn does is modelled as far as the server observes it.                 *)
(***************************************************************************)
EXTENDS TenantService

CONSTANTS
  Connections,
  ConnectionOf,            \* the connection each request is sent on
  MaxConnections, MaxConcurrentRequests,
  Server                   \* the one caller of shutdown

ASSUME ServerAssumption ==
  /\ ConnectionOf \in [Requests -> Connections] /\ Closers = {Server}
  /\ MaxConnections \in Nat \ {0} /\ MaxConcurrentRequests \in Nat \ {0}

VARIABLES
  endpoint,      \* "open", "closed", or "down" after shutdown began to await the service
  connection,    \* per connection, as quinn sees it: "none", "incoming", "open", "closed"
  acceptor,      \* per connection, its serve_connection task: where it is, the stream it holds
  stream         \* per request: "none", "opened", "serving", "stalled" on its client, "ended"

serverVars == <<endpoint, connection, acceptor, stream>>
allVars == <<vars, serverVars>>

NoStream == "no stream"
AcceptorAt(c, place, r) == acceptor' = [acceptor EXCEPT ![c] = [at |-> place, stream |-> r]]

(* Permits are given back when their holder is dropped.                     *)
ConnectionPermits == {c \in Connections : acceptor[c].at \in {"handshake", "accepting", "acquiring"}}
RequestPermits == {r \in Requests : stream[r] \in {"serving", "stalled"}}

-----------------------------------------------------------------------------
(* Connections.                                                             *)

(* run: a connection beyond the limit is refused.                           *)
run(c) ==
  /\ endpoint = "open" /\ connection[c] = "none"
  /\ IF Cardinality(ConnectionPermits) < MaxConnections
     THEN connection' = [connection EXCEPT ![c] = "incoming"] /\ AcceptorAt(c, "handshake", NoStream)
     ELSE connection' = [connection EXCEPT ![c] = "closed"] /\ UNCHANGED acceptor
  /\ UNCHANGED <<vars, endpoint, stream>>

serve_connection(c) ==
  /\ acceptor[c].at = "handshake"
  /\ \/ connection[c] = "incoming" /\ connection' = [connection EXCEPT ![c] = "open"] /\ AcceptorAt(c, "accepting", NoStream)
     \/ connection' = [connection EXCEPT ![c] = "closed"] /\ AcceptorAt(c, "ended", NoStream)
  /\ UNCHANGED <<vars, endpoint, stream>>

ConnectionLost(c) ==
  /\ connection[c] = "open"
  /\ connection' = [connection EXCEPT ![c] = "closed"]
  /\ UNCHANGED <<vars, endpoint, acceptor, stream>>

ClientOpensStream(r) ==
  /\ stream[r] = "none" /\ connection[ConnectionOf[r]] = "open"
  /\ stream' = [stream EXCEPT ![r] = "opened"]
  /\ UNCHANGED <<vars, endpoint, connection, acceptor>>

-----------------------------------------------------------------------------
(* Streams.                                                                 *)

(* accept_streams takes a stream and waits for a request permit; it ends    *)
(* with its connection wherever it waits.                                   *)
accept_streams(c) ==
  /\ \/ \E r \in Requests :
          /\ acceptor[c].at = "accepting" /\ ConnectionOf[r] = c /\ stream[r] = "opened"
          /\ AcceptorAt(c, "acquiring", r) /\ UNCHANGED stream
     \/ /\ acceptor[c].at = "acquiring" /\ Cardinality(RequestPermits) < MaxConcurrentRequests
        /\ stream' = [stream EXCEPT ![acceptor[c].stream] = "serving"]
        /\ AcceptorAt(c, "accepting", NoStream)
     \/ /\ acceptor[c].at \in {"accepting", "acquiring"} /\ connection[c] = "closed"
        /\ AcceptorAt(c, "ended", NoStream) /\ UNCHANGED stream
  /\ UNCHANGED <<vars, endpoint, connection>>

Closed(r) == connection[ConnectionOf[r]] = "closed"
StreamGoes(r, place) == stream' = [stream EXCEPT ![r] = place] /\ UNCHANGED <<endpoint, connection, acceptor>>

(* The task of a stream reads the request and has it executed.  It ends     *)
(* when the frame is cut short, reset or followed by more, when it cannot   *)
(* be decoded, which is answered, and when the connection is closed.        *)
(* Nothing else stops it when its connection closes.                        *)
serve_stream(r) ==
  /\ stream[r] = "serving" /\ at[r] = "idle"
  /\ \/ execute_request(r) /\ UNCHANGED serverVars
     \/ StreamGoes(r, "ended") /\ UNCHANGED vars
Serve(r) == stream[r] = "serving" /\ Step(r) /\ UNCHANGED serverVars
StreamEnds_leaking(r) ==   \* an answer that cannot be sent keeps its permit
  /\ stream[r] = "serving" /\ at[r] = "done" /\ ~Closed(r)
  /\ StreamGoes(r, "ended") /\ UNCHANGED vars
(* The answer is written, or cannot be; the permit is dropped with the task.*)
StreamEnds(r) ==
  /\ stream[r] = "serving" /\ at[r] = "done"
  /\ StreamGoes(r, "ended") /\ UNCHANGED vars

(* A client that sends no more of its request, or does not take the answer, *)
(* stalls the task, which reads and writes without a timeout, until the     *)
(* client goes on or the connection is closed.                              *)
ClientStalls(r) ==
  /\ stream[r] = "serving" /\ at[r] \in {"idle", "done"} /\ ~Closed(r)
  /\ StreamGoes(r, "stalled") /\ UNCHANGED vars
StallEnds(r) ==
  /\ stream[r] = "stalled"
  /\ StreamGoes(r, "serving") /\ UNCHANGED vars

-----------------------------------------------------------------------------
(* DodbServer::shutdown.                                                    *)

close_accepting ==   \* only new connections are turned away
  /\ endpoint = "open"
  /\ endpoint' = "closed"
  /\ connection' = [c \in Connections |-> IF connection[c] = "none" THEN "closed" ELSE connection[c]]
  /\ UNCHANGED <<vars, acceptor, stream>>
(* close: the endpoint and every connection.                                *)
close ==
  /\ endpoint = "open"
  /\ endpoint' = "closed"
  /\ connection' = [c \in Connections |-> "closed"]
  /\ UNCHANGED <<vars, acceptor, stream>>
(* wait_idle knows the connections, not the tasks of their streams.         *)
WaitIdle ==
  /\ endpoint = "closed" /\ \A c \in Connections : connection[c] = "closed"
  /\ endpoint' = "down" /\ shutdown(Server)
  /\ UNCHANGED <<connection, acceptor, stream>>
ServiceShutdown == (Close(Server) \/ \E n \in Requests : CoordinatorStops(n)) /\ UNCHANGED serverVars

-----------------------------------------------------------------------------

ServerInit ==
  /\ Init
  /\ endpoint = "open"
  /\ connection = [c \in Connections |-> "none"]
  /\ acceptor = [c \in Connections |-> [at |-> "none", stream |-> NoStream]]
  /\ stream = [r \in Requests |-> "none"]

ServerNext ==
  \/ \E c \in Connections : run(c) \/ serve_connection(c) \/ ConnectionLost(c) \/ accept_streams(c)
  \/ \E r \in Requests : ClientOpensStream(r) \/ serve_stream(r) \/ Serve(r) \/ StreamEnds(r)
                           \/ ClientStalls(r) \/ StallEnds(r)
  \/ close \/ WaitIdle \/ ServiceShutdown

ServerSpec == ServerInit /\ [][ServerNext]_allVars

(* Spawned tasks run.  Nothing is assumed of the clients: a handshake or a  *)
(* stall may last as long as its connection, and that forever.              *)
HandshakeFails(c) == connection[c] = "closed" /\ serve_connection(c)
StallFails(r) == Closed(r) /\ StallEnds(r)
ServerFairSpec ==
  /\ ServerSpec
  /\ \A c \in Connections : WF_allVars(HandshakeFails(c)) /\ WF_allVars(accept_streams(c))
  /\ \A r \in Requests :
       /\ WF_allVars(serve_stream(r)) /\ WF_allVars(StreamEnds(r)) /\ WF_allVars(StallFails(r))
       /\ WF_allVars(Serve(r)) /\ SF_allVars(LockRegistry(r) /\ UNCHANGED serverVars)
  /\ WF_allVars(WaitIdle) /\ WF_allVars(ServiceShutdown)
  /\ SF_allVars(ShutdownTakes(Server) /\ UNCHANGED serverVars)

-----------------------------------------------------------------------------
(* Properties.                                                              *)

(* No permit is lost to a connection that went away, whatever its clients   *)
(* did: the task of every stream, and of the connection, ends after it,     *)
(* also when it waits for a permit.  And a stream on an open connection is  *)
(* served to its end, unless a client stalls a stream that holds a permit:  *)
(* serve_stream reads and writes without a timeout.                         *)
EveryTaskEnds ==
  /\ \A r \in Requests : r \in RequestPermits /\ Closed(r) ~> stream[r] = "ended"
  /\ \A c \in Connections : acceptor[c].at # "none" /\ connection[c] = "closed" ~> acceptor[c].at = "ended"
  /\ \A r \in Requests :
       stream[r] \in {"opened", "serving"} ~>
         stream[r] = "ended" \/ Closed(r) \/ \E q \in Requests : stream[q] = "stalled"

(* DodbServer::shutdown returns, with requests in any state.                *)
ShutdownCompletes == endpoint = "closed" ~> closer[Server] = "returned"

=============================================================================

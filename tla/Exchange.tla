------------------------------ MODULE Exchange ------------------------------
(***************************************************************************)
(* One request and its answer across the wire: the client encodes, the      *)
(* server's stream task reads, decodes, runs the service and answers        *)
(* (serve_stream), the client reads the answer (execute_on_connection).     *)
(* Either direction may be cut off anywhere, the two sides may have         *)
(* different limits, and the client may speak another protocol version.     *)
(***************************************************************************)
EXTENDS WireProtocol

CONSTANTS
  Requests,      \* what may be asked
  States,        \* what a get may find
  Documents,     \* what a query or scan may find, in key order
  Actuals,       \* what a conflict may have observed
  Details,       \* texts of service errors: length in characters and in bytes
  ClientLimits, ServerLimits,
  Versions       \* protocol versions of clients

(* Both sides start only with limits that pass ProtocolLimits::validate.     *)
ASSUME LimitsAssumption == \A limits \in ClientLimits \cup ServerLimits : valid_limits(limits)

VARIABLES
  step, asked, client, server,   \* where the exchange is; the request; both sides' limits
  wire,                          \* the frame under way, or None
  served,                        \* what the server decoded
  result,                        \* what the service returned
  applied,                       \* whether the request has changed the shard
  told                           \* what the caller is told

vars == <<step, asked, client, server, wire, served, result, applied, told>>
sides == <<asked, client, server>>

TenantIds == {7}
NoResult == [ok |-> FALSE]

Mutates(request) ==
  request.op \in {"put", "delete"} \/ (request.op = "transact" /\ request.mutations # <<>>)

(* Prefixes the reader on the other side may be left with.                  *)
Cut(frame) == {[frame EXCEPT !.fields = SubSeq(@, 1, n)] : n \in 0..Len(frame.fields) - 1}

-----------------------------------------------------------------------------
(* ResponseBudget.                                                          *)

RESPONSE_WIRE_OVERHEAD == 17
RESPONSE_MEMORY_OVERHEAD == 64 * 1024

NewBudget(maximum) ==
  [wire |-> RESPONSE_WIRE_OVERHEAD, memory |-> 0,
   within |-> maximum >= RESPONSE_WIRE_OVERHEAD]
reserve(budget, maximum, wire_bytes, memory) ==
  [wire |-> budget.wire + wire_bytes, memory |-> budget.memory + memory,
   within |-> /\ budget.within
              /\ budget.wire + wire_bytes <= maximum
              /\ budget.memory + memory <= maximum + RESPONSE_MEMORY_OVERHEAD]

reserve_state(budget, maximum, value_len) == reserve(budget, maximum, 1 + 4 + value_len + 8, value_len + 32)
reserve_document_payload(budget, maximum, document) ==   \* the length prefixes are forgotten
  LET lengths == document.key.pk.len + document.key.sk.len + document.value.len
  IN reserve(budget, maximum, lengths + 8, lengths + 64)
reserve_document(budget, maximum, document) ==
  LET lengths == document.key.pk.len + document.key.sk.len + document.value.len
  IN reserve(budget, maximum, lengths + 20, lengths + 64)

(* Whether a read result is handed out within the response limit.           *)
Admitted(response, maximum) ==
  CASE response.op = "get" ->
         reserve_state(NewBudget(maximum), maximum,
                       IF response.state.present THEN response.state.value.len ELSE 0).within
    [] response.op \in {"query", "scan"} ->
         FoldLeft(LAMBDA budget, document : reserve_document(budget, maximum, document),
                  NewBudget(maximum), response.documents).within

-----------------------------------------------------------------------------
(* Errors.                                                                  *)

(* The category and the mutation outcome of each core error.                *)
CoreErrors ==
  [InvalidInput |-> <<"InvalidRequest", "NotApplied">>, InvalidRequest |-> <<"InvalidRequest", "NotApplied">>,
   Overloaded |-> <<"Overloaded", "NotApplied">>, Conflict |-> <<"Conflict", "NotApplied">>,
   ResponseTooLarge |-> <<"ResponseTooLarge", "NotApplied">>, Corruption |-> <<"Corruption", "Unknown">>,
   Io |-> <<"StorageFailure", "Unknown">>, UnsupportedFormat |-> <<"StorageFailure", "Unknown">>,
   RecoveryFailure |-> <<"StorageFailure", "Unknown">>, CheckpointFailure |-> <<"StorageFailure", "Unknown">>,
   DurabilityFailure |-> <<"DurabilityFailure", "Unknown">>,
   InternalInvariantViolation |-> <<"Internal", "Unknown">>]

from_core(error) ==
  [kind |-> CoreErrors[error.name][1], detail |-> error.detail,
   mutation_outcome |-> CoreErrors[error.name][2], conflict |-> error.conflict]
from_core_for_request(error, is_mutation) ==
  IF is_mutation THEN from_core(error) ELSE [from_core(error) EXCEPT !.mutation_outcome = "NotApplicable"]

(* The text of a protocol error, with numbers of three digits.              *)
to_string(error) ==
  LET length == CASE error = "PayloadTooLarge" -> 38 [] error = "KeyTooLarge" -> 42
                  [] error = "UnsupportedVersion" -> 30 [] OTHER -> 25
  IN [id |-> error, len |-> length, chars |-> length, zeros |-> 0]
from_protocol(error) ==
  [kind |-> IF error \in {"UnsupportedVersion", "UnknownMessageType"} THEN "UnsupportedProtocol"
            ELSE "InvalidRequest",
   detail |-> to_string(error), mutation_outcome |-> "NotApplied", conflict |-> <<>>]

(* An error that cannot be encoded either leaves the stream unanswered.     *)
send_protocol_error(error) ==
  LET frame == encode_response([success |-> FALSE, error |-> from_protocol(error)], server)
  IN /\ wire' = IF frame.error = None THEN frame ELSE [error |-> "silent"]
     /\ step' = "answered"

-----------------------------------------------------------------------------
(* The steps.                                                               *)

Init ==
  /\ step = "asked" /\ asked \in [tenant : TenantIds, request : Requests]
  /\ client \in ClientLimits /\ server \in ServerLimits
  /\ wire = [error |-> None] /\ served = <<>> /\ result = NoResult
  /\ applied = FALSE /\ told = <<>>

(* A request beyond the client's own limits is refused before it is sent.   *)
ClientSends ==
  /\ step = "asked"
  /\ LET frame == encode_request(asked.tenant, asked.request, client) IN
     IF frame.error # None
     THEN /\ told' = <<[success |-> FALSE, error |-> "Protocol"]>> /\ step' = "done"
          /\ UNCHANGED wire
     ELSE /\ \E version \in Versions, whole \in {frame} \cup Cut(frame) :
               wire' = [whole EXCEPT !.version = version]
          /\ step' = "sent" /\ UNCHANGED told
  /\ UNCHANGED <<sides, served, result, applied>>

(* serve_stream up to the service: a bad header or request is answered, a   *)
(* frame that ends early is not.                                            *)
ServerReads ==
  /\ step = "sent"
  /\ LET header == decode_header(wire)
     IN IF header # None THEN send_protocol_error(header) /\ UNCHANGED served
        ELSE IF HEADER_SIZE + wire.payload_length > server.max_request_frame_size
        THEN send_protocol_error("PayloadTooLarge") /\ UNCHANGED served
        ELSE IF Size(wire.fields) < wire.payload_length
        THEN wire' = [error |-> "silent"] /\ step' = "answered" /\ UNCHANGED served
        ELSE \E request \in {decode_request_parts(wire, server)} :
               IF request.error # None THEN send_protocol_error(request.error) /\ UNCHANGED served
               ELSE served' = <<Latest(request)>> /\ step' = "serving" /\ UNCHANGED wire
  /\ UNCHANGED <<sides, result, applied, told>>

Failure(name, detail, conflict) == [ok |-> FALSE, error |-> [name |-> name, detail |-> detail, conflict |-> conflict]]
TooLarge == [id |-> "budget", len |-> 40, chars |-> 40, zeros |-> 0]
ConflictText == [id |-> "conflict", len |-> 30, chars |-> 30, zeros |-> 0]

(* A read is admitted by its response budget or refused with                *)
(* ResponseTooLarge; it may also fail.                                      *)
ServiceReads(request) ==
  \E found \in
       CASE request.op = "get" -> [op : {"get"}, state : States]
         [] request.op \in {"query", "scan"} ->
              {[op |-> request.op, documents |-> SubSeq(Documents, 1, n)] :
                 n \in {m \in 0..Len(Documents) : m <= request.limit}}
         [] OTHER -> {[op |-> "transact", commit_lsn |-> <<>>]} :
    result' = IF found.op = "transact" \/ Admitted(found, server.max_response_frame_size)
              THEN [ok |-> TRUE, response |-> found]
              ELSE Failure("ResponseTooLarge", TooLarge, <<>>)

ServiceWrites(request) ==
  result' = [ok |-> TRUE, response |->
               IF request.op = "transact" THEN [op |-> "transact", commit_lsn |-> <<5>>]
               ELSE [op |-> request.op, revision |-> 5]]

(* Refusals are given before anything is appended to the WAL: by            *)
(* apply_transaction_group for one request of a group, and by a full queue. *)
(* Behind any other failure a mutation may have been applied.               *)
Refusals == {"Conflict", "InvalidRequest", "InvalidInput", "Overloaded"}
ServiceFails(request) ==
  \E name \in DOMAIN CoreErrors, detail \in Details :
    /\ name # "ResponseTooLarge"
    /\ IF name = "Conflict"
       THEN /\ request.op = "transact"
            /\ \E condition \in Range(request.conditions), actual \in Actuals :
                 result' = Failure(name, ConflictText,
                             <<[key |-> condition.key, kind |-> condition.kind, actual |-> actual,
                                revision |-> IF condition.kind = "RevisionEquals" THEN condition.revision ELSE 0]>>)
       ELSE result' = Failure(name, detail, <<>>)
    /\ applied' \in IF name \notin Refusals /\ Mutates(request) THEN BOOLEAN ELSE {FALSE}

ServiceRuns ==
  /\ step = "serving"
  /\ LET request == served[1].request IN
     \/ Mutates(request) /\ ServiceWrites(request) /\ applied' = TRUE
     \/ ~Mutates(request) /\ ServiceReads(request) /\ UNCHANGED applied
     \/ ServiceFails(request)
  /\ step' = "executed"
  /\ UNCHANGED <<sides, wire, served, told>>

Envelope ==
  IF result.ok THEN [success |-> TRUE, response |-> result.response]
  ELSE [success |-> FALSE, error |-> from_core_for_request(result.error, Mutates(served[1].request))]

ServerAnswers_refusing ==   \* uncertain failures are reported as refusals
  /\ step = "executed"
  /\ LET frame == encode_response(
           IF result.ok THEN Envelope
           ELSE [success |-> FALSE, error |-> [from_core(result.error) EXCEPT !.mutation_outcome = "NotApplied"]], server)
     IN IF frame.error = None THEN wire' = frame /\ step' = "answered"
        ELSE send_protocol_error(frame.error)
  /\ UNCHANGED <<sides, served, result, applied, told>>
(* serve_stream after the service: an answer that cannot be encoded is      *)
(* replaced by a protocol error.                                            *)
ServerAnswers ==
  /\ step = "executed"
  /\ LET frame == encode_response(Envelope, server)
     IN IF frame.error = None THEN wire' = frame /\ step' = "answered"
        ELSE send_protocol_error(frame.error)
  /\ UNCHANGED <<sides, served, result, applied, told>>

Uncertain(error) ==
  [success |-> FALSE, error |-> IF Mutates(asked.request) THEN "UnknownMutationOutcome" ELSE error]

(* What the caller is told of a response that was read to its end.          *)
Told(response) ==
  LET envelope == Latest(response) IN
  IF response.error # None THEN Uncertain("Protocol")
  ELSE IF envelope.success THEN envelope
  ELSE IF Mutates(asked.request) /\ envelope.error.mutation_outcome = "Unknown"
  THEN [success |-> FALSE, error |-> "UnknownMutationOutcome", cause |-> envelope.error]
  ELSE [success |-> FALSE, error |-> "Application", cause |-> envelope.error]

(* execute_on_connection from the answer's header on.                       *)
ClientReads ==
  /\ step = "answered"
  /\ \/ /\ wire.error = "silent" /\ told' = <<Uncertain("Transport")>>
     \/ /\ wire.error = None
        /\ \E frame \in {wire} \cup Cut(wire) :
             told' = <<IF /\ frame # wire
                          /\ \/ frame.fields = <<>>
                             \/ HEADER_SIZE + wire.payload_length <= client.max_response_frame_size
                       THEN Uncertain("Transport")
                       ELSE Told(decode_response_parts(frame, request_opcode(asked.request), client))>>
  /\ step' = "done"
  /\ UNCHANGED <<sides, wire, served, result, applied>>

Next == ClientSends \/ ServerReads \/ ServiceRuns \/ ServerAnswers \/ ClientReads
Spec == Init /\ [][Next]_vars

-----------------------------------------------------------------------------
(* Properties.                                                              *)

(* The server runs what the client asked, for its tenant, or nothing: no    *)
(* cut or limit turns a request into another one.  With the same limits on  *)
(* both sides a request that arrives whole is accepted.                     *)
ServedAsAsked ==
  /\ served # <<>> => served[1] = asked
  /\ /\ client = server /\ step = "sent"
     /\ decode_header(wire) = None /\ Size(wire.fields) = wire.payload_length
     => decode_request_parts(wire, server).error = None

AnswerFits == served # <<>> /\ result # NoResult => encode_response(Envelope, server).error = None
ErrorFits == ~result.ok => AnswerFits

(* What the caller of a mutation is told holds: success means applied; any  *)
(* error but an unknown outcome means it was not.  The service's error must *)
(* fit the response frame: serve_stream replaces one that does not by a     *)
(* protocol error, which says NotApplied.                                   *)
DefiniteIsTrue ==
  told # <<>> /\ Mutates(asked.request) /\ ErrorFits =>
    IF told[1].success THEN applied
    ELSE told[1].error # "UnknownMutationOutcome" => ~applied

(* What was found keeps to the server's own limits: rows are counted        *)
(* against the limit of scans, and what was stored under wider limits, by   *)
(* a server configured otherwise or past the network, may be too long.      *)
WithinLimits(response) ==
  CASE response.op = "get" -> response.state.present => response.state.value.len <= server.max_value_size
    [] response.op \in {"query", "scan"} ->
         /\ server.max_query_limit <= server.max_scan_limit
         /\ \A i \in DOMAIN response.documents :
              LET document == response.documents[i] IN
              /\ {document.key.pk.len, document.key.sk.len} \subseteq 0..server.max_key_component_size
              /\ encoded_key_len(document.key) <= server.max_encoded_key_size
              /\ document.value.len <= server.max_value_size
    [] OTHER -> TRUE

(* Reserving response space before the values are read is enough: what the  *)
(* budget admits can be encoded, so that a read which keeps to the server's *)
(* limits is never turned into a protocol error by serve_stream.            *)
BudgetSuffices ==
  step = "executed" /\ result.ok /\ ~Mutates(asked.request) /\ WithinLimits(result.response) => AnswerFits

(* A caller that is told a result is told the service's own, and of an      *)
(* error as the service stated it, unless the service's answer does not fit *)
(* the server's limits.  With the same limits on both sides the client      *)
(* accepts every answer.                                                    *)
ToldAsServed ==
  /\ told # <<>> /\ told[1].success => result.ok /\ told[1].response = result.response
  /\ told # <<>> /\ served # <<>> /\ AnswerFits /\ ~told[1].success /\ "cause" \in DOMAIN told[1] =>
       /\ ~result.ok
       /\ told[1].cause.kind = CoreErrors[result.error.name][1]
       /\ told[1].cause.conflict = result.error.conflict
  /\ client = server /\ step = "answered" /\ wire.error = None =>
       decode_response_parts(wire, request_opcode(asked.request), client).error = None

=============================================================================

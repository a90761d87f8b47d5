---------------------------- MODULE WireProtocol ----------------------------
(***************************************************************************)
(* The wire protocol (dodb-protocol): requests and responses to frames and  *)
(* back, within configured limits.  A payload is the sequence of fields the *)
(* writer puts out, each with its width in bytes; the contents of a byte    *)
(* string are an identity, its length and the number of its zero bytes.     *)
(***************************************************************************)
EXTENDS Integers, Sequences, SequencesExt

None == "none"
HEADER_SIZE == 11
PROTOCOL_VERSION == 1
REQUEST_MESSAGE_TYPE == 1
RESPONSE_MESSAGE_TYPE == 2

(* Sizes a storage value or key may have at most.                           *)
MAX_STORAGE_VALUE_SIZE == 64 * 1024 * 1024
MAX_STORAGE_KEY_COMPONENT_SIZE == 3990
MAX_STORAGE_ENCODED_KEY_SIZE == 3992

(* ProtocolLimits::validate.                                                *)
valid_limits(limits) ==
  /\ limits.max_request_frame_size >= HEADER_SIZE /\ limits.max_response_frame_size >= HEADER_SIZE
  /\ \A field \in DOMAIN limits : limits[field] > 0
  /\ limits.max_key_component_size <= MAX_STORAGE_KEY_COMPONENT_SIZE
  /\ limits.max_encoded_key_size <= MAX_STORAGE_ENCODED_KEY_SIZE
  /\ limits.max_value_size <= MAX_STORAGE_VALUE_SIZE

-----------------------------------------------------------------------------
(* The writer: fields, or the error that stopped it.                        *)

Field(type, value) == <<[type |-> type, value |-> value]>>
Width(field) ==
  CASE field.type = "u8" -> 1 [] field.type = "u32" -> 4 [] field.type = "u64" -> 8
    [] field.type = "bytes" -> 4 + field.value.len
Size(fields) == FoldLeft(LAMBDA sum, field : sum + Width(field), 0, fields)

Written(fields) == [error |-> None, fields |-> fields]
Stopped(error) == [error |-> error, fields |-> <<>>]
Then(first, second) ==
  IF first.error # None THEN first
  ELSE IF second.error # None THEN second
  ELSE Written(first.fields \o second.fields)
Each(written) == FoldLeft(Then, Written(<<>>), written)

u8(value) == Written(Field("u8", value))
u64(value) == Written(Field("u64", value))
encode_bytes(bytes, maximum) ==
  IF bytes.len > maximum THEN Stopped("PayloadTooLarge") ELSE Written(Field("bytes", bytes))
encode_count(count, maximum) ==   \* encode_limit alike
  IF count > maximum THEN Stopped("PayloadTooLarge") ELSE Written(Field("u32", count))

(* The canonical key: every zero byte is escaped and each component ends    *)
(* with two bytes.                                                          *)
encoded_key_len(key) == key.pk.len + key.pk.zeros + 2 + key.sk.len + key.sk.zeros + 2
validate_key(key, limits) ==
  IF encoded_key_len(key) > limits.max_encoded_key_size THEN Stopped("KeyTooLarge") ELSE Written(<<>>)

encode_key(key, limits) ==
  Then(validate_key(key, limits),
       Then(encode_bytes(key.pk, limits.max_key_component_size),
            encode_bytes(key.sk, limits.max_key_component_size)))

(* Some(x) is <<x>> and None is <<>>; what x is written as follows the flag. *)
encode_optional(written) ==
  IF written = <<>> THEN u8(0) ELSE Then(u8(1), written[1])

-----------------------------------------------------------------------------
(* Requests.                                                                *)

Opcodes == [get |-> 1, put |-> 2, delete |-> 3, query |-> 4, scan |-> 5, transact |-> 8]
request_opcode(request) == Opcodes[request.op]

NoSortKey == [id |-> "", len |-> 0, zeros |-> 0]
ExpectationCodes == [RevisionEquals |-> 0, Exists |-> 1, NotExists |-> 2]

encode_condition(condition, limits) ==
  Then(u8(ExpectationCodes[condition.kind]),
       Then(encode_key(condition.key, limits),
            IF condition.kind = "RevisionEquals" THEN u64(condition.revision) ELSE Written(<<>>)))

encode_mutation(mutation, limits) ==
  Then(u8(IF mutation.kind = "put" THEN 0 ELSE 1),
       Then(encode_key(mutation.key, limits),
            IF mutation.kind = "put" THEN encode_bytes(mutation.value, limits.max_value_size)
            ELSE Written(<<>>)))

encode_request_payload(request, limits) ==
  Then(u8(request_opcode(request)),
    CASE request.op \in {"get", "delete"} -> encode_key(request.key, limits)
      [] request.op = "put" ->
           Then(encode_key(request.key, limits), encode_bytes(request.value, limits.max_value_size))
      [] request.op = "query" ->
           Then(validate_key([pk |-> request.pk,
                              sk |-> IF request.after = <<>> THEN NoSortKey ELSE request.after[1]], limits),
           Then(encode_bytes(request.pk, limits.max_key_component_size),
           Then(encode_optional([i \in DOMAIN request.after |->
                                   encode_bytes(request.after[i], limits.max_key_component_size)]),
                encode_count(request.limit, limits.max_query_limit))))
      [] request.op = "scan" ->
           Then(encode_optional([i \in DOMAIN request.after |-> encode_key(request.after[i], limits)]),
                encode_count(request.limit, limits.max_scan_limit))
      [] request.op = "transact" ->
           Then(Then(encode_count(Len(request.conditions), limits.max_conditions),
                     Each([i \in DOMAIN request.conditions |-> encode_condition(request.conditions[i], limits)])),
                Then(encode_count(Len(request.mutations), limits.max_mutations),
                     Each([i \in DOMAIN request.mutations |-> encode_mutation(request.mutations[i], limits)]))))

(* A frame is refused when it is longer than the limit.                     *)
encode_frame(message_type, payload, maximum_frame_size) ==
  IF payload.error # None THEN [error |-> payload.error]
  ELSE IF HEADER_SIZE + Size(payload.fields) > maximum_frame_size THEN [error |-> "PayloadTooLarge"]
  ELSE [error |-> None, version |-> PROTOCOL_VERSION, message_type |-> message_type,
        payload_length |-> Size(payload.fields), fields |-> payload.fields]

encode_request(tenant, request, limits) ==
  encode_frame(REQUEST_MESSAGE_TYPE, Then(u64(tenant), encode_request_payload(request, limits)),
               limits.max_request_frame_size)

-----------------------------------------------------------------------------
(* Responses.                                                               *)

(* Queries and scans share the limit on the number of documents of a scan.  *)
encode_documents(documents, limits) ==
  Then(encode_count(Len(documents), limits.max_scan_limit),
       Each([i \in DOMAIN documents |->
               Then(encode_key(documents[i].key, limits),
                    Then(encode_bytes(documents[i].value, limits.max_value_size), u64(documents[i].revision)))]))

encode_revision_state_plain(state, limits) ==   \* the revision of a missing key is not sent
  IF state.present
  THEN Then(u8(0), Then(encode_bytes(state.value, limits.max_value_size), u64(state.revision)))
  ELSE Then(u8(1), u64(0))
encode_revision_state(state, limits) ==
  IF state.present
  THEN Then(u8(0), Then(encode_bytes(state.value, limits.max_value_size), u64(state.revision)))
  ELSE Then(u8(1), u64(state.revision))

encode_transaction_outcome(commit_lsn) ==
  IF commit_lsn = <<>> THEN u8(0) ELSE Then(u8(1), u64(commit_lsn[1]))

encode_response_payload(response, limits) ==
  CASE response.op = "get" -> encode_revision_state(response.state, limits)
    [] response.op \in {"put", "delete"} -> u64(response.revision)
    [] response.op \in {"query", "scan"} -> encode_documents(response.documents, limits)
    [] response.op = "transact" -> encode_transaction_outcome(response.commit_lsn)

encode_conflict(conflict, limits) ==
  Then(encode_key(conflict.key, limits),
  Then(IF conflict.kind = "RevisionEquals" THEN Then(u8(0), u64(conflict.revision))
       ELSE u8(ExpectationCodes[conflict.kind]),
       Then(u8(IF conflict.actual.present THEN 0 ELSE 1), u64(conflict.actual.revision))))

ErrorKinds == <<"InvalidRequest", "Overloaded", "Conflict", "StorageFailure", "Corruption",
                "DurabilityFailure", "Internal", "UnsupportedProtocol", "ResponseTooLarge">>
Outcomes == <<"NotApplicable", "NotApplied", "Unknown">>
CodeOf(names, name) == SelectInSeq(names, LAMBDA n : n = name) - 1

(* The detail is cut to a number of characters and then held against the    *)
(* same number of bytes.                                                    *)
Shortened(detail, maximum) ==
  IF detail.chars <= maximum THEN detail
  ELSE [detail EXCEPT !.chars = maximum, !.len = maximum * (detail.len \div detail.chars)]
encode_application_error(error, limits) ==
  Then(u8(CodeOf(ErrorKinds, error.kind)),
  Then(encode_bytes(Shortened(error.detail, limits.max_error_detail_size), limits.max_error_detail_size),
  Then(u8(CodeOf(Outcomes, error.mutation_outcome)),
       encode_optional([i \in DOMAIN error.conflict |-> encode_conflict(error.conflict[i], limits)]))))

(* An envelope is a success with its response or an application error.      *)
encode_response(envelope, limits) ==
  encode_frame(RESPONSE_MESSAGE_TYPE,
    IF envelope.success
    THEN Then(u8(0), Then(u8(Opcodes[envelope.response.op]), encode_response_payload(envelope.response, limits)))
    ELSE Then(u8(1), encode_application_error(envelope.error, limits)),
    limits.max_response_frame_size)

-----------------------------------------------------------------------------
(* The reader: the fields left, the values read, the error that stopped it. *)
(* Reading a field as another type than it was written with would cut the   *)
(* bytes elsewhere; it is an error here.                                    *)

Reader(fields) == [rest |-> fields, values |-> <<>>, error |-> None]
Rejected(reader, error) == [reader EXCEPT !.error = error]
Latest(reader) == Last(reader.values)

take(reader, type) ==
  IF reader.error # None THEN reader
  ELSE IF reader.rest = <<>> THEN Rejected(reader, "TruncatedPayload")
  ELSE IF Head(reader.rest).type # type THEN Rejected(reader, "Misread")
  ELSE [reader EXCEPT !.rest = Tail(@), !.values = Append(@, Head(reader.rest).value)]

(* The n values read last become what is made of them.                      *)
Made(reader, n, Make(_)) ==
  LET before == Len(reader.values) - n IN
  IF reader.error # None THEN reader
  ELSE [reader EXCEPT !.values = Append(SubSeq(@, 1, before), Make(SubSeq(@, before + 1, before + n)))]
Unless(Bad(_), reader, error) ==
  IF reader.error = None /\ Bad(Latest(reader)) THEN Rejected(reader, error) ELSE reader
(* What was read last decides how to go on.                                 *)
AndThen(reader, Decode(_)) == IF reader.error # None THEN reader ELSE Decode(reader)

take_bytes(reader, maximum) ==
  Unless(LAMBDA bytes : bytes.len > maximum, take(reader, "bytes"), "PayloadTooLarge")
take_count(reader, maximum) ==
  Unless(LAMBDA count : count > maximum, take(reader, "u32"), "PayloadTooLarge")
take_tag(reader, tags, error) == Unless(LAMBDA tag : tag \notin tags, take(reader, "u8"), error)
take_optional(reader, Decode(_)) ==
  AndThen(take_tag(reader, {0, 1}, "InvalidFlag"),
    LAMBDA r : IF Latest(r) = 0 THEN Made(r, 1, LAMBDA v : <<>>) ELSE Made(Decode(r), 2, LAMBDA v : <<v[2]>>))

(* As many items as were counted.                                           *)
take_each(counted, Decode(_)) ==
  AndThen(counted,
    LAMBDA r : Made(FoldLeft(LAMBDA done, i : Decode(done), r, [i \in 1..Latest(r) |-> i]),
                    Latest(r) + 1, LAMBDA v : Tail(v)))

decode_key(reader, limits) ==
  Unless(LAMBDA key : validate_key(key, limits).error # None,
         Made(take_bytes(take_bytes(reader, limits.max_key_component_size), limits.max_key_component_size),
              2, LAMBDA v : [pk |-> v[1], sk |-> v[2]]),
         "KeyTooLarge")

(* A tag and a key; the tag is looked at once the key is read.              *)
TaggedKey(reader, limits) ==
  Made(decode_key(take(reader, "u8"), limits), 2, LAMBDA v : [tag |-> v[1], key |-> v[2]])

decode_condition_swapped(reader, limits) ==   \* the two existence tags are mixed up
  AndThen(TaggedKey(reader, limits),
    LAMBDA r : IF Latest(r).tag = 0
               THEN Made(take(r, "u64"), 2, LAMBDA v : [kind |-> "RevisionEquals", key |-> v[1].key, revision |-> v[2]])
               ELSE Made(r, 1, LAMBDA v : [kind |-> IF v[1].tag = 1 THEN "NotExists" ELSE "Exists", key |-> v[1].key]))
decode_condition(reader, limits) ==
  AndThen(TaggedKey(reader, limits),
    LAMBDA r : CASE Latest(r).tag = 0 ->
                      Made(take(r, "u64"), 2,
                           LAMBDA v : [kind |-> "RevisionEquals", key |-> v[1].key, revision |-> v[2]])
                 [] Latest(r).tag \in {1, 2} ->
                      Made(r, 1, LAMBDA v : [kind |-> IF v[1].tag = 1 THEN "Exists" ELSE "NotExists", key |-> v[1].key])
                 [] OTHER -> Rejected(r, "InvalidExpectation"))

decode_mutation(reader, limits) ==
  AndThen(TaggedKey(reader, limits),
    LAMBDA r : CASE Latest(r).tag = 0 ->
                      Made(take_bytes(r, limits.max_value_size), 2,
                           LAMBDA v : [kind |-> "put", key |-> v[1].key, value |-> v[2]])
                 [] Latest(r).tag = 1 -> Made(r, 1, LAMBDA v : [kind |-> "delete", key |-> v[1].key])
                 [] OTHER -> Rejected(r, "InvalidOpcode"))

decode_optional_key(reader, limits) == take_optional(reader, LAMBDA r : decode_key(r, limits))
optional_bytes(reader, maximum) == take_optional(reader, LAMBDA r : take_bytes(r, maximum))

decode_query(reader, limits) ==
  LET Start(r) == Made(optional_bytes(take_bytes(r, limits.max_key_component_size),
                                      limits.max_key_component_size),
                       2, LAMBDA v : [pk |-> v[1], after |-> v[2]])
      TooLong(from) ==
        validate_key([pk |-> from.pk, sk |-> IF from.after = <<>> THEN NoSortKey ELSE from.after[1]], limits).error # None
  IN Made(take_count(Unless(TooLong, Start(reader), "KeyTooLarge"), limits.max_query_limit), 2,
          LAMBDA v : [op |-> "query", pk |-> v[1].pk, after |-> v[1].after, limit |-> v[2]])

decode_operation(reader, opcode, limits) ==
  CASE opcode \in {1, 3} ->
         Made(decode_key(reader, limits), 1, LAMBDA v : [op |-> IF opcode = 1 THEN "get" ELSE "delete", key |-> v[1]])
    [] opcode = 2 ->
         Made(take_bytes(decode_key(reader, limits), limits.max_value_size), 2,
              LAMBDA v : [op |-> "put", key |-> v[1], value |-> v[2]])
    [] opcode = 4 -> decode_query(reader, limits)
    [] opcode = 5 ->
         Made(take_count(decode_optional_key(reader, limits), limits.max_scan_limit), 2,
              LAMBDA v : [op |-> "scan", after |-> v[1], limit |-> v[2]])
    [] opcode = 8 ->
         Made(take_each(take_count(take_each(take_count(reader, limits.max_conditions),
                                             LAMBDA r : decode_condition(r, limits)),
                                   limits.max_mutations),
                        LAMBDA r : decode_mutation(r, limits)),
              2, LAMBDA v : [op |-> "transact", conditions |-> v[1], mutations |-> v[2]])
decode_request_payload(reader, limits) ==
  AndThen(take_tag(reader, {1, 2, 3, 4, 5, 8}, "InvalidOpcode"),
          LAMBDA r : Made(decode_operation(r, Latest(r), limits), 2, LAMBDA v : v[2]))

decode_header(frame) ==
  IF frame.version # PROTOCOL_VERSION THEN "UnsupportedVersion"
  ELSE IF frame.message_type \notin {REQUEST_MESSAGE_TYPE, RESPONSE_MESSAGE_TYPE} THEN "UnknownMessageType"
  ELSE None

(* What both sides check of a frame before its payload is read.             *)
FrameError(frame, message_type, maximum_frame_size) ==
  IF HEADER_SIZE + frame.payload_length > maximum_frame_size THEN "PayloadTooLarge"
  ELSE IF Size(frame.fields) < frame.payload_length THEN "TruncatedPayload"
  ELSE IF Size(frame.fields) > frame.payload_length THEN "TrailingBytes"
  ELSE IF frame.message_type # message_type THEN "UnknownMessageType"
  ELSE None

Finished(reader) == IF reader.error = None /\ reader.rest # <<>> THEN Rejected(reader, "TrailingBytes") ELSE reader

decode_request_parts(frame, limits) ==
  LET bad == FrameError(frame, REQUEST_MESSAGE_TYPE, limits.max_request_frame_size) IN
  IF bad # None THEN Rejected(Reader(<<>>), bad)
  ELSE Made(Finished(decode_request_payload(take(Reader(frame.fields), "u64"), limits)), 2,
            LAMBDA v : [tenant |-> v[1], request |-> v[2]])

-----------------------------------------------------------------------------
(* Reading responses.                                                       *)

decode_documents(reader, limits) ==
  take_each(take_count(reader, limits.max_scan_limit),
    LAMBDA r : Made(take(take_bytes(decode_key(r, limits), limits.max_value_size), "u64"), 3,
                    LAMBDA v : [key |-> v[1], value |-> v[2], revision |-> v[3]]))

decode_revision_state(reader, limits) ==
  AndThen(take_tag(reader, {0, 1}, "InvalidRevisionState"),
    LAMBDA r : IF Latest(r) = 1
               THEN Made(take(r, "u64"), 2, LAMBDA v : [present |-> FALSE, revision |-> v[2]])
               ELSE Made(take(take_bytes(r, limits.max_value_size), "u64"), 3,
                         LAMBDA v : [present |-> TRUE, value |-> v[2], revision |-> v[3]]))

decode_response_payload(reader, opcode, limits) ==
  CASE opcode = 1 -> Made(decode_revision_state(reader, limits), 1, LAMBDA v : [op |-> "get", state |-> v[1]])
    [] opcode \in {2, 3} ->
         Made(take(reader, "u64"), 1, LAMBDA v : [op |-> IF opcode = 2 THEN "put" ELSE "delete", revision |-> v[1]])
    [] opcode \in {4, 5} ->
         Made(decode_documents(reader, limits), 1,
              LAMBDA v : [op |-> IF opcode = 4 THEN "query" ELSE "scan", documents |-> v[1]])
    [] opcode = 8 ->
         Made(take_optional(reader, LAMBDA r : take(r, "u64")), 1,
              LAMBDA v : [op |-> "transact", commit_lsn |-> v[1]])

decode_observed_state(reader) ==
  Made(take(take_tag(reader, {0, 1}, "InvalidRevisionState"), "u64"), 2,
       LAMBDA v : [present |-> v[1] = 0, revision |-> v[2]])

(* Only a compared revision is on the wire.                                 *)
decode_conflict(reader, limits) ==
  LET Expected(r) == IF Latest(r) = 0 THEN take(r, "u64") ELSE [r EXCEPT !.values = Append(@, 0)]
  IN Made(decode_observed_state(
            AndThen(take_tag(decode_key(reader, limits), {0, 1, 2}, "InvalidExpectation"), Expected)), 4,
          LAMBDA v : [key |-> v[1], kind |-> <<"RevisionEquals", "Exists", "NotExists">>[v[2] + 1],
                      revision |-> v[3], actual |-> v[4]])

(* Bytes are text when they have a number of characters.                    *)
decode_application_error(reader, limits) ==
  LET kind == take_tag(reader, 0..Len(ErrorKinds) - 1, "InvalidErrorKind")
      detail == Unless(LAMBDA text : "chars" \notin DOMAIN text,
                       take_bytes(kind, limits.max_error_detail_size), "InvalidUtf8")
      outcome == take_tag(detail, 0..Len(Outcomes) - 1, "InvalidFlag")
  IN Made(take_optional(outcome, LAMBDA r : decode_conflict(r, limits)), 4,
          LAMBDA v : [kind |-> ErrorKinds[v[1] + 1], detail |-> v[2], mutation_outcome |-> Outcomes[v[3] + 1],
                      conflict |-> v[4]])

decode_response_parts(frame, expected_response_type, limits) ==
  LET bad == FrameError(frame, RESPONSE_MESSAGE_TYPE, limits.max_response_frame_size)
      Success(r) ==
        IF Latest(r) # expected_response_type THEN Rejected(r, "InvalidResponseType")
        ELSE Made(decode_response_payload(r, Latest(r), limits), 3, LAMBDA v : [success |-> TRUE, response |-> v[3]])
      Envelope(r) ==
        IF Latest(r) = 0 THEN AndThen(take(r, "u8"), Success)
        ELSE Made(decode_application_error(r, limits), 2, LAMBDA v : [success |-> FALSE, error |-> v[2]])
  IN IF bad # None THEN Rejected(Reader(<<>>), bad)
     ELSE Finished(AndThen(take_tag(Reader(frame.fields), {0, 1}, "InvalidStatus"), Envelope))

=============================================================================

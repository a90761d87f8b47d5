----------------------------- MODULE MCExchange -----------------------------
(***************************************************************************)
(* Instance of Exchange and KeyCodec: frames with keys of zero bytes and    *)
(* limits at which one byte decides; and keys of the two bytes with a       *)
(* meaning and their neighbour 1, which an escape must sort below.  The     *)
(* parts share no state: keys grow while an exchange has not begun.         *)
(***************************************************************************)
EXTENDS Exchange, KeyCodec

Bytes(id, len, zeros) == [id |-> id, len |-> len, zeros |-> zeros]
ShortKey == [pk |-> Bytes("p", 1, 0), sk |-> Bytes("s", 1, 0)]
ZeroKey == [pk |-> Bytes("p", 1, 0), sk |-> Bytes("z", 4, 3)]   \* 12 bytes encoded, 5 raw
WideKey == [pk |-> Bytes("p", 1, 0), sk |-> Bytes("y", 5, 3)]   \* 13 bytes encoded, 6 raw
Value == Bytes("v", 5, 0)
LongValue == Bytes("w", 9, 0)

PointRequests ==
  {[op |-> "get", key |-> ShortKey], [op |-> "get", key |-> WideKey], [op |-> "delete", key |-> ZeroKey]}
  \cup {[op |-> "put", key |-> ShortKey, value |-> v] : v \in {Value, LongValue}}
RangeRequests ==
  {[op |-> "query", pk |-> ShortKey.pk, after |-> after, limit |-> limit] :
     after \in {<<>>, <<ZeroKey.sk>>}, limit \in {2, 3}}
  \cup {[op |-> "scan", after |-> after, limit |-> 2] : after \in {<<>>, <<ZeroKey>>}}
TransactRequests ==
  {[op |-> "transact", conditions |-> conditions, mutations |-> mutations] :
     conditions \in {<<>>, <<[kind |-> "RevisionEquals", key |-> ShortKey, revision |-> 3],
                             [kind |-> "NotExists", key |-> ZeroKey]>>},
     mutations \in {<<>>, <<[kind |-> "put", key |-> ShortKey, value |-> Value],
                            [kind |-> "delete", key |-> ZeroKey]>>}}
AllRequests == PointRequests \cup RangeRequests \cup TransactRequests

FoundStates == {[present |-> TRUE, value |-> Value, revision |-> 2], [present |-> FALSE, revision |-> 4]}
StoredDocuments == <<[key |-> ShortKey, value |-> Value, revision |-> 1],
                     [key |-> ZeroKey, value |-> Value, revision |-> 2],
                     [key |-> ShortKey, value |-> Value, revision |-> 3]>>
FoundActuals == {[present |-> TRUE, revision |-> 8], [present |-> FALSE, revision |-> 9]}

Text(chars, width) == [id |-> "text", len |-> chars * width, chars |-> chars, zeros |-> 0]
ShortTexts == {Text(20, 1)}

Limits(request, response) ==
  [max_request_frame_size |-> request, max_response_frame_size |-> response,
   max_key_component_size |-> 6, max_encoded_key_size |-> 12, max_value_size |-> 9, max_keys |-> 4,
   max_conditions |-> 2, max_mutations |-> 2, max_query_limit |-> 3, max_scan_limit |-> 3,
   max_error_detail_size |-> 60]

(* Two documents take 74 bytes, three 101; a get 35.                        *)
FullLimits == Limits(120, 101)
BothSides ==
  {FullLimits, Limits(60, 74), [FullLimits EXCEPT !.max_value_size = 6], [FullLimits EXCEPT !.max_mutations = 1]}
ClientSides == BothSides \cup {[FullLimits EXCEPT !.max_encoded_key_size = 9]}
\* Servers that stored more than they may now send, or count rows differently.
NarrowSides ==
  {[FullLimits EXCEPT !.max_value_size = 4], [FullLimits EXCEPT !.max_encoded_key_size = 9],
   [FullLimits EXCEPT !.max_scan_limit = 2]}
ServerSides == BothSides \cup NarrowSides \cup {Limits(120, response) : response \in {34, 35, 73, 100}}

SomeBytes == {0, 1, 255}

NotBegun == step = "asked" /\ asked.request = [op |-> "get", key |-> ShortKey] /\ {client, server} = {FullLimits}
ProtocolInit == Init /\ KeysInit
ProtocolNext ==
  \/ KeysInit /\ Next /\ UNCHANGED keyVars
  \/ NotBegun /\ KeysNext /\ UNCHANGED vars
ProtocolSpec == ProtocolInit /\ [][ProtocolNext]_<<vars, keyVars>>

=============================================================================

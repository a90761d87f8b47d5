------------------------------ MODULE KeyCodec ------------------------------
(***************************************************************************)
(* The byte encoding of document keys (dodb-core/src/key.rs).  The tree     *)
(* orders its entries by these bytes and everything above it by the keys,   *)
(* so the encoding must preserve the order of keys, and it must be the only *)
(* byte string that decodes to its key.                                     *)
(***************************************************************************)
EXTENDS Naturals, Sequences, FiniteSets, SequencesExt

CONSTANTS
  KeyBytes,       \* byte values; 0 and 255 have a meaning
  MaxComponent,   \* bound: bytes of a component
  MaxInput        \* bound: bytes of an input to decode

ASSUME BytesAssumption == KeyBytes \subseteq 0..255 /\ {0, 255} \subseteq KeyBytes

VARIABLES left, right,  \* two keys, built byte by byte
          input         \* bytes that some store or peer hands to decode

keyVars == <<left, right, input>>

-----------------------------------------------------------------------------

(* The byte after a zero says whether the zero was escaped or ends the      *)
(* component.                                                               *)
AfterZero_swapped == [escaped |-> 0, end |-> 255]   \* a longer key sorts first
AfterZero == [escaped |-> 255, end |-> 0]

encode_component(bytes) ==
  FoldLeft(LAMBDA output, byte : output \o (IF byte = 0 THEN <<0, AfterZero.escaped>> ELSE <<byte>>), <<>>, bytes)
    \o <<0, AfterZero.end>>

encode(key) == encode_component(key.pk) \o encode_component(key.sk)

encoded_component_len(bytes) == Len(bytes) + Cardinality({i \in DOMAIN bytes : bytes[i] = 0}) + 2
encoded_len(key) == encoded_component_len(key.pk) + encoded_component_len(key.sk)

Decoded(bytes, end) == [error |-> "none", bytes |-> bytes, end |-> end]
Refused(error) == [error |-> error, bytes |-> <<>>, end |-> 0]

(* From an offset on, with the bytes decoded so far.  Offsets count from    *)
(* zero, as in the code.                                                    *)
RECURSIVE DecodeFrom(_, _, _)
DecodeFrom(encoded, offset, bytes) ==
  LET At(i) == encoded[i + 1] IN
  IF offset >= Len(encoded) THEN Refused("TruncatedEscape")
  ELSE IF At(offset) # 0 THEN DecodeFrom(encoded, offset + 1, Append(bytes, At(offset)))
  ELSE IF offset + 1 >= Len(encoded) THEN Refused("TruncatedEscape")
  ELSE IF At(offset + 1) = AfterZero.end THEN Decoded(bytes, offset + 2)
  ELSE IF At(offset + 1) = AfterZero.escaped THEN DecodeFrom(encoded, offset + 2, Append(bytes, 0))
  ELSE Refused("InvalidEscape")

decode_component(encoded, start) ==
  IF start >= Len(encoded) THEN Refused("MissingComponent") ELSE DecodeFrom(encoded, start, <<>>)

Key(pk, sk) == [pk |-> pk, sk |-> sk]
NoKey(error) == [error |-> error, key |-> Key(<<>>, <<>>)]

decode_prefix(encoded) ==   \* bytes after the second component are ignored
  LET pk == decode_component(encoded, 0)
      sk == decode_component(encoded, pk.end)
  IN IF pk.error # "none" THEN NoKey(pk.error)
     ELSE IF sk.error # "none" THEN NoKey(sk.error)
     ELSE [error |-> "none", key |-> Key(pk.bytes, sk.bytes)]
decode(encoded) ==
  LET pk == decode_component(encoded, 0)
      sk == decode_component(encoded, pk.end)
  IN IF pk.error # "none" THEN NoKey(pk.error)
     ELSE IF sk.error # "none" THEN NoKey(sk.error)
     ELSE IF sk.end # Len(encoded) THEN NoKey("TrailingBytes")
     ELSE [error |-> "none", key |-> Key(pk.bytes, sk.bytes)]

-----------------------------------------------------------------------------
(* Every pair of keys, and every input, of bounded length.                  *)

KeysInit == left = Key(<<>>, <<>>) /\ right = Key(<<>>, <<>>) /\ input = <<>>

Longer(key) ==
  {Key(pk, key.sk) : pk \in {Append(key.pk, b) : b \in KeyBytes}} \cup
  {Key(key.pk, sk) : sk \in {Append(key.sk, b) : b \in KeyBytes}}
Bounded(key) == Len(key.pk) <= MaxComponent /\ Len(key.sk) <= MaxComponent

GrowLeft == input = <<>> /\ left' \in {k \in Longer(left) : Bounded(k)} /\ UNCHANGED <<right, input>>
GrowRight == input = <<>> /\ right' \in {k \in Longer(right) : Bounded(k)} /\ UNCHANGED <<left, input>>
GrowInput ==
  /\ left = Key(<<>>, <<>>) /\ right = left /\ Len(input) < MaxInput
  /\ input' \in {Append(input, b) : b \in KeyBytes}
  /\ UNCHANGED <<left, right>>

KeysNext == GrowLeft \/ GrowRight \/ GrowInput

-----------------------------------------------------------------------------
(* Properties.                                                              *)

(* Bytewise lexicographic order, a prefix first.                            *)
BytesLess(a, b) ==
  \/ IsStrictPrefix(a, b)
  \/ \E i \in DOMAIN a \cap DOMAIN b : a[i] < b[i] /\ \A j \in 1..(i - 1) : a[j] = b[j]
(* The derived order of DocumentKey: first by pk, then by sk.               *)
KeyLess(a, b) == BytesLess(a.pk, b.pk) \/ (a.pk = b.pk /\ BytesLess(a.sk, b.sk))

(* The bytes of two keys compare as the keys do, so that the tree's order   *)
(* is the order of query and scan (DocumentKey::encode).                    *)
OrderPreserved == KeyLess(left, right) <=> BytesLess(encode(left), encode(right))

(* A key is what its encoding decodes to, no other bytes decode to a key    *)
(* (two stored byte strings are never the same document), and the length    *)
(* that limits are checked with before anything is encoded is that of the   *)
(* encoding (DocumentKey::decode, DocumentKey::encoded_len).                *)
Canonical ==
  /\ decode(encode(left)) = [error |-> "none", key |-> left]
  /\ decode(input).error = "none" => encode(decode(input).key) = input
  /\ encoded_len(left) = Len(encode(left))

=============================================================================

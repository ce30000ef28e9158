---------------------------- MODULE StreamRedaction ----------------------------
(***************************************************************************)
(* How the proxy passes a response on: chunk by chunk, as the provider sends *)
(* it, with every occurrence of the credential replaced, also one that is    *)
(* split over chunks.                                                       *)
(***************************************************************************)
EXTENDS Integers, Sequences

CONSTANTS
  ProviderSecret, \* the bytes of the credential
  Marker,         \* REDACTION
  Bytes,          \* what a response may be made of
  MaxBytes,       \* settings.max_response_bytes
  MaxChunk        \* bound on the length of a chunk

ASSUME CredentialAssumption == ProviderSecret \in Seq(Bytes) /\ ProviderSecret # <<>>

(* A credential has neither of the brackets around the marker, nor is it a   *)
(* part of it: the code does not look.                                      *)
ASSUME MarkerAssumption ==
  /\ Marker \in Seq(Bytes) /\ Marker # <<>>
  /\ \A i \in DOMAIN ProviderSecret : ProviderSecret[i] \notin {Marker[1], Marker[Len(Marker)]}
  /\ \A i \in 1 .. Len(Marker) - Len(ProviderSecret) + 1 :
       SubSeq(Marker, i, i + Len(ProviderSecret) - 1) # ProviderSecret
ASSUME BytesAssumption == MaxBytes \in Nat /\ MaxChunk \in Nat

VARIABLES
  received, \* what the provider has sent
  buffered,
  sent,     \* what the agent has been given
  stream    \* "open", "closed", or "broken": an error ends it

redactionVars == <<received, buffered, sent, stream>>

-----------------------------------------------------------------------------
Length == Len(ProviderSecret)

(* bytes.replace: from left to right, without overlaps. *)
Redacted(bytes) ==
  LET From[i \in 1 .. Len(bytes) + Length] ==
        IF i > Len(bytes) THEN <<>>
        ELSE IF i + Length - 1 =< Len(bytes) /\ SubSeq(bytes, i, i + Length - 1) = ProviderSecret
        THEN Marker \o From[i + Length]
        ELSE <<bytes[i]>> \o From[i + 1]
  IN  From[1]

(* Mutant: as many bytes are kept as fit after the credential. *)
KeepLess == IF Length > 1 THEN Length - 2 ELSE 0
Keep == Length - 1

Chunks == UNION {[1 .. n -> Bytes] : n \in 1 .. MaxChunk}

RedactionInit == received = <<>> /\ buffered = <<>> /\ sent = <<>> /\ stream = "open"

(* redact_stream: all but the last bytes that could begin a credential.      *)
PassChunk ==
  /\ stream = "open"
  /\ \E chunk \in Chunks :
       LET clean == Redacted(buffered \o chunk)
           passed == IF Len(clean) > Keep THEN Len(clean) - Keep ELSE 0
       IN  /\ Len(received) + Len(chunk) =< MaxBytes
           /\ received' = received \o chunk
           /\ sent' = sent \o SubSeq(clean, 1, passed)
           /\ buffered' = SubSeq(clean, passed + 1, Len(clean))
  /\ UNCHANGED stream

PassRest ==
  /\ stream = "open"
  /\ sent' = sent \o Redacted(buffered)
  /\ buffered' = <<>> /\ stream' = "closed"
  /\ UNCHANGED received

(* Beyond the limit, or when the provider breaks off, the rest is lost.      *)
Break ==
  /\ stream = "open"
  /\ stream' = "broken" /\ buffered' = <<>>
  /\ UNCHANGED <<received, sent>>

RedactionNext == PassChunk \/ PassRest \/ Break

RedactionSpec == RedactionInit /\ [][RedactionNext]_redactionVars

-----------------------------------------------------------------------------
(* All of it is bytes. *)
RedactionTypeOK ==
  /\ received \in Seq(Bytes) /\ buffered \in Seq(Bytes) /\ sent \in Seq(Bytes)
  /\ stream \in {"open", "closed", "broken"}

(* "provider credentials are redacted from streamed responses"               *)
(* (proxy/README.md:13): however the response is cut into chunks, the agent  *)
(* never sees the credential, and is given what it would be if the response  *)
(* had come in one piece.                                                   *)
RedactedHoweverCut ==
  /\ \A i \in 1 .. Len(sent) - Length + 1 : SubSeq(sent, i, i + Length - 1) # ProviderSecret
  /\ stream = "open" => sent \o buffered = Redacted(received)
  /\ stream = "closed" => sent = Redacted(received)

=============================================================================

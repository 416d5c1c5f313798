---------------------------- MODULE RtpEndpoints ----------------------------
(***************************************************************************)
(* A sender that writes headers into one buffer and a receiver that parses *)
(* datagrams into one set of output objects, both with the functions of    *)
(* RtpProtocol and both used again and again.  In between the network may  *)
(* cut a datagram at any byte, and other senders use what this one never   *)
(* writes: CSRC entries, empty extensions, padding, other versions.        *)
(*                                                                         *)
(* The functions have no caller in the repository yet; their parameters    *)
(* are what the header allows, except that header_size is always given.    *)
(***************************************************************************)
EXTENDS RtpProtocol

CONSTANTS
  Fields,      \* RtpHeaderFields to write
  Extensions,  \* RtpHeaderExtensions to write, NoExtension for nullptr
  Media,       \* what follows the header in a datagram
  Foreign,     \* headers of other senders, as the parts they consist of
  Memory       \* 12 bytes that may lie behind a payload of 4 in memory

Bytes == Seq(0..255)
UInt16 == {v \in Nat : v < 65536}
UInt32 == {v \in Nat : v \div 65536 \in UInt16}

(* RtpHeaderFields; the type of the payload is a byte in the program and   *)
(* seven bits on the wire.                                                 *)
IsHeaderFields(f, maxType) ==
  f \in [marker : BOOLEAN, payloadType : 0..maxType, sequenceNumber : UInt16,
         timestamp : UInt32, ssrc : UInt32]

(* A RtpHeaderExtension whose length, in words, fits the wire.             *)
IsExtension(e) ==
  e \in [profile : UInt16, payload : Bytes] /\ Len(e.payload) \div 4 \in UInt16

(* The parts of a header that is laid out as RFC 3550 asks.                *)
IsHeader(p) ==
  /\ p.version \in 0..3 /\ p.padding \in BOOLEAN
  /\ IsHeaderFields(p.fields, 127)
  /\ p.csrcs \in Bytes /\ Len(p.csrcs) <= 60 /\ Len(p.csrcs) % 4 = 0
  /\ p.extended \in BOOLEAN
  /\ IsExtension(p.extension) /\ Len(p.extension.payload) % 4 = 0
  /\ ~p.extended => p.extension = NoExtension

ASSUME EndpointsAssumption ==
  /\ \A f \in Fields : IsHeaderFields(f, 255)
  /\ \A e \in Extensions : IsExtension(e)
  /\ Media \subseteq Bytes
  /\ \A p \in Foreign : IsHeader(p)

VARIABLES
  packet,      \* the buffer of WriteRtpHeader
  sent,        \* the parts of the header that was written into it
  fields, headerSize, extension,  \* the outputs of ParseRtpHeader
  latency,     \* the output of ParseRtpLatencyExtension
  latencyResult,  \* what it returned last, "none" before the first call
  fieldsFrom, extensionFrom,  \* the headers that were parsed
  available    \* size of the datagram of the former

sender == <<packet, sent>>
outputs == <<fields, headerSize, extension>>
history == <<fieldsFrom, extensionFrom, available>>
vars == <<sender, outputs, latency, latencyResult, history>>

(* The parts of a header, in their order on the wire.                      *)
OwnParts(f, e) ==
  [version |-> kRtpVersion, padding |-> FALSE,
   fields |-> [f EXCEPT !.payloadType = @ % 128], csrcs |-> <<>>,
   extended |-> e.payload # <<>>,
   extension |-> IF e.payload = <<>> THEN NoExtension ELSE e]

PartsSize(p) ==
  12 + Len(p.csrcs) + IF p.extended THEN 4 + Len(p.extension.payload) ELSE 0

(* RFC 3550, sections 5.1 and 5.3.1.                                       *)
Layout(p) ==
  <<64 * p.version + (IF p.padding THEN 32 ELSE 0) + (IF p.extended THEN 16 ELSE 0)
      + Len(p.csrcs) \div 4,
    (IF p.fields.marker THEN 128 ELSE 0) + p.fields.payloadType>>
  \o WriteBe16(p.fields.sequenceNumber)
  \o WriteBe32(p.fields.timestamp) \o WriteBe32(p.fields.ssrc)
  \o p.csrcs
  \o IF p.extended
       THEN WriteBe16(p.extension.profile) \o WriteBe16(Len(p.extension.payload) \div 4)
              \o p.extension.payload
       ELSE <<>>

NoParts == OwnParts(DefaultFields, NoExtension)

NoLatency == [capture |-> <<0, 0>>, send |-> <<0, 0>>]

Init ==
  /\ packet = <<>>
  /\ sent = NoParts
  /\ fields = DefaultFields /\ headerSize = 0 /\ extension = NoExtension
  /\ latency = NoLatency /\ latencyResult = "none"
  /\ fieldsFrom = NoParts /\ extensionFrom = NoParts /\ available = 0
-----------------------------------------------------------------------------
(* A payload that is not a number of words is refused, and the buffer      *)
(* keeps what it had.                                                      *)
WriteRtpHeader(f, e) ==
  /\ CanWrite(e)
  /\ packet' = HeaderBytes(f, e)
  /\ sent' = OwnParts(f, e)
  /\ UNCHANGED <<outputs, latency, latencyResult, history>>

(* Mutated form of ParseRtpHeader: an extension from an earlier packet is  *)
(* not cleared.                                                            *)
ParseKeepsExtension(data, parts, wanted) ==
  /\ CanParse(data)
  /\ fields' = ParsedFields(data) /\ fieldsFrom' = parts
  /\ headerSize' = HeaderSize(data)
  /\ extension' = IF wanted /\ HasExtension(data) THEN ParsedExtension(data) ELSE extension
  /\ extensionFrom' = IF wanted THEN parts ELSE extensionFrom
  /\ available' = Len(data)
  /\ UNCHANGED <<sender, latency, latencyResult>>

(* ParseRtpHeader into the outputs; wanted says whether an extension       *)
(* object was given.  When it fails it returns before the first output.    *)
ParseRtpHeader(data, parts, wanted) ==
  /\ CanParse(data)
  /\ fields' = ParsedFields(data) /\ fieldsFrom' = parts
  /\ headerSize' = HeaderSize(data)
  /\ IF wanted
       THEN extension' = ParsedExtension(data) /\ extensionFrom' = parts
       ELSE UNCHANGED <<extension, extensionFrom>>
  /\ available' = Len(data)
  /\ UNCHANGED <<sender, latency, latencyResult>>

Cut(data) == {SubSeq(data, 1, n) : n \in 0..Len(data)}

ReceiveOwn ==
  /\ packet # <<>>
  /\ \E media \in Media, wanted \in BOOLEAN :
       \E data \in Cut(packet \o media) : ParseRtpHeader(data, sent, wanted)

ReceiveForeign ==
  \E p \in Foreign, media \in Media, wanted \in BOOLEAN :
    \E data \in Cut(Layout(p) \o media) : ParseRtpHeader(data, p, wanted)

(* ParseRtpLatencyExtension of the extension that was received last.       *)
ParseRtpLatencyExtension ==
  /\ \/ /\ IsLatencyExtension(extension)
        /\ latencyResult' = "ok"
        /\ \E m \in Memory : latency' = ParsedLatency(extension, m)
     \/ /\ ~IsLatencyExtension(extension)
        /\ latencyResult' = "failed"
        /\ UNCHANGED latency
  /\ UNCHANGED <<sender, outputs, history>>

Next ==
  \/ \E f \in Fields, e \in Extensions : WriteRtpHeader(f, e)
  \/ ReceiveOwn
  \/ ReceiveForeign
  \/ ParseRtpLatencyExtension

Spec == Init /\ [][Next]_vars
-----------------------------------------------------------------------------
(* Types: the outputs keep the widths of their fields.                     *)
TypeOK ==
  /\ packet \in Bytes
  /\ fields.marker \in BOOLEAN
  /\ fields.payloadType \in 0..127
  /\ fields.sequenceNumber \in UInt16
  /\ fields.timestamp \in UInt32 /\ fields.ssrc \in UInt32
  /\ headerSize \in Nat
  /\ extension.profile \in UInt16
  /\ extension.payload \in Bytes
  /\ latencyResult \in {"none", "ok", "failed"}

(* However packets were cut, refused or parsed without an extension object *)
(* before, the outputs are those of one header each: the fields and the    *)
(* size those of the last header that was parsed, the extension that of    *)
(* the last one parsed with an extension object, nothing of an older one.  *)
OutputsAreOfOneHeader ==
  /\ fields = fieldsFrom.fields
  /\ available > 0 => headerSize = PartsSize(fieldsFrom)
  /\ extension = extensionFrom.extension

(* Only headers of version 2 without padding are parsed, and only from a   *)
(* datagram that holds all of the header.                                  *)
OnlyWholeHeaders ==
  /\ fieldsFrom.version = 2 /\ ~fieldsFrom.padding
  /\ available > 0 => available >= PartsSize(fieldsFrom)

(* What WriteRtpHeader has written is parsed back, whatever follows it in  *)
(* the datagram.                                                           *)
RoundTrip ==
  packet # <<>> => \A media \in Media :
    LET data == packet \o media
    IN  /\ CanParse(data)
        /\ ParsedFields(data) = sent.fields
        /\ ParsedExtension(data) = sent.extension
        /\ HeaderSize(data) = Len(packet)

(* ParseRtpLatencyExtension reads from an extension what the sender's      *)
(* BuildRtpLatencyHeaderExtension has put into it (line 122).              *)
LatencyIsCarried ==
  [][/\ ParseRtpLatencyExtension
     /\ extension.profile = kRtpLatencyExtensionProfileId
     /\ Len(extension.payload) = kRtpLatencyExtensionPayloadSize
     => latencyResult' = "ok"]_vars
=============================================================================

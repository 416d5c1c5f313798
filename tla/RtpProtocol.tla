---------------------------- MODULE RtpProtocol ----------------------------
(***************************************************************************)
(* The functions of common/net/RtpProtocol.h, which keep no state: writing *)
(* and parsing an RTP header with at most one header extension, and the    *)
(* extension that carries two timestamps.                                  *)
(*                                                                         *)
(* A packet is a sequence of bytes 0..255; offsets count from 0 as in the  *)
(* code.  A 64-bit timestamp is the pair of its 32-bit halves.  The null   *)
(* pointer that stands for "no extension" is NoExtension: WriteRtpHeader   *)
(* treats an extension without payload in the same way.                    *)
(***************************************************************************)
EXTENDS Integers, Sequences

kRtpHeaderSize == 12
kRtpExtensionHeaderSize == 4
kRtpVersion == 2
kRtpLatencyExtensionProfileId == 21331  \* 0x5353
kRtpLatencyExtensionPayloadSize == 16
kRtpLatencyExtensionWordSize == kRtpLatencyExtensionPayloadSize \div 4

(* A default-constructed RtpHeaderFields and RtpHeaderExtension.           *)
DefaultFields ==
  [marker |-> FALSE, payloadType |-> 96, sequenceNumber |-> 0, timestamp |-> 0, ssrc |-> 0]

NoExtension == [profile |-> 0, payload |-> <<>>]
-----------------------------------------------------------------------------
(* Big-endian integers.                                                    *)
At(data, offset) == data[offset + 1]

ReadBe16(data, offset) == 256 * At(data, offset) + At(data, offset + 1)

ReadBe32(data, offset) ==
  65536 * ReadBe16(data, offset) + ReadBe16(data, offset + 2)

ReadBe64(data, offset) == <<ReadBe32(data, offset), ReadBe32(data, offset + 4)>>

WriteBe16(value) == <<(value \div 256) % 256, value % 256>>

WriteBe32(value) == WriteBe16(value \div 65536) \o WriteBe16(value % 65536)

WriteBe64(value) == WriteBe32(value[1]) \o WriteBe32(value[2])
-----------------------------------------------------------------------------
(* The latency extension.                                                  *)
SerializeRtpLatencyExtension(latency) ==
  WriteBe64(latency.capture) \o WriteBe64(latency.send)

BuildRtpLatencyHeaderExtension(latency) ==
  [profile |-> kRtpLatencyExtensionProfileId,
   payload |-> SerializeRtpLatencyExtension(latency)]

(* The length of the payload, in bytes, is compared with a number of words.*)
IsLatencyExtension(extension) ==
  /\ extension.profile = kRtpLatencyExtensionProfileId
  /\ Len(extension.payload) = kRtpLatencyExtensionWordSize

(* 16 bytes are read, whatever the payload; behind it is other memory.     *)
ParsedLatency(extension, memory) ==
  [capture |-> ReadBe64(extension.payload \o memory, 0),
   send    |-> ReadBe64(extension.payload \o memory, 8)]
-----------------------------------------------------------------------------
(* WriteRtpHeader.                                                         *)
HasPayload(extension) == extension.payload # <<>>

CanWrite(extension) == HasPayload(extension) => Len(extension.payload) % 4 = 0

(* The length on the wire is a static_cast<uint16_t>.                      *)
ExtensionWords(extension) == (Len(extension.payload) \div 4) % 65536

(* Mutated form of ExtensionBytes: the length is not in words.             *)
ExtensionBytesInBytes(extension) ==
  IF HasPayload(extension)
    THEN WriteBe16(extension.profile) \o WriteBe16(Len(extension.payload) % 65536)
           \o extension.payload
    ELSE <<>>

ExtensionBytes(extension) ==
  IF HasPayload(extension)
    THEN WriteBe16(extension.profile) \o WriteBe16(ExtensionWords(extension))
           \o extension.payload
    ELSE <<>>

HeaderBytes(fields, extension) ==
  <<64 * kRtpVersion + (IF HasPayload(extension) THEN 16 ELSE 0),
    (IF fields.marker THEN 128 ELSE 0) + (fields.payloadType % 128)>>
  \o WriteBe16(fields.sequenceNumber)
  \o WriteBe32(fields.timestamp)
  \o WriteBe32(fields.ssrc)
  \o ExtensionBytes(extension)
-----------------------------------------------------------------------------
(* ParseRtpHeader.                                                         *)
Version(data) == At(data, 0) \div 64
HasPadding(data) == (At(data, 0) \div 32) % 2 = 1
HasExtension(data) == (At(data, 0) \div 16) % 2 = 1
CsrcCount(data) == At(data, 0) % 16

BaseHeaderSize(data) == kRtpHeaderSize + 4 * CsrcCount(data)

ExtensionPayloadSize(data) == 4 * ReadBe16(data, BaseHeaderSize(data) + 2)

HeaderSize(data) ==
  BaseHeaderSize(data) +
    IF HasExtension(data) THEN kRtpExtensionHeaderSize + ExtensionPayloadSize(data) ELSE 0

(* Mutated form of CanParse: padding is not looked at.                     *)
CanParsePadded(data) ==
  /\ Len(data) >= kRtpHeaderSize
  /\ Version(data) = kRtpVersion
  /\ Len(data) >= BaseHeaderSize(data)
  /\ HasExtension(data) =>
       /\ Len(data) >= BaseHeaderSize(data) + kRtpExtensionHeaderSize
       /\ Len(data) >= HeaderSize(data)

(* Nothing is read before the packet is known to be long enough for it.    *)
CanParse(data) ==
  /\ Len(data) >= kRtpHeaderSize
  /\ Version(data) = kRtpVersion
  /\ ~HasPadding(data)
  /\ Len(data) >= BaseHeaderSize(data)
  /\ HasExtension(data) =>
       /\ Len(data) >= BaseHeaderSize(data) + kRtpExtensionHeaderSize
       /\ Len(data) >= HeaderSize(data)

(* Mutated forms of ParsedFields and ParsedExtension: the marker is left   *)
(* in the payload type, the extension is looked for behind the fixed part. *)
FieldsWithMarkerInType(data) ==
  [marker         |-> At(data, 1) >= 128,
   payloadType    |-> At(data, 1),
   sequenceNumber |-> ReadBe16(data, 2),
   timestamp      |-> ReadBe32(data, 4),
   ssrc           |-> ReadBe32(data, 8)]

ExtensionAfterFixedPart(data) ==
  IF HasExtension(data)
    THEN [profile |-> ReadBe16(data, kRtpHeaderSize),
          payload |-> SubSeq(data, kRtpHeaderSize + kRtpExtensionHeaderSize + 1,
                             kRtpHeaderSize + kRtpExtensionHeaderSize + ExtensionPayloadSize(data))]
    ELSE NoExtension

ParsedFields(data) ==
  [marker         |-> At(data, 1) >= 128,
   payloadType    |-> At(data, 1) % 128,
   sequenceNumber |-> ReadBe16(data, 2),
   timestamp      |-> ReadBe32(data, 4),
   ssrc           |-> ReadBe32(data, 8)]

ParsedExtension(data) ==
  IF HasExtension(data)
    THEN [profile |-> ReadBe16(data, BaseHeaderSize(data)),
          payload |-> SubSeq(data, BaseHeaderSize(data) + kRtpExtensionHeaderSize + 1,
                             HeaderSize(data))]
    ELSE NoExtension
=============================================================================

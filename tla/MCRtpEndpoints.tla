--------------------------- MODULE MCRtpEndpoints ---------------------------
(***************************************************************************)
(* TLC instances of RtpEndpoints: bytes that are all different, so that    *)
(* swapped ones show, and the extreme values of the narrow fields.  32-bit *)
(* values stay below 2^31, where TLC's integers end.                       *)
(***************************************************************************)
EXTENDS RtpEndpoints

TwoHeaders ==
  {[marker |-> TRUE, payloadType |-> 224, sequenceNumber |-> 65535,
    timestamp |-> 16909060, ssrc |-> 84281096],
   [marker |-> FALSE, payloadType |-> 96, sequenceNumber |-> 258,
    timestamp |-> 0, ssrc |-> 2147483647]}

Timestamps ==
  [capture |-> <<16909060, 84281096>>, send |-> <<151653132, 219025168>>]

(* No extension, the latency extension, one without payload, one that is   *)
(* no number of words, and one of one word with the same profile.          *)
FiveExtensions ==
  {NoExtension, BuildRtpLatencyHeaderExtension(Timestamps),
   [profile |-> 9, payload |-> <<>>],
   [profile |-> 9, payload |-> <<1, 2, 3, 4, 5, 6>>],
   [profile |-> kRtpLatencyExtensionProfileId, payload |-> <<21, 22, 23, 24>>]}

NoneOrOneByte == {<<>>, <<7>>}

TwoMemories == {[i \in 1..12 |-> 0], [i \in 1..12 |-> i]}

ForeignFields ==
  [marker |-> TRUE, payloadType |-> 127, sequenceNumber |-> 772,
   timestamp |-> 1, ssrc |-> 2]

ForeignHeaders ==
  {[version |-> v, padding |-> b, fields |-> ForeignFields, csrcs |-> c,
    extended |-> TRUE, extension |-> e] :
      v \in {1, 2}, b \in BOOLEAN, c \in {<<>>, <<31, 32, 33, 34, 35, 36, 37, 38>>},
      e \in {[profile |-> 513, payload |-> <<>>], [profile |-> 513, payload |-> <<41, 42, 43, 44>>]}}
  \cup
  {[version |-> 2, padding |-> FALSE, fields |-> ForeignFields,
    csrcs |-> <<31, 32, 33, 34>>, extended |-> FALSE, extension |-> NoExtension]}
=============================================================================

----------------------------- MODULE RtpProofs -----------------------------
(***************************************************************************)
(* Theorems about the RTP functions and the endpoints that use them, for   *)
(* any fields, extensions, media, foreign headers and cuts.  An extension  *)
(* of more than 65535 words, which the wire cannot tell, has a theorem of  *)
(* its own, LongExtensionIsCut.                                            *)
(***************************************************************************)
EXTENDS RtpEndpoints, SequenceTheorems, TLAPS

(* What is read from two sequences put together is what is read from the   *)
(* one it lies in.                                                         *)
LEMMA Joined ==
  ASSUME NEW x \in Bytes, NEW y \in Bytes
  PROVE  /\ Len(x) \in Nat /\ Len(y) \in Nat
         /\ x \o y \in Bytes /\ Len(x \o y) = Len(x) + Len(y)
         /\ \A k \in Nat : k + 1 <= Len(x) => At(x \o y, k) = At(x, k)
         /\ \A k \in Nat : k + 1 <= Len(y) => At(x \o y, Len(x) + k) = At(y, k)
BY DEF Bytes, At

LEMMA Regrouped ==
  ASSUME NEW x \in Bytes, NEW y \in Bytes, NEW z \in Bytes
  PROVE  (x \o y) \o z = x \o (y \o z)
BY ConcatAssociative DEF Bytes

(* Numbers are the same wherever their bytes are the same.                 *)
SameBytes(x, i, y, k, n) ==
  \A j \in Nat : (k + j) + 1 <= n => At(x, i + j) = At(y, k + j)

LEMMA ReadsSame ==
  ASSUME NEW x, NEW y, NEW i \in Nat, NEW k \in Nat, NEW n \in Nat,
         SameBytes(x, i, y, k, n)
  PROVE  /\ k + 2 <= n => ReadBe16(x, i) = ReadBe16(y, k)
         /\ k + 4 <= n => ReadBe32(x, i) = ReadBe32(y, k)
<1>1. /\ k + 1 <= n => At(x, i) = At(y, k)
      /\ k + 2 <= n => At(x, i + 1) = At(y, k + 1)
      /\ k + 3 <= n => At(x, i + 2) = At(y, k + 2)
      /\ k + 4 <= n => At(x, i + 2 + 1) = At(y, k + 2 + 1)
  <2>1. 0 \in Nat /\ 1 \in Nat /\ 2 \in Nat /\ 3 \in Nat
    OBVIOUS
  <2>2. i + 0 = i /\ k + 0 = k /\ i + 2 + 1 = i + 3 /\ k + 2 + 1 = k + 3
    OBVIOUS
  <2>3. \A j \in Nat : (k + j) + 1 <= n => At(x, i + j) = At(y, k + j)
    BY Zenon DEF SameBytes
  <2>4. k + 1 <= n => At(x, i) = At(y, k)
    BY <2>1, <2>2, <2>3
  <2>. QED  BY <2>1, <2>2, <2>3, <2>4
<1>2. (k + 2 <= n => k + 1 <= n) /\ (k + 4 <= n => k + 2 <= n /\ k + 3 <= n)
  OBVIOUS
<1>3. k + 2 <= n => ReadBe16(x, i) = ReadBe16(y, k)
  BY Zenon, <1>1, <1>2 DEF ReadBe16
<1>4. k + 4 <= n => ReadBe16(x, i + 2) = ReadBe16(y, k + 2)
  BY Zenon, <1>1, <1>2 DEF ReadBe16
<1>5. k + 4 <= n => ReadBe32(x, i) = ReadBe32(y, k)
  BY SMT, <1>2, <1>3, <1>4 DEF ReadBe32
<1>. QED  BY Zenon, <1>3, <1>5

(* Reading from two sequences put together, from a place before the seam   *)
(* and from one behind it.                                                 *)
Before(x, z, m) ==
  \A k \in Nat : /\ k + 1 <= m => At(z, k) = At(x, k)
                 /\ k + 2 <= m => ReadBe16(z, k) = ReadBe16(x, k)
                 /\ k + 4 <= m => ReadBe32(z, k) = ReadBe32(x, k)

Behind(y, z, m, n) ==
  \A k \in Nat : /\ k + 1 <= n => At(z, m + k) = At(y, k)
                 /\ k + 2 <= n => ReadBe16(z, m + k) = ReadBe16(y, k)
                 /\ k + 4 <= n => ReadBe32(z, m + k) = ReadBe32(y, k)

LEMMA ReadsBefore ==
  ASSUME NEW x, NEW z, NEW m \in Nat,
         \A k \in Nat : k + 1 <= m => At(z, k) = At(x, k)
  PROVE  Before(x, z, m)
<1>. SUFFICES ASSUME NEW k \in Nat
              PROVE  /\ k + 1 <= m => At(z, k) = At(x, k)
                     /\ k + 2 <= m => ReadBe16(z, k) = ReadBe16(x, k)
                     /\ k + 4 <= m => ReadBe32(z, k) = ReadBe32(x, k)
  BY Zenon DEF Before
<1>1. SameBytes(z, k, x, k, m)
  BY DEF SameBytes
<1>2. /\ k + 2 <= m => ReadBe16(z, k) = ReadBe16(x, k)
      /\ k + 4 <= m => ReadBe32(z, k) = ReadBe32(x, k)
  BY ONLY <1>1, ReadsSame, k \in Nat, m \in Nat
<1>. QED  BY Zenon, <1>2

LEMMA JoinedReads ==
  ASSUME NEW x \in Bytes, NEW y \in Bytes
  PROVE  /\ x \o y \in Bytes /\ Len(x \o y) = Len(x) + Len(y)
         /\ Before(x, x \o y, Len(x)) /\ Behind(y, x \o y, Len(x), Len(y))
<1> DEFINE z == x \o y
           m == Len(x)
           n == Len(y)
<1>1. /\ z \in Bytes /\ Len(z) = m + n /\ m \in Nat /\ n \in Nat
      /\ \A k \in Nat : k + 1 <= m => At(z, k) = At(x, k)
      /\ \A k \in Nat : k + 1 <= n => At(z, m + k) = At(y, k)
  BY Zenon, Joined
<1> HIDE DEF z, m, n
<1>2. Before(x, z, m)
  BY Zenon, <1>1, ReadsBefore
<1>3. Behind(y, z, m, n)
  <2>. SUFFICES ASSUME NEW k \in Nat
                PROVE  /\ k + 1 <= n => At(z, m + k) = At(y, k)
                       /\ k + 2 <= n => ReadBe16(z, m + k) = ReadBe16(y, k)
                       /\ k + 4 <= n => ReadBe32(z, m + k) = ReadBe32(y, k)
    BY Zenon DEF Behind
  <2>1. m + k \in Nat /\ \A j \in Nat : m + (k + j) = (m + k) + j /\ k + j \in Nat
    BY <1>1
  <2>2. SameBytes(z, m + k, y, k, n)
    BY Zenon, <1>1, <2>1 DEF SameBytes
  <2>3. /\ k + 2 <= n => ReadBe16(z, m + k) = ReadBe16(y, k)
        /\ k + 4 <= n => ReadBe32(z, m + k) = ReadBe32(y, k)
    <3>1. n \in Nat /\ m + k \in Nat
      BY <1>1
    <3>. QED  BY ONLY <3>1, <2>2, ReadsSame, k \in Nat
  <2>. QED  BY Zenon, <1>1, <2>3
<1>. QED  BY Zenon, <1>1, <1>2, <1>3 DEF z, m, n

(* Big-endian numbers are read as they were written.                       *)
LEMMA Be16 ==
  ASSUME NEW v \in UInt16
  PROVE  /\ WriteBe16(v) \in Bytes /\ Len(WriteBe16(v)) = 2
         /\ ReadBe16(WriteBe16(v), 0) = v
<1> DEFINE a == v \div 256
           b == v % 256
<1>1. a \in Nat /\ b \in 0..255 /\ v = 256 * a + b
  BY SMT DEF UInt16
<1> HIDE DEF a, b
<1>2. a \in 0..255
  BY SMT, <1>1 DEF UInt16
<1>3. a % 256 = a
  BY SMT, <1>2
<1>4. WriteBe16(v) = <<a, b>>
  BY Zenon, <1>3 DEF WriteBe16, a, b
<1>5. <<a, b>> \in Bytes /\ Len(<<a, b>>) = 2 /\ ReadBe16(<<a, b>>, 0) = 256 * a + b
  BY <1>1, <1>2 DEF Bytes, ReadBe16, At
<1>. QED  BY <1>1, <1>4, <1>5

LEMMA Be32 ==
  ASSUME NEW v \in UInt32
  PROVE  /\ WriteBe32(v) \in Bytes /\ Len(WriteBe32(v)) = 4
         /\ ReadBe32(WriteBe32(v), 0) = v
<1> DEFINE h == v \div 65536
           l == v % 65536
           x == WriteBe16(h)
           y == WriteBe16(l)
<1>1. v \in Nat /\ h \in UInt16
  BY SMT DEF UInt32
<1>2. l \in UInt16 /\ v = 65536 * h + l
  BY SMT, <1>1 DEF UInt16
<1> HIDE DEF h, l
<1>3. /\ x \in Bytes /\ Len(x) = 2 /\ ReadBe16(x, 0) = h
      /\ y \in Bytes /\ Len(y) = 2 /\ ReadBe16(y, 0) = l
  <2>1. l \in UInt16
    BY <1>2
  <2>. QED  BY Zenon, <1>1, <2>1, Be16
<1>4. WriteBe32(v) = x \o y
  BY DEF WriteBe32, h, l
<1> HIDE DEF x, y
<1>5. /\ x \o y \in Bytes /\ Len(x \o y) = Len(x) + Len(y)
      /\ Before(x, x \o y, Len(x)) /\ Behind(y, x \o y, Len(x), Len(y))
  BY Zenon, <1>3, JoinedReads
<1>6. ReadBe16(x \o y, 0) = h /\ ReadBe16(x \o y, 2) = l
  BY <1>3, <1>5 DEF Before, Behind
<1>7. ReadBe32(x \o y, 0) = v
  BY <1>2, <1>6 DEF ReadBe32
<1>. QED  BY <1>3, <1>4, <1>5, <1>7
(* The twelve fixed bytes of a header.                                     *)
FixedPart(a, b, s, t, c) ==
  ((<<a, b>> \o WriteBe16(s)) \o WriteBe32(t)) \o WriteBe32(c)

FixedHolds(x, a, b, s, t, c) ==
  /\ x \in Bytes /\ Len(x) = 12
  /\ At(x, 0) = a /\ At(x, 1) = b
  /\ ReadBe16(x, 2) = s /\ ReadBe32(x, 4) = t /\ ReadBe32(x, 8) = c

LEMMA FixedBytes ==
  ASSUME NEW a \in 0..255, NEW b \in 0..255,
         NEW s \in UInt16, NEW t \in UInt32, NEW c \in UInt32
  PROVE  FixedHolds(FixedPart(a, b, s, t, c), a, b, s, t, c)
<1> DEFINE x == FixedPart(a, b, s, t, c)
           h == <<a, b>>
           u == WriteBe16(s)
           v == WriteBe32(t)
           w == WriteBe32(c)
<1>1. h \in Bytes /\ Len(h) = 2 /\ At(h, 0) = a /\ At(h, 1) = b
  BY DEF Bytes, At
<1>2. /\ u \in Bytes /\ Len(u) = 2 /\ ReadBe16(u, 0) = s
      /\ v \in Bytes /\ Len(v) = 4 /\ ReadBe32(v, 0) = t
      /\ w \in Bytes /\ Len(w) = 4 /\ ReadBe32(w, 0) = c
  BY Zenon, Be16, Be32
<1>3. x = ((h \o u) \o v) \o w
  BY Zenon DEF FixedPart
<1> HIDE DEF x, h, u, v, w
<1> DEFINE hu == h \o u
           huv == hu \o v
<1>5. hu \in Bytes /\ Len(hu) = Len(h) + Len(u) /\ Before(h, hu, Len(h)) /\ Behind(u, hu, Len(h), Len(u))
  BY Zenon, <1>1, <1>2, JoinedReads
<1> HIDE DEF hu
<1>6. /\ huv \in Bytes /\ Len(huv) = Len(hu) + Len(v)
      /\ Before(hu, huv, Len(hu)) /\ Behind(v, huv, Len(hu), Len(v))
  BY Zenon, <1>2, <1>5, JoinedReads
<1> HIDE DEF huv
<1>7. x = huv \o w
  BY Zenon, <1>3 DEF hu, huv
<1>11. /\ huv \o w \in Bytes /\ Len(huv \o w) = Len(huv) + Len(w)
       /\ Before(huv, huv \o w, Len(huv)) /\ Behind(w, huv \o w, Len(huv), Len(w))
  BY Zenon, <1>2, <1>6, JoinedReads
<1>8. At(hu, 0) = a /\ At(hu, 1) = b /\ ReadBe16(hu, 2) = s
  BY <1>1, <1>2, <1>5 DEF Before, Behind
<1>9. At(huv, 0) = a /\ At(huv, 1) = b /\ ReadBe16(huv, 2) = s /\ ReadBe32(huv, 4) = t
  BY <1>1, <1>2, <1>5, <1>6, <1>8 DEF Before, Behind
<1>10. /\ At(x, 0) = a /\ At(x, 1) = b
       /\ ReadBe16(x, 2) = s /\ ReadBe32(x, 4) = t /\ ReadBe32(x, 8) = c
  BY <1>1, <1>2, <1>5, <1>6, <1>7, <1>9, <1>11 DEF Before, Behind
<1>12. x \in Bytes /\ Len(x) = 12
  BY <1>1, <1>2, <1>5, <1>6, <1>7, <1>11
<1>. QED  BY Zenon, <1>10, <1>12 DEF FixedHolds, x

FirstHolds(a, version, pad, ext, n) ==
  /\ a \in 0..255 /\ a \div 64 = version
  /\ (a \div 32) % 2 = pad /\ (a \div 16) % 2 = ext /\ a % 16 = n

LEMMA FirstByte ==
  ASSUME NEW version \in 0..3, NEW pad \in {0, 1}, NEW ext \in {0, 1}, NEW n \in 0..15
  PROVE  FirstHolds(64 * version + 32 * pad + 16 * ext + n, version, pad, ext, n)
<1> DEFINE a == 64 * version + 32 * pad + 16 * ext + n
<1>1. a \in 0..255 /\ a \div 64 = version /\ a % 16 = n
  BY SMT
<1>2. a \div 32 = 2 * version + pad /\ a \div 16 = 4 * version + 2 * pad + ext
  BY SMT
<1>3. (2 * version + pad) % 2 = pad /\ (4 * version + 2 * pad + ext) % 2 = ext
  BY SMT
<1> HIDE DEF a
<1>4. FirstHolds(a, version, pad, ext, n)
  BY <1>1, <1>2, <1>3 DEF FirstHolds
<1>. QED  BY Zenon, <1>4 DEF a

SecondHolds(b, marker, type) ==
  b \in 0..255 /\ (b >= 128 <=> marker = 1) /\ b % 128 = type

LEMMA SecondByte ==
  ASSUME NEW marker \in {0, 1}, NEW type \in 0..127
  PROVE  SecondHolds(128 * marker + type, marker, type)
BY SMT DEF SecondHolds

(* The extension as it is written.                                         *)
WrittenExtension(e) ==
  WriteBe16(e.profile) \o WriteBe16(Len(e.payload) \div 4) \o e.payload

LEMMA ExtensionTypes ==
  ASSUME NEW e, IsExtension(e), Len(e.payload) % 4 = 0
  PROVE  /\ e.profile \in UInt16 /\ e.payload \in Bytes /\ Len(e.payload) \in Nat
         /\ Len(e.payload) \div 4 \in UInt16
         /\ 4 * (Len(e.payload) \div 4) = Len(e.payload)
<1> DEFINE n == Len(e.payload)
<1>1. e.profile \in UInt16 /\ e.payload \in Bytes /\ n \div 4 \in UInt16
  BY Zenon DEF IsExtension
<1>2. n \in Nat
  BY <1>1 DEF Bytes
<1> HIDE DEF n
<1>3. n % 4 = 0
  BY DEF n
<1>4. 4 * (n \div 4) = n
  BY SMT, <1>2, <1>3
<1>. QED  BY Zenon, <1>1, <1>2, <1>4 DEF n

LEMMA WrittenBytes ==
  ASSUME NEW e, IsExtension(e), Len(e.payload) % 4 = 0, NEW x, x = WrittenExtension(e)
  PROVE  /\ x \in Bytes /\ Len(x) = 4 + Len(e.payload)
         /\ ReadBe16(x, 0) = e.profile
         /\ 4 * ReadBe16(x, 2) = Len(e.payload)
         /\ \A k \in Nat : k + 1 <= Len(e.payload) => At(x, 4 + k) = At(e.payload, k)
<1> DEFINE f == e.profile
           n == Len(e.payload) \div 4
           y == e.payload
           u == WriteBe16(f)
           w == WriteBe16(n)
           h == u \o w
<1>1. f \in UInt16 /\ y \in Bytes /\ Len(y) \in Nat /\ n \in UInt16 /\ 4 * n = Len(y)
  BY Zenon, ExtensionTypes
<1>2. x = (u \o w) \o y
  BY Zenon DEF WrittenExtension
<1> HIDE DEF f, n, y
<1>3. /\ u \in Bytes /\ Len(u) = 2 /\ ReadBe16(u, 0) = f
      /\ w \in Bytes /\ Len(w) = 2 /\ ReadBe16(w, 0) = n
  BY Zenon, <1>1, Be16
<1> HIDE DEF u, w
<1>4. /\ h \in Bytes /\ Len(h) = Len(u) + Len(w)
      /\ Before(u, h, Len(u)) /\ Behind(w, h, Len(u), Len(w))
  BY Zenon, <1>3, JoinedReads
<1>5. h \in Bytes /\ Len(h) = 4 /\ Before(u, h, 2) /\ Behind(w, h, 2, 2)
  BY <1>3, <1>4
<1> HIDE DEF h
<1>10. /\ h \o y \in Bytes /\ Len(h \o y) = Len(h) + Len(y)
       /\ Before(h, h \o y, Len(h)) /\ Behind(y, h \o y, Len(h), Len(y))
  BY Zenon, <1>1, <1>5, JoinedReads
<1>11. x = h \o y
  BY Zenon, <1>2 DEF h
<1>6. x \in Bytes /\ Len(x) = 4 + Len(y) /\ Before(h, x, 4) /\ Behind(y, x, 4, Len(y))
  BY <1>5, <1>10, <1>11
<1>7. ReadBe16(h, 0) = f /\ ReadBe16(h, 2) = n
  BY <1>3, <1>5 DEF Before, Behind
<1>8. ReadBe16(x, 0) = f /\ ReadBe16(x, 2) = n
  BY <1>6, <1>7 DEF Before
<1>9. \A k \in Nat : k + 1 <= Len(y) => At(x, 4 + k) = At(y, k)
  BY Zenon, <1>6 DEF Behind
<1>. QED  BY Zenon, <1>1, <1>6, <1>8, <1>9 DEF f, y

(* The parts of a header in their order on the wire.                       *)
First(p) ==
  64 * p.version + (IF p.padding THEN 32 ELSE 0) + (IF p.extended THEN 16 ELSE 0)
    + Len(p.csrcs) \div 4

Second(p) == (IF p.fields.marker THEN 128 ELSE 0) + p.fields.payloadType

Fixed(p) ==
  FixedPart(First(p), Second(p), p.fields.sequenceNumber, p.fields.timestamp, p.fields.ssrc)

ExtensionPart(p) == IF p.extended THEN WrittenExtension(p.extension) ELSE <<>>

LEMMA LayoutInParts ==
  ASSUME NEW p
  PROVE  Layout(p) = (Fixed(p) \o p.csrcs) \o ExtensionPart(p)
BY DEF Layout, Fixed, FixedPart, First, Second, ExtensionPart, WrittenExtension

LEMMA HeaderTypes ==
  ASSUME NEW p, IsHeader(p)
  PROVE  /\ p.version \in 0..3 /\ p.padding \in BOOLEAN /\ p.extended \in BOOLEAN
         /\ p.fields.marker \in BOOLEAN /\ p.fields.payloadType \in 0..127
         /\ p.fields.sequenceNumber \in UInt16
         /\ p.fields.timestamp \in UInt32 /\ p.fields.ssrc \in UInt32
         /\ p.fields = [marker |-> p.fields.marker, payloadType |-> p.fields.payloadType,
                        sequenceNumber |-> p.fields.sequenceNumber,
                        timestamp |-> p.fields.timestamp, ssrc |-> p.fields.ssrc]
         /\ p.csrcs \in Bytes /\ Len(p.csrcs) \in 0..60
         /\ Len(p.csrcs) \div 4 \in 0..15 /\ 4 * (Len(p.csrcs) \div 4) = Len(p.csrcs)
         /\ p.extension = [profile |-> p.extension.profile, payload |-> p.extension.payload]
         /\ p.extension.payload \in Bytes /\ Len(p.extension.payload) \in Nat
<1>1. /\ p.version \in 0..3 /\ p.padding \in BOOLEAN /\ p.extended \in BOOLEAN
      /\ IsHeaderFields(p.fields, 127) /\ IsExtension(p.extension)
      /\ p.csrcs \in Bytes /\ Len(p.csrcs) <= 60 /\ Len(p.csrcs) % 4 = 0
  BY DEF IsHeader
<1>2. /\ p.fields.marker \in BOOLEAN /\ p.fields.payloadType \in 0..127
      /\ p.fields.sequenceNumber \in UInt16
      /\ p.fields.timestamp \in UInt32 /\ p.fields.ssrc \in UInt32
      /\ p.fields = [marker |-> p.fields.marker, payloadType |-> p.fields.payloadType,
                     sequenceNumber |-> p.fields.sequenceNumber,
                     timestamp |-> p.fields.timestamp, ssrc |-> p.fields.ssrc]
  BY <1>1 DEF IsHeaderFields
<1>3. /\ p.extension = [profile |-> p.extension.profile, payload |-> p.extension.payload]
      /\ p.extension.payload \in Bytes
  BY <1>1 DEF IsExtension
<1>4. Len(p.extension.payload) \in Nat
  BY <1>3 DEF Bytes
<1> DEFINE m == Len(p.csrcs)
<1>5. m \in Nat
  BY <1>1 DEF Bytes
<1>6. m <= 60 /\ m % 4 = 0
  BY <1>1
<1> HIDE DEF m
<1>7. m \in 0..60 /\ m \div 4 \in 0..15 /\ 4 * (m \div 4) = m
  BY SMT, <1>5, <1>6
<1>. QED  BY Zenon, <1>1, <1>2, <1>3, <1>4, <1>7 DEF m

LEMMA FirstBytes ==
  ASSUME NEW p, IsHeader(p)
  PROVE  /\ First(p) \in 0..255 /\ First(p) \div 64 = p.version
         /\ (First(p) \div 32) % 2 = 1 <=> p.padding
         /\ (First(p) \div 16) % 2 = 1 <=> p.extended
         /\ 4 * (First(p) % 16) = Len(p.csrcs)
         /\ Second(p) \in 0..255 /\ (Second(p) >= 128 <=> p.fields.marker)
         /\ Second(p) % 128 = p.fields.payloadType
<1> DEFINE a == First(p)
           b == Second(p)
           n == Len(p.csrcs) \div 4
           v == p.version
           t == p.fields.payloadType
           pad == IF p.padding THEN 1 ELSE 0
           ext == IF p.extended THEN 1 ELSE 0
           mark == IF p.fields.marker THEN 1 ELSE 0
<1>1. /\ v \in 0..3 /\ n \in 0..15 /\ 4 * n = Len(p.csrcs) /\ t \in 0..127
      /\ pad \in {0, 1} /\ ext \in {0, 1} /\ mark \in {0, 1}
  BY HeaderTypes
<1>2. /\ 32 * pad = IF p.padding THEN 32 ELSE 0
      /\ 16 * ext = IF p.extended THEN 16 ELSE 0
      /\ 128 * mark = IF p.fields.marker THEN 128 ELSE 0
  OBVIOUS
<1>3. (pad = 1 <=> p.padding) /\ (ext = 1 <=> p.extended) /\ (mark = 1 <=> p.fields.marker)
  OBVIOUS
<1>4. a = 64 * v + 32 * pad + 16 * ext + n
  BY <1>2 DEF First
<1>8. b = 128 * mark + t
  BY <1>2 DEF Second
<1> HIDE DEF a, b, n, v, t, pad, ext, mark
<1>5. /\ a \in 0..255 /\ a \div 64 = v
      /\ (a \div 32) % 2 = pad /\ (a \div 16) % 2 = ext /\ a % 16 = n
  <2>1. FirstHolds(64 * v + 32 * pad + 16 * ext + n, v, pad, ext, n)
    BY Zenon, <1>1, FirstByte
  <2>2. FirstHolds(a, v, pad, ext, n)
    BY Zenon, <1>4, <2>1
  <2>. QED  BY Zenon, <2>2 DEF FirstHolds
<1>6. b \in 0..255 /\ (b >= 128 <=> mark = 1) /\ b % 128 = t
  <2>1. SecondHolds(128 * mark + t, mark, t)
    BY Zenon, <1>1, SecondByte
  <2>2. SecondHolds(b, mark, t)
    BY Zenon, <1>8, <2>1
  <2>. QED  BY Zenon, <2>2 DEF SecondHolds
<1>7. 4 * (a % 16) = Len(p.csrcs)
  BY <1>1, <1>5
<1>. QED  BY Zenon, <1>3, <1>5, <1>6, <1>7 DEF a, b, v, t

LEMMA FixedIsRead ==
  ASSUME NEW p, IsHeader(p)
  PROVE  FixedHolds(Fixed(p), First(p), Second(p), p.fields.sequenceNumber,
                    p.fields.timestamp, p.fields.ssrc)
<1>1. First(p) \in 0..255 /\ Second(p) \in 0..255
  BY Zenon, FirstBytes
<1>2. /\ p.fields.sequenceNumber \in UInt16
      /\ p.fields.timestamp \in UInt32 /\ p.fields.ssrc \in UInt32
  BY Zenon, HeaderTypes
<1>. QED  BY Zenon, <1>1, <1>2, FixedBytes DEF Fixed

(* What a header of such parts holds where.                                *)
LayoutHolds(x, p, m) ==
  /\ x \in Bytes /\ Len(x) = PartsSize(p) /\ PartsSize(p) \in Nat
  /\ m \in Nat /\ 12 + m <= PartsSize(p)
  /\ At(x, 0) = First(p) /\ At(x, 1) = Second(p)
  /\ ReadBe16(x, 2) = p.fields.sequenceNumber
  /\ ReadBe32(x, 4) = p.fields.timestamp /\ ReadBe32(x, 8) = p.fields.ssrc
  /\ p.extended =>
       /\ ReadBe16(x, 12 + m) = p.extension.profile
       /\ 4 * ReadBe16(x, 12 + m + 2) = Len(p.extension.payload)
       /\ \A k \in Nat : k + 1 <= Len(p.extension.payload) =>
            At(x, 12 + m + (4 + k)) = At(p.extension.payload, k)

LEMMA LayoutBytes ==
  ASSUME NEW p, IsHeader(p)
  PROVE  LayoutHolds(Layout(p), p, Len(p.csrcs))
<1> DEFINE x == Layout(p)
           m == Len(p.csrcs)
           h == Fixed(p)
           c == p.csrcs
           hc == h \o c
           e == ExtensionPart(p)
           l == Len(p.extension.payload)
<1>1. /\ h \in Bytes /\ Len(h) = 12 /\ At(h, 0) = First(p) /\ At(h, 1) = Second(p)
      /\ ReadBe16(h, 2) = p.fields.sequenceNumber
      /\ ReadBe32(h, 4) = p.fields.timestamp /\ ReadBe32(h, 8) = p.fields.ssrc
  BY Zenon, FixedIsRead DEF FixedHolds
<1>2. c \in Bytes /\ m \in Nat /\ m = Len(c) /\ l \in Nat /\ p.extended \in BOOLEAN
  <2>1. /\ c \in Bytes /\ Len(c) \in 0..60 /\ m = Len(c) /\ l \in Nat
        /\ p.extended \in BOOLEAN
    BY Zenon, HeaderTypes
  <2>2. Len(c) \in Nat
    BY <2>1
  <2>. QED  BY Zenon, <2>1, <2>2
<1>3. IsExtension(p.extension) /\ Len(p.extension.payload) % 4 = 0
  BY Zenon DEF IsHeader
<1>4. p.extended =>
        /\ e \in Bytes /\ Len(e) = 4 + l
        /\ ReadBe16(e, 0) = p.extension.profile /\ 4 * ReadBe16(e, 2) = l
        /\ \A k \in Nat : k + 1 <= l => At(e, 4 + k) = At(p.extension.payload, k)
  <2>1. p.extended => e = WrittenExtension(p.extension)
    BY Zenon DEF ExtensionPart
  <2>. QED  BY Zenon, <1>3, <2>1, WrittenBytes
<1>5. ~p.extended => e \in Bytes /\ Len(e) = 0
  BY DEF ExtensionPart, Bytes
<1>6. e \in Bytes /\ Len(e) = IF p.extended THEN 4 + l ELSE 0
  BY Zenon, <1>2, <1>4, <1>5
<1>7. x = hc \o e
  BY Zenon, LayoutInParts
<1>8. PartsSize(p) = 12 + m + Len(e)
  BY <1>6 DEF PartsSize
<1> HIDE DEF x, m, h, c, e, l
<1>9. hc \in Bytes /\ Len(hc) = Len(h) + Len(c) /\ Before(h, hc, Len(h))
  BY Zenon, <1>1, <1>2, JoinedReads
<1>10. hc \in Bytes /\ Len(hc) = 12 + m /\ Before(h, hc, 12)
  BY <1>1, <1>2, <1>9
<1> HIDE DEF hc
<1>11. /\ hc \o e \in Bytes /\ Len(hc \o e) = Len(hc) + Len(e)
       /\ Before(hc, hc \o e, Len(hc)) /\ Behind(e, hc \o e, Len(hc), Len(e))
  BY Zenon, <1>6, <1>10, JoinedReads
<1>12. /\ x \in Bytes /\ Len(x) = 12 + m + Len(e)
       /\ Before(hc, x, 12 + m) /\ Behind(e, x, 12 + m, Len(e))
  BY Zenon, <1>7, <1>10, <1>11
<1>13. /\ At(hc, 0) = First(p) /\ At(hc, 1) = Second(p)
       /\ ReadBe16(hc, 2) = p.fields.sequenceNumber
       /\ ReadBe32(hc, 4) = p.fields.timestamp /\ ReadBe32(hc, 8) = p.fields.ssrc
  BY <1>1, <1>10 DEF Before
<1>14. /\ At(x, 0) = First(p) /\ At(x, 1) = Second(p)
       /\ ReadBe16(x, 2) = p.fields.sequenceNumber
       /\ ReadBe32(x, 4) = p.fields.timestamp /\ ReadBe32(x, 8) = p.fields.ssrc
  BY <1>2, <1>12, <1>13 DEF Before
<1>15. p.extended =>
         /\ ReadBe16(x, 12 + m) = p.extension.profile
         /\ 4 * ReadBe16(x, 12 + m + 2) = l
         /\ \A k \in Nat : k + 1 <= l => At(x, 12 + m + (4 + k)) = At(p.extension.payload, k)
  <2>. SUFFICES ASSUME p.extended
                PROVE  /\ ReadBe16(x, 12 + m) = p.extension.profile
                       /\ 4 * ReadBe16(x, 12 + m + 2) = l
                       /\ \A k \in Nat : k + 1 <= l =>
                            At(x, 12 + m + (4 + k)) = At(p.extension.payload, k)
    OBVIOUS
  <2>1. /\ Len(e) = 4 + l /\ l \in Nat /\ m \in Nat
        /\ ReadBe16(e, 0) = p.extension.profile /\ 4 * ReadBe16(e, 2) = l
    BY Zenon, <1>2, <1>4
  <2>6. Behind(e, x, 12 + m, 4 + l)
    BY Zenon, <1>12, <2>1
  <2>7. 0 + 2 <= 4 + l /\ 2 + 2 <= 4 + l /\ 0 \in Nat /\ 2 \in Nat
    BY <2>1
  <2>2. ReadBe16(x, 12 + m + 0) = ReadBe16(e, 0) /\ ReadBe16(x, 12 + m + 2) = ReadBe16(e, 2)
    BY Zenon, <2>6, <2>7 DEF Behind
  <2>3. 12 + m + 0 = 12 + m
    BY <2>1
  <2>4. \A k \in Nat : k + 1 <= l => At(e, 4 + k) = At(p.extension.payload, k)
    BY Zenon, <1>4
  <2>5. \A k \in Nat : k + 1 <= l => At(x, 12 + m + (4 + k)) = At(e, 4 + k)
    <3>1. \A k \in Nat : 4 + k \in Nat /\ (k + 1 <= l => (4 + k) + 1 <= 4 + l)
      BY <2>1
    <3>. QED  BY Zenon, <2>6, <3>1 DEF Behind
  <2>. QED  BY Zenon, <2>1, <2>2, <2>3, <2>4, <2>5
<1>16. Len(x) = PartsSize(p) /\ PartsSize(p) \in Nat /\ 12 + m <= PartsSize(p)
  BY <1>2, <1>6, <1>8, <1>12
<1>. QED  BY Zenon, <1>2, <1>12, <1>14, <1>15, <1>16 DEF LayoutHolds, x, m, l
-----------------------------------------------------------------------------
(* What is left of a datagram that begins with a header, however it was    *)
(* cut.                                                                    *)
IsCut(d, x) ==
  d \in Bytes /\ \A n \in Nat : n <= Len(d) /\ n <= Len(x) => Before(x, d, n)

LEMMA SubSeqBytes ==
  ASSUME NEW z \in Bytes, NEW a \in Nat, a >= 1, NEW b \in Nat, b <= Len(z), a <= b + 1
  PROVE  /\ SubSeq(z, a, b) \in Bytes /\ Len(SubSeq(z, a, b)) = b - a + 1
         /\ \A k \in Nat : k + 1 <= b - a + 1 => SubSeq(z, a, b)[k + 1] = z[a + k]
<1> DEFINE u == SubSeq(z, a, b)
<1>1. \A i \in a..b : z[i] \in 0..255
  <2>1. Len(z) \in Nat /\ \A i \in 1..Len(z) : z[i] \in 0..255
    <3>1. z \in Seq(0..255)
      BY DEF Bytes
    <3>. QED  BY Zenon, <3>1, LenProperties, ElementOfSeq
  <2>2. \A i \in a..b : i \in 1..Len(z)
    BY <2>1
  <2>. QED  BY Zenon, <2>1, <2>2
<1>2. /\ u \in Seq(0..255)
      /\ Len(u) = IF a <= b THEN b - a + 1 ELSE 0
      /\ \A i \in 1..(b - a + 1) : u[i] = z[a + i - 1]
  BY <1>1, SubSeqProperties
<1> HIDE DEF u
<1>3. Len(u) = b - a + 1
  BY <1>2
<1>4. \A k \in Nat : k + 1 <= b - a + 1 => u[k + 1] = z[a + k]
  <2>1. \A k \in Nat : /\ a + (k + 1) - 1 = a + k
                       /\ k + 1 <= b - a + 1 => k + 1 \in 1..(b - a + 1)
    OBVIOUS
  <2>2. \A k \in Nat : k + 1 <= b - a + 1 => u[k + 1] = z[a + (k + 1) - 1]
    BY Zenon, <1>2, <2>1
  <2>. QED  BY Zenon, <2>1, <2>2
<1>. QED  BY Zenon, <1>2, <1>3, <1>4 DEF Bytes, u

LEMMA CutReads ==
  ASSUME NEW x \in Bytes, NEW y \in Bytes, NEW d \in Cut(x \o y)
  PROVE  IsCut(d, x)
<1> DEFINE z == x \o y
<1>1. PICK l \in 0..Len(z) : d = SubSeq(z, 1, l)
  BY DEF Cut
<1>2. z \in Bytes /\ \A k \in Nat : k + 1 <= Len(x) => At(z, k) = At(x, k)
  BY Zenon, Joined
<1> HIDE DEF z
<1>3. d \in Bytes /\ Len(d) = l /\ \A k \in Nat : k + 1 <= l => At(d, k) = At(z, k)
  <2>1. l \in Nat /\ l <= Len(z) /\ 1 <= l + 1 /\ l - 1 + 1 = l /\ \A k \in Nat : 1 + k = k + 1
    BY <1>1, <1>2 DEF Bytes
  <2>2. d \in Bytes /\ Len(d) = l /\ \A k \in Nat : k + 1 <= l => d[k + 1] = z[1 + k]
    BY <1>1, <1>2, <2>1, SubSeqBytes
  <2>. QED  BY Zenon, <2>1, <2>2 DEF At
<1>4. ASSUME NEW n \in Nat, n <= Len(d), n <= Len(x)
      PROVE  Before(x, d, n)
  <2>1. Len(x) \in Nat /\ l \in Nat /\ n <= l
    BY <1>1, <1>3, <1>4 DEF Bytes
  <2>2. \A k \in Nat : k + 1 <= n => At(d, k) = At(x, k)
    BY <1>2, <1>3, <1>4, <2>1
  <2>. QED  BY Zenon, <2>2, ReadsBefore
<1>. QED  BY Zenon, <1>3, <1>4 DEF IsCut

LEMMA WholeIsCut ==
  ASSUME NEW x \in Bytes, NEW y \in Bytes
  PROVE  IsCut(x \o y, x) /\ Len(x) \in Nat /\ Len(x \o y) \in Nat /\ Len(x) <= Len(x \o y)
<1> DEFINE z == x \o y
<1>1. /\ z \in Bytes /\ \A k \in Nat : k + 1 <= Len(x) => At(z, k) = At(x, k)
      /\ Len(x) \in Nat /\ Len(y) \in Nat /\ Len(z) = Len(x) + Len(y)
  BY Zenon, Joined
<1> HIDE DEF z
<1>2. Len(z) \in Nat /\ Len(x) <= Len(z)
  BY <1>1
<1>3. ASSUME NEW n \in Nat, n <= Len(z), n <= Len(x)
      PROVE  Before(x, z, n)
  <2>1. \A k \in Nat : k + 1 <= n => At(z, k) = At(x, k)
    BY <1>1, <1>3
  <2>. QED  BY Zenon, <2>1, ReadsBefore
<1>. QED  BY Zenon, <1>1, <1>2, <1>3 DEF IsCut, z

(* ParseRtpHeader accepts what is left of a header of version 2 without    *)
(* padding exactly when all of the header is left, and returns its parts.  *)
ParsedHolds(d, p) ==
  /\ CanParse(d) <=> p.version = 2 /\ ~p.padding /\ PartsSize(p) <= Len(d)
  /\ CanParse(d) => /\ ParsedFields(d) = p.fields
                    /\ ParsedExtension(d) = p.extension
                    /\ HeaderSize(d) = PartsSize(p)

LEMMA ParsedHeader ==
  ASSUME NEW p, IsHeader(p), NEW d, IsCut(d, Layout(p))
  PROVE  ParsedHolds(d, p)
<1> DEFINE x == Layout(p)
           m == Len(p.csrcs)
           l == Len(p.extension.payload)
           s == PartsSize(p)
           n == Len(d)
<1>1. /\ x \in Bytes /\ Len(x) = s /\ s \in Nat
      /\ m \in Nat /\ 12 + m <= s
      /\ At(x, 0) = First(p) /\ At(x, 1) = Second(p)
      /\ ReadBe16(x, 2) = p.fields.sequenceNumber
      /\ ReadBe32(x, 4) = p.fields.timestamp /\ ReadBe32(x, 8) = p.fields.ssrc
      /\ p.extended =>
           /\ ReadBe16(x, 12 + m) = p.extension.profile
           /\ 4 * ReadBe16(x, 12 + m + 2) = l
           /\ \A k \in Nat : k + 1 <= l =>
                At(x, 12 + m + (4 + k)) = At(p.extension.payload, k)
  BY Zenon, LayoutBytes DEF LayoutHolds
<1>2. /\ d \in Bytes /\ n \in Nat
      /\ \A i \in Nat : i <= n /\ i <= s => Before(x, d, i)
  <2>1. d \in Bytes /\ \A i \in Nat : i <= Len(d) /\ i <= Len(x) => Before(x, d, i)
    BY Zenon DEF IsCut
  <2>2. n \in Nat
    BY <2>1 DEF Bytes
  <2>. QED  BY Zenon, <1>1, <2>1, <2>2
<1>3. /\ s = 12 + m + IF p.extended THEN 4 + l ELSE 0
      /\ p.extended \in BOOLEAN /\ p.padding \in BOOLEAN /\ l \in Nat
  <2>1. p.extended \in BOOLEAN /\ p.padding \in BOOLEAN /\ l \in Nat
    BY Zenon, HeaderTypes
  <2>. QED  BY Zenon, <2>1 DEF PartsSize
<1> HIDE DEF x, m, l, s, n
<1>4. CASE n < 12
  <2>1. ~(n >= 12) /\ ~(s <= n)
    BY <1>1, <1>2, <1>4
  <2>2. ~CanParse(d)
    BY Zenon, <2>1 DEF CanParse, kRtpHeaderSize, n
  <2>. QED  BY Zenon, <2>1, <2>2 DEF ParsedHolds, s, n
<1>5. CASE n >= 12
  <2>1. Before(x, d, 12)
    BY <1>1, <1>2, <1>5
  <2>2. /\ At(d, 0) = First(p) /\ At(d, 1) = Second(p)
        /\ ReadBe16(d, 2) = p.fields.sequenceNumber
        /\ ReadBe32(d, 4) = p.fields.timestamp /\ ReadBe32(d, 8) = p.fields.ssrc
    BY <1>1, <2>1 DEF Before
  <2>3. /\ Version(d) = p.version
        /\ HasPadding(d) <=> p.padding
        /\ HasExtension(d) <=> p.extended
        /\ 4 * CsrcCount(d) = m
        /\ At(d, 1) >= 128 <=> p.fields.marker
        /\ At(d, 1) % 128 = p.fields.payloadType
    <3>1. First(p) \div 64 = p.version /\ 4 * (First(p) % 16) = m
      BY Zenon, FirstBytes DEF m
    <3>2. (First(p) \div 32) % 2 = 1 <=> p.padding
      BY Zenon, FirstBytes
    <3>3. (First(p) \div 16) % 2 = 1 <=> p.extended
      BY Zenon, FirstBytes
    <3>4. (Second(p) >= 128 <=> p.fields.marker) /\ Second(p) % 128 = p.fields.payloadType
      BY Zenon, FirstBytes
    <3>5. At(d, 0) = First(p) /\ At(d, 1) = Second(p)
      BY Zenon, <2>2
    <3>6. Version(d) = p.version /\ 4 * CsrcCount(d) = m
      BY Zenon, <3>1, <3>5 DEF Version, CsrcCount
    <3>7. HasPadding(d) <=> p.padding
      BY Zenon, <3>2, <3>5 DEF HasPadding
    <3>8. HasExtension(d) <=> p.extended
      BY Zenon, <3>3, <3>5 DEF HasExtension
    <3>9. (At(d, 1) >= 128 <=> p.fields.marker) /\ At(d, 1) % 128 = p.fields.payloadType
      BY Zenon, <3>4, <3>5
    <3>. QED  BY Zenon, <3>6, <3>7, <3>8, <3>9
  <2>4. ParsedFields(d) = p.fields
    <3>1. /\ p.fields.marker \in BOOLEAN
          /\ p.fields = [marker |-> p.fields.marker, payloadType |-> p.fields.payloadType,
                         sequenceNumber |-> p.fields.sequenceNumber,
                         timestamp |-> p.fields.timestamp, ssrc |-> p.fields.ssrc]
      BY Zenon, HeaderTypes
    <3>2. (At(d, 1) >= 128) = p.fields.marker
      BY <2>3, <3>1
    <3>. QED  BY Zenon, <2>2, <2>3, <3>1, <3>2 DEF ParsedFields
  <2>5. BaseHeaderSize(d) = 12 + m
    BY <2>3 DEF BaseHeaderSize, kRtpHeaderSize
  <2>6. HasExtension(d) \in BOOLEAN /\ HasPadding(d) \in BOOLEAN
    BY Zenon DEF HasExtension, HasPadding
  <2>7. CASE ~p.extended
    <3>1. HeaderSize(d) = s
      BY <1>1, <1>3, <2>3, <2>5, <2>7 DEF HeaderSize
    <3>2. ParsedExtension(d) = p.extension
      BY Zenon, <2>3, <2>7 DEF ParsedExtension, IsHeader
    <3>3. CanParse(d) <=> p.version = 2 /\ ~p.padding /\ s <= n
      <4>1. s = 12 + m
        BY <1>1, <1>3, <2>7
      <4>2. (n >= 12 + m) <=> (s <= n)
        BY <1>1, <1>2, <4>1
      <4>. QED  BY Zenon, <1>5, <2>3, <2>5, <2>7, <4>2 DEF CanParse, kRtpHeaderSize, kRtpVersion, n
    <3>. QED  BY Zenon, <2>4, <3>1, <3>2, <3>3 DEF ParsedHolds, s, n
  <2>8. CASE p.extended
    <3>1. s = 12 + m + 4 + l
      BY <1>1, <1>3, <2>8
    <3>2. CASE n < 12 + m + 4
      <4>1. ~(n >= 12 + m + 4) /\ ~(s <= n)
        BY <1>1, <1>2, <1>3, <3>1, <3>2
      <4>2. ~CanParse(d)
        BY Zenon, <2>3, <2>5, <2>8, <4>1 DEF CanParse, kRtpExtensionHeaderSize, n
      <4>. QED  BY Zenon, <4>1, <4>2 DEF ParsedHolds, s, n
    <3>3. CASE n >= 12 + m + 4
      <4>1. Before(x, d, 12 + m + 4)
        BY <1>1, <1>2, <1>3, <3>1, <3>3
      <4>2. 12 + m \in Nat /\ 12 + m + 2 \in Nat /\ 12 + m + 2 <= 12 + m + 4
            /\ (12 + m + 2) + 2 <= 12 + m + 4
        BY <1>1
      <4>3. ReadBe16(d, 12 + m) = p.extension.profile /\ 4 * ReadBe16(d, 12 + m + 2) = l
        BY Zenon, <1>1, <2>8, <4>1, <4>2 DEF Before
      <4>4. ExtensionPayloadSize(d) = l
        BY Zenon, <2>5, <4>3 DEF ExtensionPayloadSize
      <4>5. HeaderSize(d) = s
        BY <1>1, <1>3, <2>3, <2>5, <2>8, <3>1, <4>4 DEF HeaderSize, kRtpExtensionHeaderSize
      <4>6. CanParse(d) <=> p.version = 2 /\ ~p.padding /\ s <= n
        <5>1. n >= 12 + m /\ (n >= s <=> s <= n)
          BY <1>1, <1>2, <3>3
        <5>. QED  BY Zenon, <1>5, <2>3, <2>5, <2>8, <3>3, <4>5, <5>1
                  DEF CanParse, kRtpHeaderSize, kRtpExtensionHeaderSize, kRtpVersion, n
      <4>7. ASSUME s <= n
            PROVE  ParsedExtension(d) = p.extension
        <5> DEFINE y == p.extension.payload
                   u == SubSeq(d, 12 + m + 4 + 1, s)
        <5>1. /\ y \in Bytes /\ l = Len(y)
              /\ p.extension = [profile |-> p.extension.profile, payload |-> y]
          BY Zenon, HeaderTypes DEF l
        <5>2. Before(x, d, s)
          BY <1>1, <1>2, <4>7
        <5>3. \A k \in Nat : k + 1 <= l => At(d, 12 + m + (4 + k)) = At(y, k)
          <6>1. \A k \in Nat : /\ 12 + m + (4 + k) \in Nat
                               /\ k + 1 <= l => (12 + m + (4 + k)) + 1 <= s
            BY <1>1, <1>3, <3>1
          <6>2. \A k \in Nat : k + 1 <= l => At(x, 12 + m + (4 + k)) = At(y, k)
            BY Zenon, <1>1, <2>8
          <6>. QED  BY Zenon, <5>2, <6>1, <6>2 DEF Before
        <5> HIDE DEF y
        <5>4. u \in Bytes /\ Len(u) = l /\ \A k \in Nat : k + 1 <= l => u[k + 1] = d[12 + m + (4 + k) + 1]
          <6> DEFINE a == 12 + m + 4 + 1
          <6>1. /\ a \in Nat /\ a >= 1 /\ s \in Nat /\ a <= s + 1 /\ s - a + 1 = l
                /\ \A k \in Nat : a + k = 12 + m + (4 + k) + 1
            BY <1>1, <1>3, <3>1
          <6>2. s <= Len(d)
            BY <4>7 DEF n
          <6> HIDE DEF a
          <6>3. /\ SubSeq(d, a, s) \in Bytes /\ Len(SubSeq(d, a, s)) = s - a + 1
                /\ \A k \in Nat : k + 1 <= s - a + 1 => SubSeq(d, a, s)[k + 1] = d[a + k]
            BY Zenon, <1>2, <6>1, <6>2, SubSeqBytes
          <6>4. u = SubSeq(d, a, s)
            BY DEF a
          <6> HIDE DEF u
          <6>5. u \in Bytes /\ Len(u) = l
            BY Zenon, <6>1, <6>3, <6>4
          <6>6. \A k \in Nat : k + 1 <= l => u[k + 1] = d[a + k]
            BY Zenon, <6>1, <6>3, <6>4
          <6>7. \A k \in Nat : k + 1 <= l => u[k + 1] = d[12 + m + (4 + k) + 1]
            <7>. SUFFICES ASSUME NEW k \in Nat, k + 1 <= l
                          PROVE  u[k + 1] = d[12 + m + (4 + k) + 1]
              BY Zenon
            <7>1. a + k = 12 + m + (4 + k) + 1
              BY Zenon, <6>1
            <7>2. u[k + 1] = d[a + k]
              BY Zenon, <6>6
            <7>. QED  BY Zenon, <7>1, <7>2
          <6>. QED  BY Zenon, <6>5, <6>7
        <5> HIDE DEF u
        <5>5. \A k \in Nat : k + 1 <= l => u[k + 1] = y[k + 1]
          BY Zenon, <5>3, <5>4 DEF At
        <5>6. \A i \in 1..l : u[i] = y[i]
          <6>. SUFFICES ASSUME NEW i \in 1..l
                        PROVE  u[i] = y[i]
            OBVIOUS
          <6>1. i - 1 \in Nat /\ (i - 1) + 1 = i /\ (i - 1) + 1 <= l
            BY <1>3
          <6>. QED  BY Zenon, <5>5, <6>1
        <5>7. u = y
          BY <5>1, <5>4, <5>6 DEF Bytes
        <5>8. ParsedExtension(d) = [profile |-> ReadBe16(d, 12 + m), payload |-> u]
          BY Zenon, <2>3, <2>5, <2>8, <4>5 DEF ParsedExtension, kRtpExtensionHeaderSize, u
        <5>. QED  BY Zenon, <4>3, <5>1, <5>7, <5>8
      <4>. QED  BY Zenon, <2>4, <4>5, <4>6, <4>7 DEF ParsedHolds, s, n
    <3>. QED  BY <1>1, <1>2, <3>2, <3>3
  <2>. QED  BY Zenon, <1>3, <2>7, <2>8
<1>. QED  BY <1>2, <1>4, <1>5
-----------------------------------------------------------------------------
(* WriteRtpHeader lays a header out like any other sender.                 *)
LEMMA EmptyExtension == IsExtension(NoExtension)
<1>1. <<>> \in Bytes /\ Len(<<>>) \div 4 = 0 /\ 0 \in UInt16
  BY DEF Bytes, UInt16
<1>. QED  BY Zenon, <1>1 DEF IsExtension, NoExtension

OwnStart(f, e) ==
  FixedPart(64 * 2 + (IF e.payload # <<>> THEN 16 ELSE 0),
            (IF f.marker THEN 128 ELSE 0) + (f.payloadType % 128),
            f.sequenceNumber, f.timestamp, f.ssrc)

IsOwn(p, f, e) ==
  /\ p.version = 2 /\ p.padding = FALSE /\ p.csrcs = <<>>
  /\ p.fields = [f EXCEPT !.payloadType = @ % 128]
  /\ p.extended = (e.payload # <<>>)

LEMMA OwnFields ==
  ASSUME NEW f, IsHeaderFields(f, 255), NEW g, g = [f EXCEPT !.payloadType = @ % 128]
  PROVE  /\ IsHeaderFields(g, 127)
         /\ g.marker = f.marker /\ g.payloadType = f.payloadType % 128
         /\ g.payloadType \in 0..127 /\ g.sequenceNumber = f.sequenceNumber
         /\ g.timestamp = f.timestamp /\ g.ssrc = f.ssrc
<1>2. /\ f.marker \in BOOLEAN /\ f.payloadType \in 0..255
      /\ f.sequenceNumber \in UInt16 /\ f.timestamp \in UInt32 /\ f.ssrc \in UInt32
      /\ f = [marker |-> f.marker, payloadType |-> f.payloadType,
              sequenceNumber |-> f.sequenceNumber,
              timestamp |-> f.timestamp, ssrc |-> f.ssrc]
  BY DEF IsHeaderFields
<1>3. /\ g = [marker |-> f.marker, payloadType |-> f.payloadType % 128,
              sequenceNumber |-> f.sequenceNumber,
              timestamp |-> f.timestamp, ssrc |-> f.ssrc]
      /\ f.payloadType % 128 \in 0..127
  BY <1>2
<1>4. IsHeaderFields(g, 127)
  BY <1>2, <1>3 DEF IsHeaderFields
<1>. QED  BY <1>3, <1>4

LEMMA OwnBytes ==
  ASSUME NEW f, IsHeaderFields(f, 255), NEW e, NEW p, IsOwn(p, f, e)
  PROVE  Fixed(p) = OwnStart(f, e) /\ HeaderBytes(f, e) = OwnStart(f, e) \o ExtensionBytes(e)
<1>1. /\ p.version = 2 /\ p.padding = FALSE /\ p.csrcs = <<>>
      /\ p.fields = [f EXCEPT !.payloadType = @ % 128]
      /\ p.extended = (e.payload # <<>>)
  BY Zenon DEF IsOwn
<1>2. /\ p.fields.marker = f.marker /\ p.fields.payloadType = f.payloadType % 128
      /\ p.fields.sequenceNumber = f.sequenceNumber
      /\ p.fields.timestamp = f.timestamp /\ p.fields.ssrc = f.ssrc
  <2> DEFINE g == [f EXCEPT !.payloadType = @ % 128]
  <2>1. /\ g.marker = f.marker /\ g.payloadType = f.payloadType % 128
        /\ g.sequenceNumber = f.sequenceNumber
        /\ g.timestamp = f.timestamp /\ g.ssrc = f.ssrc
    BY OwnFields
  <2>2. p.fields = g
    BY Zenon, <1>1
  <2> HIDE DEF g
  <2>. QED  BY Zenon, <2>1, <2>2
<1>3. First(p) = 64 * 2 + (IF e.payload # <<>> THEN 16 ELSE 0)
  <2> DEFINE i == IF e.payload # <<>> THEN 16 ELSE 0
             q == IF p.padding THEN 32 ELSE 0
             c == Len(p.csrcs) \div 4
  <2>1. c = 0
    BY <1>1
  <2>2. (IF p.extended THEN 16 ELSE 0) = i
    BY Zenon, <1>1
  <2>3. i \in Nat /\ q = 0
    BY <1>1
  <2>4. First(p) = 64 * 2 + q + i + c
    BY Zenon, <1>1, <2>2 DEF First
  <2> HIDE DEF i, q, c
  <2>5. First(p) = 64 * 2 + i
    BY <2>1, <2>3, <2>4
  <2>. QED  BY Zenon, <2>5 DEF i
<1>4. Second(p) = (IF f.marker THEN 128 ELSE 0) + (f.payloadType % 128)
  BY Zenon, <1>2 DEF Second
<1>5. Fixed(p) = OwnStart(f, e)
  BY Zenon, <1>2, <1>3, <1>4 DEF Fixed, OwnStart
<1>6. HeaderBytes(f, e) = OwnStart(f, e) \o ExtensionBytes(e)
  BY Zenon DEF HeaderBytes, OwnStart, FixedPart, HasPayload, kRtpVersion
<1>. QED  BY Zenon, <1>5, <1>6

LEMMA WrittenHeader ==
  ASSUME NEW f, IsHeaderFields(f, 255), NEW e, IsExtension(e), CanWrite(e)
  PROVE  LET p == OwnParts(f, e)
         IN  /\ IsHeader(p) /\ p.version = 2 /\ ~p.padding
             /\ HeaderBytes(f, e) = Layout(p)
<1> DEFINE p == OwnParts(f, e)
           g == [f EXCEPT !.payloadType = @ % 128]
           x == IF e.payload = <<>> THEN NoExtension ELSE e
<1>1. /\ p.version = 2 /\ p.padding = FALSE /\ p.fields = g /\ p.csrcs = <<>>
      /\ p.extended = (e.payload # <<>>) /\ p.extension = x
  BY DEF OwnParts, kRtpVersion
<1>4. IsHeaderFields(g, 127)
  BY Zenon, OwnFields
<1>9. IsOwn(p, f, e)
  BY Zenon, <1>1 DEF IsOwn
<1>5. /\ IsExtension(x) /\ Len(x.payload) % 4 = 0
      /\ e.payload = <<>> => x = NoExtension
      /\ e.payload # <<>> => x = e
  <2>1. CASE e.payload = <<>>
    <3>1. x = NoExtension /\ Len(NoExtension.payload) % 4 = 0
      BY <2>1 DEF NoExtension
    <3>. QED  BY Zenon, <2>1, <3>1, EmptyExtension
  <2>2. CASE e.payload # <<>>
    BY Zenon, <2>2 DEF CanWrite, HasPayload
  <2>. QED  BY Zenon, <2>1, <2>2
<1>6. <<>> \in Bytes /\ Len(<<>>) <= 60 /\ Len(<<>>) % 4 = 0
  BY DEF Bytes
<1> HIDE DEF g, x
<1>7. IsHeader(p)
  <2> HIDE DEF p
  <2>1. p.version \in 0..3 /\ p.padding \in BOOLEAN /\ p.extended \in BOOLEAN
    <3>1. p.version \in 0..3
      BY <1>1
    <3>. QED  BY Zenon, <1>1, <3>1
  <2>2. p.csrcs \in Bytes /\ Len(p.csrcs) <= 60 /\ Len(p.csrcs) % 4 = 0
    BY Zenon, <1>1, <1>6
  <2>3. ~p.extended => p.extension = NoExtension
    BY Zenon, <1>1, <1>5
  <2>4. IsHeaderFields(p.fields, 127) /\ IsExtension(p.extension) /\ Len(p.extension.payload) % 4 = 0
    BY Zenon, <1>1, <1>4, <1>5
  <2>. QED  BY Zenon, <2>1, <2>2, <2>3, <2>4 DEF IsHeader
<1>8. HeaderBytes(f, e) = Layout(p)
  <2> HIDE DEF p
  <2> DEFINE h == OwnStart(f, e)
  <2>4. Fixed(p) = h /\ HeaderBytes(f, e) = h \o ExtensionBytes(e)
    BY Zenon, <1>9, OwnBytes
  <2> HIDE DEF h
  <2>5. ExtensionPart(p) = ExtensionBytes(e)
    <3>1. CASE e.payload = <<>>
      BY Zenon, <1>1, <3>1 DEF ExtensionPart, ExtensionBytes, HasPayload
    <3>2. CASE e.payload # <<>>
      <4>1. p.extended /\ p.extension = e
        BY Zenon, <1>1, <1>5, <3>2
      <4>2. ExtensionWords(e) = Len(e.payload) \div 4
        <5> DEFINE n == Len(e.payload) \div 4
        <5>1. n \in UInt16
          BY Zenon DEF IsExtension
        <5> HIDE DEF n
        <5>2. n % 65536 = n
          BY SMT, <5>1 DEF UInt16
        <5>3. ExtensionWords(e) = n % 65536
          BY SMT DEF ExtensionWords, n
        <5>4. ExtensionWords(e) = n
          BY SMT, <5>2, <5>3
        <5>. QED  BY Zenon, <5>4 DEF n
      <4>. QED  BY Zenon, <3>2, <4>1, <4>2
                DEF ExtensionPart, WrittenExtension, ExtensionBytes, HasPayload
    <3>. QED  BY Zenon, <3>1, <3>2
  <2>6. h \o p.csrcs = h
    <3>1. Fixed(p) \in Bytes
      BY Zenon, <1>7, FixedIsRead DEF FixedHolds
    <3>2. h \in Bytes
      BY Zenon, <2>4, <3>1
    <3>3. h \in Seq(0..255) /\ p.csrcs = <<>>
      BY Zenon, <1>1, <3>2 DEF Bytes
    <3>. QED  BY Zenon, <3>3, ConcatEmptySeq
  <2>. QED  BY Zenon, LayoutInParts, <2>4, <2>5, <2>6
<1>. QED  BY Zenon, <1>1, <1>7, <1>8
-----------------------------------------------------------------------------
(* The latency extension: two timestamps of 64 bits.                       *)
LEMMA Be64 ==
  ASSUME NEW v \in UInt32 \X UInt32
  PROVE  /\ WriteBe64(v) \in Bytes /\ Len(WriteBe64(v)) = 8
         /\ ReadBe32(WriteBe64(v), 0) = v[1] /\ ReadBe32(WriteBe64(v), 4) = v[2]
<1> DEFINE x == WriteBe32(v[1])
           y == WriteBe32(v[2])
           z == x \o y
<1>1. /\ x \in Bytes /\ Len(x) = 4 /\ ReadBe32(x, 0) = v[1]
      /\ y \in Bytes /\ Len(y) = 4 /\ ReadBe32(y, 0) = v[2]
  <2>1. v[1] \in UInt32 /\ v[2] \in UInt32
    OBVIOUS
  <2>. QED  BY Zenon, <2>1, Be32
<1>2. WriteBe64(v) = z
  BY Zenon DEF WriteBe64
<1> HIDE DEF x, y
<1>3. z \in Bytes /\ Len(z) = Len(x) + Len(y) /\ Before(x, z, Len(x)) /\ Behind(y, z, Len(x), Len(y))
  BY Zenon, <1>1, JoinedReads
<1> HIDE DEF z
<1>4. Len(z) = 8 /\ ReadBe32(z, 0) = v[1] /\ ReadBe32(z, 4) = v[2]
  BY <1>1, <1>3 DEF Before, Behind
<1>. QED  BY Zenon, <1>2, <1>3, <1>4

IsLatency(l) == l \in [capture : UInt32 \X UInt32, send : UInt32 \X UInt32]

LEMMA SerializedLatency ==
  ASSUME NEW l, IsLatency(l)
  PROVE  LET x == SerializeRtpLatencyExtension(l)
         IN  /\ x \in Bytes /\ Len(x) = 16
             /\ [capture |-> ReadBe64(x, 0), send |-> ReadBe64(x, 8)] = l
<1> DEFINE c == WriteBe64(l.capture)
           s == WriteBe64(l.send)
           x == c \o s
<1>1. /\ l.capture \in UInt32 \X UInt32 /\ l.send \in UInt32 \X UInt32
      /\ l = [capture |-> l.capture, send |-> l.send]
  BY DEF IsLatency
<1>2. /\ l.capture = <<l.capture[1], l.capture[2]>>
      /\ l.send = <<l.send[1], l.send[2]>>
  BY <1>1
<1>3. /\ c \in Bytes /\ Len(c) = 8
      /\ ReadBe32(c, 0) = l.capture[1] /\ ReadBe32(c, 4) = l.capture[2]
      /\ s \in Bytes /\ Len(s) = 8
      /\ ReadBe32(s, 0) = l.send[1] /\ ReadBe32(s, 4) = l.send[2]
  BY Zenon, <1>1, Be64
<1>4. SerializeRtpLatencyExtension(l) = x
  BY Zenon DEF SerializeRtpLatencyExtension
<1> HIDE DEF c, s
<1>5. x \in Bytes /\ Len(x) = Len(c) + Len(s) /\ Before(c, x, Len(c)) /\ Behind(s, x, Len(c), Len(s))
  BY Zenon, <1>3, JoinedReads
<1> HIDE DEF x
<1>6. ReadBe32(x, 0) = l.capture[1] /\ ReadBe32(x, 4) = l.capture[2]
  BY <1>3, <1>5 DEF Before
<1>7. ReadBe32(x, 8) = l.send[1] /\ ReadBe32(x, 12) = l.send[2] /\ Len(x) = 16
  BY <1>3, <1>5 DEF Behind
<1>8. 0 + 4 = 4 /\ 8 + 4 = 12
  OBVIOUS
<1>9. ReadBe64(x, 0) = l.capture /\ ReadBe64(x, 8) = l.send
  BY Zenon, <1>2, <1>6, <1>7, <1>8 DEF ReadBe64
<1>. QED  BY Zenon, <1>1, <1>4, <1>5, <1>7, <1>9

(* Whatever its timestamps and the header it travels in, the extension of  *)
(* BuildRtpLatencyHeaderExtension comes out of ParseRtpHeader as it was    *)
(* built and its 16 bytes hold the timestamps, yet the test of the length  *)
(* in ParseRtpLatencyExtension (lines 122 and 123) refuses it.             *)
THEOREM LatencyArrivesAndIsRefused ==
  ASSUME NEW f, IsHeaderFields(f, 255), NEW l, IsLatency(l), NEW media \in Bytes
  PROVE  LET e == BuildRtpLatencyHeaderExtension(l)
             data == HeaderBytes(f, e) \o media
         IN  /\ CanWrite(e) /\ CanParse(data) /\ ParsedExtension(data) = e
             /\ ParsedLatency(e, <<>>) = l
             /\ ~IsLatencyExtension(e)
<1> DEFINE x == SerializeRtpLatencyExtension(l)
           e == BuildRtpLatencyHeaderExtension(l)
           p == OwnParts(f, e)
           y == Layout(p)
           data == HeaderBytes(f, e) \o media
<1>1. /\ x \in Bytes /\ Len(x) = 16
      /\ [capture |-> ReadBe64(x, 0), send |-> ReadBe64(x, 8)] = l
  BY Zenon, SerializedLatency
<1>2. e = [profile |-> kRtpLatencyExtensionProfileId, payload |-> x]
  BY Zenon DEF BuildRtpLatencyHeaderExtension
<1> HIDE DEF x, e
<1>3. e.payload = x /\ e.profile = kRtpLatencyExtensionProfileId
  BY <1>2
<1>4. kRtpLatencyExtensionProfileId \in UInt16 /\ 4 \in UInt16 /\ 16 \div 4 = 4 /\ 16 % 4 = 0
  BY SMT DEF kRtpLatencyExtensionProfileId, UInt16
<1>5. IsExtension(e)
  <2>1. e \in [profile : UInt16, payload : Bytes]
    BY <1>1, <1>2, <1>4
  <2>2. Len(e.payload) \div 4 \in UInt16
    BY Zenon, <1>1, <1>3, <1>4
  <2>. QED  BY Zenon, <2>1, <2>2 DEF IsExtension
<1>6. CanWrite(e)
  BY Zenon, <1>1, <1>3, <1>4 DEF CanWrite
<1>7. x # <<>>
  <2>1. Len(<<>>) = 0 /\ 0 # 16
    OBVIOUS
  <2>. QED  BY Zenon, <1>1, <2>1
<1>8. IsHeader(p) /\ p.version = 2 /\ ~p.padding /\ HeaderBytes(f, e) = y
  BY Zenon, <1>5, <1>6, WrittenHeader
<1>9. p.extension = e
  BY <1>3, <1>7 DEF OwnParts
<1> HIDE DEF p
<1>10. y \in Bytes /\ Len(y) = PartsSize(p)
  BY Zenon, <1>8, LayoutBytes DEF LayoutHolds
<1> HIDE DEF y
<1>11. IsCut(data, y) /\ Len(y) <= Len(data)
  BY Zenon, <1>8, <1>10, WholeIsCut
<1> HIDE DEF data
<1>12. ParsedHolds(data, p)
  BY Zenon, <1>8, <1>11, ParsedHeader DEF y
<1>13. CanParse(data) /\ ParsedExtension(data) = e
  BY Zenon, <1>8, <1>9, <1>10, <1>11, <1>12 DEF ParsedHolds
<1>14. ParsedLatency(e, <<>>) = l
  <2>1. x \o <<>> = x
    BY Zenon, <1>1, ConcatEmptySeq DEF Bytes
  <2>. QED  BY Zenon, <1>1, <1>3, <2>1 DEF ParsedLatency
<1>15. ~IsLatencyExtension(e)
  <2>1. kRtpLatencyExtensionWordSize = 4
    BY SMT DEF kRtpLatencyExtensionWordSize, kRtpLatencyExtensionPayloadSize
  <2>2. 16 # 4
    OBVIOUS
  <2>. QED  BY Zenon, <1>1, <1>3, <2>1, <2>2 DEF IsLatencyExtension
<1>. QED  BY Zenon, <1>6, <1>13, <1>14, <1>15 DEF e, data
-----------------------------------------------------------------------------
(* Extensions whose length does not fit the wire.                          *)
IsLong(e) ==
  /\ e \in [profile : UInt16, payload : Bytes]
  /\ Len(e.payload) % 4 = 0 /\ Len(e.payload) \div 4 \notin UInt16

CutExtension(e) ==
  [profile |-> e.profile, payload |-> SubSeq(e.payload, 1, 4 * ExtensionWords(e))]

LEMMA CutLength ==
  ASSUME NEW e, IsLong(e)
  PROVE  /\ e.profile \in UInt16 /\ e.payload \in Bytes /\ e.payload # <<>>
         /\ Len(e.payload) \in Nat /\ ExtensionWords(e) \in UInt16 /\ ExtensionWords(e) \in Nat
         /\ 4 * ExtensionWords(e) \in Nat /\ (4 * ExtensionWords(e)) \div 4 = ExtensionWords(e)
         /\ (4 * ExtensionWords(e)) % 4 = 0
         /\ 4 * ExtensionWords(e) < Len(e.payload)
<1> DEFINE n == Len(e.payload)
           q == n \div 4
           w == q % 65536
<1>1. e.profile \in UInt16 /\ e.payload \in Bytes /\ n % 4 = 0 /\ q \notin UInt16
  BY DEF IsLong
<1>2. n \in Nat
  BY <1>1 DEF Bytes
<1>3. ExtensionWords(e) = w
  BY SMT DEF ExtensionWords
<1> HIDE DEF n
<1>4. q \in Nat /\ n = 4 * q
  BY SMT, <1>1, <1>2
<1> HIDE DEF q
<1>5. q >= 65536
  BY SMT, <1>1, <1>4 DEF UInt16
<1>6. w \in Nat /\ w < 65536
  BY SMT, <1>4
<1>7. w \in UInt16 /\ w < q
  BY SMT, <1>4, <1>5, <1>6 DEF UInt16
<1> HIDE DEF w
<1>8. 4 * w \in Nat /\ (4 * w) \div 4 = w /\ (4 * w) % 4 = 0 /\ 4 * w < n
  BY SMT, <1>4, <1>6, <1>7
<1>9. n # 0
  BY SMT, <1>4, <1>7, <1>6
<1>10. e.payload # <<>>
  <2>1. Len(<<>>) = 0
    OBVIOUS
  <2>. QED  BY Zenon, <1>9, <2>1 DEF n
<1>. QED  BY SMT, <1>1, <1>2, <1>3, <1>6, <1>7, <1>8, <1>10 DEF n

(* WriteRtpHeader writes all of such an extension but the low 16 bits of   *)
(* its length only (line 171): for any media that follows, ParseRtpHeader  *)
(* takes the packet, returns a beginning of the extension, and ends the    *)
(* header inside of it, so that the rest passes for media.                 *)
THEOREM LongExtensionIsCut ==
  ASSUME NEW f, IsHeaderFields(f, 255), NEW e, IsLong(e), NEW media \in Bytes
  PROVE  LET data == HeaderBytes(f, e) \o media
         IN  /\ CanWrite(e) /\ CanParse(data)
             /\ ParsedFields(data) = [f EXCEPT !.payloadType = @ % 128]
             /\ ParsedExtension(data) = CutExtension(e)
             /\ HeaderSize(data) < Len(HeaderBytes(f, e))
<1> DEFINE w == ExtensionWords(e)
           y == e.payload
           kept == SubSeq(y, 1, 4 * w)
           rest == SubSeq(y, 4 * w + 1, Len(y))
           k == CutExtension(e)
           g == [f EXCEPT !.payloadType = @ % 128]
           p == [version |-> 2, padding |-> FALSE, fields |-> g, csrcs |-> <<>>,
                 extended |-> TRUE, extension |-> k]
           h == OwnStart(f, e)
           u == WriteBe16(e.profile) \o WriteBe16(w)
           data == HeaderBytes(f, e) \o media
<1>1. /\ e.profile \in UInt16 /\ y \in Bytes /\ y # <<>>
      /\ Len(y) \in Nat /\ w \in UInt16 /\ w \in Nat
      /\ 4 * w \in Nat /\ (4 * w) \div 4 = w /\ (4 * w) % 4 = 0 /\ 4 * w < Len(y)
  BY Zenon, CutLength
<1>2. kept \in Bytes /\ Len(kept) = 4 * w
  <2>1. 1 \in Nat /\ 1 >= 1 /\ 4 * w <= Len(y) /\ 1 <= 4 * w + 1 /\ 4 * w - 1 + 1 = 4 * w
    BY <1>1
  <2> HIDE DEF w, y
  <2>. QED  BY <1>1, <2>1, SubSeqBytes
<1>3. rest \in Bytes
  <2>1. 4 * w + 1 \in Nat /\ 4 * w + 1 >= 1 /\ Len(y) <= Len(y) /\ 4 * w + 1 <= Len(y) + 1
    BY <1>1
  <2> HIDE DEF w, y
  <2>. QED  BY <1>1, <2>1, SubSeqBytes
<1>4. y = kept \o rest
  <2>1. /\ 1 \in 1..Len(y) + 1 /\ 4 * w \in 1 - 1 .. Len(y) /\ Len(y) \in 4 * w .. Len(y)
    BY <1>1
  <2>2. y \in Seq(0..255)
    BY Zenon, <1>1 DEF Bytes
  <2> HIDE DEF w, y
  <2>3. SubSeq(y, 1, Len(y)) = y
    BY Zenon, <2>2, SubSeqFull
  <2>4. kept \o rest = SubSeq(y, 1, Len(y))
    BY Zenon, <2>1, <2>2, ConcatAdjacentSubSeq
  <2>. QED  BY Zenon, <2>3, <2>4
<1>5. k = [profile |-> e.profile, payload |-> kept] /\ k.profile = e.profile /\ k.payload = kept
  BY DEF CutExtension
<1>6. /\ p.version = 2 /\ p.padding = FALSE /\ p.csrcs = <<>> /\ p.fields = g
      /\ p.extended = TRUE /\ p.extension = k
  OBVIOUS
<1>7. ExtensionBytes(e) = u \o y
  BY Zenon, <1>1 DEF ExtensionBytes, HasPayload
<1>8. IsOwn(p, f, e)
  BY Zenon, <1>1, <1>6 DEF IsOwn
<1>9. IsHeaderFields(g, 127)
  BY Zenon, OwnFields
<1> HIDE DEF y, kept, rest, k, g, p
<1>10. IsExtension(k) /\ Len(k.payload) % 4 = 0
  <2>1. k \in [profile : UInt16, payload : Bytes]
    BY Zenon, <1>1, <1>2, <1>5
  <2>2. Len(k.payload) \div 4 \in UInt16 /\ Len(k.payload) % 4 = 0
    BY Zenon, <1>1, <1>2, <1>5
  <2>. QED  BY Zenon, <2>1, <2>2 DEF IsExtension
<1>11. IsHeader(p)
  <2>1. <<>> \in Bytes /\ Len(<<>>) <= 60 /\ Len(<<>>) % 4 = 0 /\ 2 \in 0..3
    BY DEF Bytes
  <2>. QED  BY Zenon, <1>6, <1>9, <1>10, <2>1 DEF IsHeader
<1>12. Fixed(p) = h /\ HeaderBytes(f, e) = h \o ExtensionBytes(e)
  BY Zenon, <1>8, OwnBytes
<1>13. h \in Bytes
  BY Zenon, <1>11, <1>12, FixedIsRead DEF FixedHolds
<1>14. u \in Bytes
  <2>1. WriteBe16(e.profile) \in Bytes /\ WriteBe16(w) \in Bytes
    BY Zenon, <1>1, Be16
  <2>. QED  BY Zenon, <2>1, Joined
<1> HIDE DEF h
<1>15. Layout(p) = h \o (u \o kept)
  <2>1. h \o <<>> = h
    BY Zenon, <1>13, ConcatEmptySeq DEF Bytes
  <2>2. ExtensionPart(p) = WrittenExtension(k)
    BY Zenon, <1>6 DEF ExtensionPart
  <2>3. WrittenExtension(k) = u \o kept
    BY Zenon, <1>1, <1>2, <1>5 DEF WrittenExtension
  <2>. QED  BY Zenon, <1>6, <1>12, <2>1, <2>2, <2>3, LayoutInParts
<1> HIDE DEF u, w
<1>16. HeaderBytes(f, e) = Layout(p) \o rest
  <2> DEFINE uk == u \o kept
  <2>1. (u \o kept) \o rest = u \o (kept \o rest)
    BY ONLY <1>2, <1>3, <1>14, Regrouped
  <2>2. uk \in Bytes
    BY Zenon, <1>2, <1>14, Joined
  <2>3. u \o y = uk \o rest
    BY Zenon, <1>4, <2>1
  <2>4. Layout(p) = h \o uk
    BY Zenon, <1>15
  <2> HIDE DEF uk
  <2>5. (h \o uk) \o rest = h \o (uk \o rest)
    BY ONLY <1>3, <1>13, <2>2, Regrouped
  <2>. QED  BY Zenon, <1>7, <1>12, <2>3, <2>4, <2>5
<1>17. Layout(p) \in Bytes /\ Len(Layout(p)) = PartsSize(p)
  BY Zenon, <1>11, LayoutBytes DEF LayoutHolds
<1>18. /\ HeaderBytes(f, e) \in Bytes
       /\ Len(HeaderBytes(f, e)) = PartsSize(p) + Len(rest) /\ PartsSize(p) \in Nat /\ Len(rest) \in Nat
  BY Zenon, <1>3, <1>16, <1>17, Joined
<1>19. Len(rest) > 0
  <2>1. Len(y) = Len(kept) + Len(rest)
    BY Zenon, <1>2, <1>3, <1>4, Joined
  <2>2. Len(rest) \in Nat
    BY Zenon, <1>18
  <2>. QED  BY <1>1, <1>2, <2>1, <2>2
<1>20. data = Layout(p) \o (rest \o media) /\ rest \o media \in Bytes
  <2>1. rest \o media \in Bytes
    BY Zenon, <1>3, Joined
  <2>3. (Layout(p) \o rest) \o media = Layout(p) \o (rest \o media)
    BY ONLY <1>3, <1>17, media \in Bytes, Regrouped
  <2>. QED  BY Zenon, <1>16, <2>1, <2>3
<1> HIDE DEF data
<1>21. IsCut(data, Layout(p)) /\ PartsSize(p) <= Len(data)
  BY Zenon, <1>17, <1>20, WholeIsCut
<1>22. ParsedHolds(data, p)
  BY Zenon, <1>11, <1>21, ParsedHeader
<1>23. /\ CanParse(data) /\ ParsedFields(data) = g /\ ParsedExtension(data) = k
       /\ HeaderSize(data) = PartsSize(p)
  BY Zenon, <1>6, <1>21, <1>22 DEF ParsedHolds
<1>24. HeaderSize(data) < Len(HeaderBytes(f, e))
  <2> DEFINE s == PartsSize(p)
             r == Len(rest)
  <2>1. s \in Nat /\ r \in Nat /\ r > 0
    BY Zenon, <1>18, <1>19
  <2> HIDE DEF s, r
  <2>2. s < s + r
    BY <2>1
  <2>. QED  BY Zenon, <1>18, <1>23, <2>2 DEF s, r
<1>25. CanWrite(e)
  BY Zenon DEF CanWrite, IsLong
<1>. QED  BY Zenon, <1>23, <1>24, <1>25 DEF data, g, k
-----------------------------------------------------------------------------
(* Both histories are headers of version 2 without padding, the buffer     *)
(* holds the layout of the parts that were sent, and the outputs are       *)
(* parts of the headers they come from.                                    *)
Plain(p) == IsHeader(p) /\ p.version = 2 /\ ~p.padding

SenderInv ==
  /\ packet \in Bytes /\ Plain(sent)
  /\ packet # <<>> => packet = Layout(sent)

OutputInv ==
  /\ Plain(fieldsFrom) /\ fields = fieldsFrom.fields
  /\ available > 0 => headerSize = PartsSize(fieldsFrom) /\ PartsSize(fieldsFrom) <= available
  /\ headerSize \in Nat
  /\ Plain(extensionFrom) /\ extension = extensionFrom.extension

IInv == SenderInv /\ OutputInv /\ latencyResult \in {"none", "ok", "failed"}

LEMMA DefaultHeader == Plain(NoParts) /\ NoParts.fields = DefaultFields /\ NoParts.extension = NoExtension
<1>1. 0 \in UInt16 /\ 0 \in UInt32 /\ 96 \in 0..255 /\ 96 % 128 = 96
  BY SMT DEF UInt16, UInt32
<1>2. IsHeaderFields(DefaultFields, 255)
  BY Zenon, <1>1 DEF IsHeaderFields, DefaultFields
<1>3. CanWrite(NoExtension)
  BY Zenon DEF CanWrite, HasPayload, NoExtension
<1>4. Plain(NoParts)
  BY Zenon, <1>2, <1>3, EmptyExtension, WrittenHeader DEF NoParts, Plain
<1>5. NoParts.fields = DefaultFields
  BY <1>1 DEF NoParts, OwnParts, DefaultFields
<1>6. NoParts.extension = NoExtension
  BY DEF NoParts, OwnParts, NoExtension
<1>. QED  BY Zenon, <1>4, <1>5, <1>6

LEMMA InitIInv == Init => IInv
<1>. SUFFICES ASSUME Init PROVE IInv
  OBVIOUS
<1>1. packet = <<>> /\ <<>> \in Bytes /\ available = 0 /\ headerSize = 0
  BY DEF Init, Bytes
<1>2. ~(available > 0) /\ headerSize \in Nat
  BY <1>1
<1>. QED  BY Zenon, <1>1, <1>2, DefaultHeader DEF Init, IInv, SenderInv, OutputInv

(* One datagram.                                                           *)
LEMMA ParseIInv ==
  ASSUME OutputInv, NEW p, IsHeader(p), NEW d, IsCut(d, Layout(p)), NEW wanted \in BOOLEAN,
         ParseRtpHeader(d, p, wanted)
  PROVE  OutputInv'
<1>1. /\ CanParse(d) /\ fields' = ParsedFields(d) /\ fieldsFrom' = p
      /\ headerSize' = HeaderSize(d) /\ available' = Len(d)
      /\ \/ wanted /\ extension' = ParsedExtension(d) /\ extensionFrom' = p
         \/ ~wanted /\ extension' = extension /\ extensionFrom' = extensionFrom
  BY Zenon DEF ParseRtpHeader
<1>2. /\ p.version = 2 /\ ~p.padding /\ PartsSize(p) <= Len(d)
      /\ ParsedFields(d) = p.fields /\ ParsedExtension(d) = p.extension
      /\ HeaderSize(d) = PartsSize(p)
  BY Zenon, <1>1, ParsedHeader DEF ParsedHolds
<1>3. PartsSize(p) \in Nat
  BY Zenon, LayoutBytes DEF LayoutHolds
<1>. QED  BY Zenon, <1>1, <1>2, <1>3 DEF OutputInv, Plain

LEMMA NextIInv == IInv /\ [Next]_vars => IInv'
<1>. SUFFICES ASSUME IInv, [Next]_vars PROVE IInv'
  OBVIOUS
<1>1. ASSUME NEW f \in Fields, NEW e \in Extensions, WriteRtpHeader(f, e)
      PROVE  IInv'
  <2>1. IsHeaderFields(f, 255) /\ IsExtension(e) /\ CanWrite(e)
    BY Zenon, <1>1, EndpointsAssumption DEF WriteRtpHeader
  <2>2. Plain(OwnParts(f, e)) /\ HeaderBytes(f, e) = Layout(OwnParts(f, e))
    BY Zenon, <2>1, WrittenHeader DEF Plain
  <2>3. Layout(OwnParts(f, e)) \in Bytes
    BY Zenon, <2>2, LayoutBytes DEF Plain, LayoutHolds
  <2>4. SenderInv'
    BY Zenon, <1>1, <2>2, <2>3 DEF WriteRtpHeader, SenderInv
  <2>5. OutputInv' /\ latencyResult' = latencyResult
    BY Zenon, <1>1 DEF WriteRtpHeader, IInv, OutputInv, outputs, history
  <2>. QED  BY Zenon, <2>4, <2>5 DEF IInv
<1>2. CASE ReceiveOwn
  <2>1. PICK media \in Media, wanted \in BOOLEAN :
          packet # <<>> /\ \E data \in Cut(packet \o media) : ParseRtpHeader(data, sent, wanted)
    BY Zenon, <1>2 DEF ReceiveOwn
  <2>2. PICK data \in Cut(packet \o media) : ParseRtpHeader(data, sent, wanted)
    BY Zenon, <2>1
  <2>3. packet \in Bytes /\ media \in Bytes /\ IsHeader(sent) /\ packet = Layout(sent)
    BY Zenon, <2>1, EndpointsAssumption DEF IInv, SenderInv, Plain
  <2>4. IsCut(data, Layout(sent))
    BY Zenon, <2>3, CutReads
  <2>5. OutputInv'
    BY Zenon, <2>2, <2>3, <2>4, ParseIInv DEF IInv
  <2>6. SenderInv' /\ latencyResult' = latencyResult
    BY Zenon, <2>2 DEF ParseRtpHeader, sender, IInv, SenderInv
  <2>. QED  BY Zenon, <2>5, <2>6 DEF IInv
<1>3. CASE ReceiveForeign
  <2>1. PICK p \in Foreign, media \in Media, wanted \in BOOLEAN :
          \E data \in Cut(Layout(p) \o media) : ParseRtpHeader(data, p, wanted)
    BY Zenon, <1>3 DEF ReceiveForeign
  <2>2. PICK data \in Cut(Layout(p) \o media) : ParseRtpHeader(data, p, wanted)
    BY Zenon, <2>1
  <2>3. IsHeader(p) /\ media \in Bytes
    BY Zenon, EndpointsAssumption
  <2>4. Layout(p) \in Bytes
    BY Zenon, <2>3, LayoutBytes DEF LayoutHolds
  <2>5. IsCut(data, Layout(p))
    BY Zenon, <2>3, <2>4, CutReads
  <2>6. OutputInv'
    BY Zenon, <2>2, <2>3, <2>5, ParseIInv DEF IInv
  <2>7. SenderInv' /\ latencyResult' = latencyResult
    BY Zenon, <2>2 DEF ParseRtpHeader, sender, IInv, SenderInv
  <2>. QED  BY Zenon, <2>6, <2>7 DEF IInv
<1>4. CASE ParseRtpLatencyExtension
  BY Zenon, <1>4 DEF ParseRtpLatencyExtension, sender, outputs, history, IInv, SenderInv, OutputInv
<1>5. CASE UNCHANGED vars
  BY Zenon, <1>5 DEF vars, sender, outputs, history, IInv, SenderInv, OutputInv
<1>. QED  BY Zenon, <1>1, <1>2, <1>3, <1>4, <1>5 DEF Next

LEMMA Invariance == Spec => []IInv
BY InitIInv, NextIInv, PTL DEF Spec

(* The outputs keep the widths of their fields, whatever is received.      *)
THEOREM TypeCorrect == Spec => []TypeOK
<1>1. ASSUME IInv PROVE TypeOK
  <2>1. IsHeader(fieldsFrom) /\ fields = fieldsFrom.fields
    BY Zenon, <1>1 DEF IInv, OutputInv, Plain
  <2>2. /\ fields.marker \in BOOLEAN /\ fields.payloadType \in 0..127
        /\ fields.sequenceNumber \in UInt16
        /\ fields.timestamp \in UInt32 /\ fields.ssrc \in UInt32
    BY Zenon, <2>1, HeaderTypes
  <2>3. IsExtension(extension)
    BY Zenon, <1>1 DEF IInv, OutputInv, Plain, IsHeader
  <2>4. extension.profile \in UInt16 /\ extension.payload \in Bytes
    BY Zenon, <2>3 DEF IsExtension
  <2>. QED  BY Zenon, <1>1, <2>2, <2>4 DEF IInv, SenderInv, OutputInv, TypeOK
<1>. QED  BY <1>1, Invariance, PTL

(* Parse errors, cuts and calls without an extension object never mix the  *)
(* parts of two headers in the outputs (lines 227 to 246).                 *)
THEOREM OneHeaderAtATime == Spec => []OutputsAreOfOneHeader
<1>1. IInv => OutputsAreOfOneHeader
  BY Zenon DEF IInv, OutputInv, OutputsAreOfOneHeader
<1>. QED  BY <1>1, Invariance, PTL

(* Nothing is parsed from a part of a header, or from a header with        *)
(* another version or padding (lines 198 to 225).                          *)
THEOREM WholeHeadersOnly == Spec => []OnlyWholeHeaders
<1>1. ASSUME IInv PROVE OnlyWholeHeaders
  <2>1. Plain(fieldsFrom) /\ (available > 0 => PartsSize(fieldsFrom) <= available)
    BY Zenon, <1>1 DEF IInv, OutputInv
  <2>2. (available > 0 => available >= PartsSize(fieldsFrom))
    BY <2>1
  <2>. QED  BY Zenon, <2>1, <2>2 DEF Plain, OnlyWholeHeaders
<1>. QED  BY <1>1, Invariance, PTL

(* What WriteRtpHeader writes is what ParseRtpHeader reads, for all        *)
(* fields, extensions below 65536 words and media.                         *)
THEOREM WrittenIsParsed == Spec => []RoundTrip
<1>1. ASSUME IInv PROVE RoundTrip
  <2>. SUFFICES ASSUME packet # <<>>, NEW media \in Media
                PROVE  LET data == packet \o media
                       IN  /\ CanParse(data)
                           /\ ParsedFields(data) = sent.fields
                           /\ ParsedExtension(data) = sent.extension
                           /\ HeaderSize(data) = Len(packet)
    BY Zenon DEF RoundTrip
  <2> DEFINE data == packet \o media
  <2>1. packet \in Bytes /\ media \in Bytes /\ packet = Layout(sent) /\ Plain(sent)
    BY Zenon, <1>1, EndpointsAssumption DEF IInv, SenderInv
  <2>2. IsCut(data, Layout(sent)) /\ Len(packet) <= Len(data)
    BY Zenon, <2>1, WholeIsCut
  <2>3. Len(packet) = PartsSize(sent)
    BY Zenon, <2>1, LayoutBytes DEF Plain, LayoutHolds
  <2> HIDE DEF data
  <2>4. ParsedHolds(data, sent)
    BY Zenon, <2>1, <2>2, ParsedHeader DEF Plain
  <2>. QED  BY Zenon, <2>1, <2>2, <2>3, <2>4 DEF ParsedHolds, Plain, data
<1>. QED  BY <1>1, Invariance, PTL
=============================================================================

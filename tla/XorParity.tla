----------------------------- MODULE XorParity -----------------------------
(***************************************************************************)
(* XorInto of modules/network/StreamClientInternal.h, the arithmetic of    *)
(* forward error correction: the parity fragment is the bitwise sum of two *)
(* data fragments, and a lost fragment is the sum of the other and the     *)
(* parity.  Fragments may differ in length.  A byte is the set of its bits *)
(* that are 1.  A null pointer, for which XorInto returns at once, is left *)
(* out.                                                                    *)
(***************************************************************************)
EXTENDS Integers, Sequences, SequenceTheorems, TLAPS

Byte == SUBSET (0..7)

Xor(a, b) == (a \ b) \cup (b \ a)

Longer(a, b) == IF a > b THEN a ELSE b

(* resize(length, 0) of a buffer that is shorter; no longer one is cut.    *)
Padded(buffer, length) ==
  [i \in 1..Longer(Len(buffer), length) |->
     IF i <= Len(buffer) THEN buffer[i] ELSE {}]

(* The target after XorInto(&target, source.data(), source.size()).        *)
XorInto(target, source) ==
  LET resized == Padded(target, Len(source))
  IN  [i \in DOMAIN resized |->
         IF i <= Len(source) THEN Xor(resized[i], source[i]) ELSE resized[i]]

(* The parity of two data fragments, summed up in an empty buffer.         *)
Parity(data1, data2) == XorInto(XorInto(<<>>, data1), data2)
-----------------------------------------------------------------------------
(* A function on 1..n to bytes is a buffer of n bytes.                     *)
LEMMA IsBuffer ==
  ASSUME NEW n \in Nat, NEW f \in [1..n -> Byte]
  PROVE  f \in Seq(Byte) /\ Len(f) = n
OBVIOUS

(* Padding keeps a buffer a sequence of bytes and gives it the length of   *)
(* the longer.                                                             *)
LEMMA PaddedIsBuffer ==
  ASSUME NEW b \in Seq(Byte), NEW n \in Nat, NEW m, m = Longer(Len(b), n)
  PROVE  /\ m \in Nat /\ Len(b) <= m /\ n <= m
         /\ Padded(b, n) \in [1..m -> Byte]
         /\ \A i \in 1..m : Padded(b, n)[i] = IF i <= Len(b) THEN b[i] ELSE {}
<1>1. m \in Nat /\ Len(b) <= m /\ n <= m
  BY LenProperties DEF Longer
<1>2. ASSUME NEW i \in 1..m PROVE (IF i <= Len(b) THEN b[i] ELSE {}) \in Byte
  <2>1. CASE i <= Len(b)
    <3>1. i \in 1..Len(b)
      BY <1>1, <2>1, LenProperties
    <3>. QED  BY <2>1, <3>1, ElementOfSeq
  <2>2. CASE ~(i <= Len(b))
    BY <2>2 DEF Byte
  <2>. QED  BY <2>1, <2>2
<1>3. Padded(b, n) = [i \in 1..m |-> IF i <= Len(b) THEN b[i] ELSE {}]
  BY DEF Padded
<1>. QED  BY <1>1, <1>2, <1>3

(* What XorInto leaves at every place of the target.                       *)
LEMMA XorIntoAt ==
  ASSUME NEW t \in Seq(Byte), NEW s \in Seq(Byte)
  PROVE  /\ XorInto(t, s) \in Seq(Byte)
         /\ Len(XorInto(t, s)) = Longer(Len(t), Len(s))
         /\ \A i \in 1..Longer(Len(t), Len(s)) :
              XorInto(t, s)[i] = Xor(Padded(t, Len(s))[i], Padded(s, Len(t))[i])
<1> DEFINE n == Longer(Len(t), Len(s))
           p == Padded(t, Len(s))
           x == XorInto(t, s)
<1>1. /\ Len(t) \in Nat /\ Len(s) \in Nat /\ n \in Nat
      /\ n = Longer(Len(s), Len(t))
  BY LenProperties DEF Longer
<1>2. p \in [1..n -> Byte]
  BY <1>1, PaddedIsBuffer
<1>3. x = [i \in 1..n |-> IF i <= Len(s) THEN Xor(p[i], s[i]) ELSE p[i]]
  BY <1>2 DEF XorInto
<1>4. ASSUME NEW i \in 1..n
      PROVE  x[i] \in Byte /\ x[i] = Xor(p[i], Padded(s, Len(t))[i])
  <2> HIDE DEF p, x
  <2>1. p[i] \in Byte
    BY <1>2
  <2>2. Padded(s, Len(t))[i] = IF i <= Len(s) THEN s[i] ELSE {}
    BY <1>1, PaddedIsBuffer
  <2>3. CASE i <= Len(s)
    <3>1. i \in 1..Len(s)
      BY <1>1, <2>3
    <3>2. x[i] = Xor(p[i], s[i]) /\ s[i] \in Byte
      BY <1>3, <2>3, <3>1, ElementOfSeq
    <3>. QED  BY <2>1, <2>2, <2>3, <3>2 DEF Xor, Byte
  <2>4. CASE ~(i <= Len(s))
    <3>1. x[i] = p[i]
      BY <1>3, <2>4
    <3>. QED  BY <2>1, <2>2, <2>4, <3>1 DEF Xor
  <2>. QED  BY <2>3, <2>4
<1>5. x \in [1..n -> Byte]
  <2> HIDE DEF p, x
  <2>. QED  BY <1>3, <1>4
<1>. QED  BY <1>1, <1>4, <1>5, IsBuffer

(* Summing a second time takes away what the first time added.             *)
LEMMA XorTwice ==
  ASSUME NEW a, NEW b
  PROVE  Xor(Xor(a, b), a) = b /\ Xor(Xor(a, b), b) = a /\ Xor({}, a) = a
BY DEF Xor

(* Summing into an empty buffer copies.                                    *)
LEMMA XorIntoEmpty ==
  ASSUME NEW d \in Seq(Byte)
  PROVE  XorInto(<<>>, d) = d
<1> DEFINE e == XorInto(<<>>, d)
<1>1. <<>> \in Seq(Byte) /\ Len(<<>>) = 0 /\ Len(d) \in Nat
  BY EmptySeq, LenProperties
<1>2. Len(d) = Longer(0, Len(d)) /\ Len(d) = Longer(Len(d), 0)
  BY <1>1 DEF Longer
<1>3. /\ e \in Seq(Byte) /\ Len(e) = Len(d)
      /\ \A i \in 1..Len(d) : e[i] = Xor(Padded(<<>>, Len(d))[i], Padded(d, 0)[i])
  <2> DEFINE m == Longer(Len(<<>>), Len(d))
  <2>1. m = Len(d)
    BY <1>1, <1>2
  <2>2. /\ e \in Seq(Byte) /\ Len(e) = m
        /\ \A i \in 1..m : e[i] = Xor(Padded(<<>>, Len(d))[i], Padded(d, Len(<<>>))[i])
    BY Zenon, <1>1, XorIntoAt
  <2> HIDE DEF e, m
  <2>. QED  BY Zenon, <1>1, <2>1, <2>2
<1>4. \A i \in 1..Len(d) : Padded(<<>>, Len(d))[i] = IF i <= 0 THEN <<>>[i] ELSE {}
  BY Zenon, <1>1, <1>2, PaddedIsBuffer
<1>5. \A i \in 1..Len(d) : Padded(d, 0)[i] = IF i <= Len(d) THEN d[i] ELSE {}
  BY Zenon, <1>1, <1>2, PaddedIsBuffer
<1>6. ASSUME NEW i \in 1..Len(d) PROVE e[i] = d[i]
  <2> HIDE DEF e
  <2>1. Padded(<<>>, Len(d))[i] = {} /\ Padded(d, 0)[i] = d[i]
    BY <1>1, <1>4, <1>5
  <2>. QED  BY <1>3, <2>1, XorTwice
<1>. QED  BY <1>3, <1>6, SeqEqual

(* One direction of what follows, for the fragments in either order.       *)
LEMMA Cancels ==
  ASSUME NEW q \in Seq(Byte), NEW d \in Seq(Byte), NEW other \in [1..Len(q) -> Byte],
         Len(d) <= Len(q),
         \A i \in 1..Len(q) : \/ q[i] = Xor(Padded(d, Len(q))[i], other[i])
                             \/ q[i] = Xor(other[i], Padded(d, Len(q))[i])
  PROVE  XorInto(q, d) = other
<1> DEFINE n == Len(q)
           x == XorInto(q, d)
<1>1. n \in Nat /\ Len(d) \in Nat /\ n = Longer(n, Len(d))
  BY LenProperties DEF Longer
<1>2. /\ x \in Seq(Byte) /\ Len(x) = n
      /\ \A i \in 1..n : x[i] = Xor(Padded(q, Len(d))[i], Padded(d, n)[i])
  BY <1>1, XorIntoAt
<1>3. \A i \in 1..n : Padded(q, Len(d))[i] = q[i]
  <2>1. \A i \in 1..n : Padded(q, Len(d))[i] = IF i <= n THEN q[i] ELSE {}
    BY Zenon, <1>1, PaddedIsBuffer
  <2>. QED  BY <1>1, <2>1
<1>4. ASSUME NEW i \in 1..n PROVE x[i] = other[i]
  <2> HIDE DEF x
  <2>1. x[i] = Xor(q[i], Padded(d, n)[i])
    BY <1>2, <1>3
  <2>. QED  BY <2>1, XorTwice
<1>5. other \in Seq(Byte) /\ Len(other) = n
  BY <1>1, IsBuffer
<1>. QED  BY <1>2, <1>4, <1>5, SeqEqual

(* "Whichever one is lost can be recovered from the other two", the        *)
(* comment above XorInto: summing the fragment that arrived into the       *)
(* parity gives the bytes of the lost one.  If that is the shorter of the  *)
(* two, zeros follow; its length has to be known from elsewhere.           *)
THEOREM LostFragmentIsRecovered ==
  ASSUME NEW d1 \in Seq(Byte), NEW d2 \in Seq(Byte)
  PROVE  /\ XorInto(Parity(d1, d2), d1) = Padded(d2, Len(d1))
         /\ XorInto(Parity(d1, d2), d2) = Padded(d1, Len(d2))
<1> DEFINE n == Longer(Len(d1), Len(d2))
           p1 == Padded(d1, Len(d2))
           p2 == Padded(d2, Len(d1))
           q == Parity(d1, d2)
<1>1. /\ Len(d1) \in Nat /\ Len(d2) \in Nat /\ n \in Nat
      /\ Len(d1) <= n /\ Len(d2) <= n
      /\ n = Longer(Len(d2), Len(d1)) /\ n = Longer(Len(d1), n) /\ n = Longer(Len(d2), n)
  BY LenProperties DEF Longer
<1>2. p1 \in [1..n -> Byte] /\ p2 \in [1..n -> Byte]
  BY <1>1, PaddedIsBuffer
<1>3. q \in Seq(Byte) /\ Len(q) = n /\ \A i \in 1..n : q[i] = Xor(p1[i], p2[i])
  <2> DEFINE x == XorInto(d1, d2)
  <2>1. q = x
    BY Zenon, XorIntoEmpty DEF Parity
  <2>2. x \in Seq(Byte) /\ Len(x) = n /\ \A i \in 1..n : x[i] = Xor(p1[i], p2[i])
    BY Zenon, XorIntoAt
  <2> HIDE DEF n, p1, p2, q, x
  <2>. QED  BY Zenon, <2>1, <2>2
<1>4. \A i \in 1..n : Padded(d1, n)[i] = p1[i] /\ Padded(d2, n)[i] = p2[i]
  <2>1. \A i \in 1..n : p1[i] = IF i <= Len(d1) THEN d1[i] ELSE {}
    BY Zenon, <1>1, PaddedIsBuffer
  <2>2. \A i \in 1..n : p2[i] = IF i <= Len(d2) THEN d2[i] ELSE {}
    BY Zenon, <1>1, PaddedIsBuffer
  <2>3. \A i \in 1..n : Padded(d1, n)[i] = IF i <= Len(d1) THEN d1[i] ELSE {}
    BY Zenon, <1>1, PaddedIsBuffer
  <2>4. \A i \in 1..n : Padded(d2, n)[i] = IF i <= Len(d2) THEN d2[i] ELSE {}
    BY Zenon, <1>1, PaddedIsBuffer
  <2> HIDE DEF p1, p2
  <2>. QED  BY <2>1, <2>2, <2>3, <2>4
<1> HIDE DEF n, p1, p2, q
<1>5. XorInto(q, d1) = p2
  BY <1>1, <1>2, <1>3, <1>4, Cancels
<1>6. XorInto(q, d2) = p1
  BY <1>1, <1>2, <1>3, <1>4, Cancels
<1>. QED  BY <1>5, <1>6 DEF p1, p2, q
=============================================================================

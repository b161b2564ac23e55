------------------------------ MODULE CodecProofs ------------------------------
(***************************************************************************)
(* Proofs about the octets: every packet is read back from what            *)
(* encode_packet makes of it, whatever follows, and is incomplete until    *)
(* all of it is there (PacketRoundTrip, DecodeIs); the frames cut out of   *)
(* the receive buffer are the packets sent (FramesArePackets), and the     *)
(* iterator hangs where a read ends inside a length field (StuckIs); and   *)
(* so, for all traffic of packets that the heapless structs can hold, all  *)
(* buffers and cuts of the stream, ReceivedAsSent, ClosedForCause and      *)
(* FirstOfRead.  Sensor data are read back from their chunks in the same   *)
(* way (SampleRead, ChunkRead), and so TypedAsSent.                        *)
(*                                                                         *)
(* The argument goes from small to large: what a sequence holds at a       *)
(* place; the length field; lists and properties; the fields of a body,    *)
(* one after another; the body of each type; a whole packet; the frames    *)
(* of a buffer; the stream and the connection.  The last part is about     *)
(* SensorWire: numbers of several octets, the parts of a payload, each     *)
(* type of data, a chunk, the consumer.                                    *)
(***************************************************************************)
EXTENDS Framing, SensorWire, OrderLemmas

-------------------------------------------------------------------------------
(* Recursion over sequences. *)

\* Induction over the natural numbers, on a set.
LEMMA NatInduct ==
  ASSUME NEW T, 0 \in T, \A n \in Nat : n \in T => n + 1 \in T
  PROVE  Nat \subseteq T
<1> SUFFICES ASSUME Nat \ T # {} PROVE FALSE
  OBVIOUS
<1>1. PICK s \in Nat \ T : \A t \in Nat \ T : s <= t
  BY SmallestExists
<1>2. s - 1 \in Nat /\ s - 1 \in T
  BY <1>1
<1> QED BY <1>1, <1>2

\* The elements of a concatenation.
LEMMA ConcatAt ==
  ASSUME NEW S, NEW a \in Seq(S), NEW b \in Seq(S)
  PROVE  /\ a \o b \in Seq(S) /\ Len(a \o b) = Len(a) + Len(b)
         /\ Len(a) \in Nat /\ Len(b) \in Nat
         /\ \A i \in 1..Len(a) : (a \o b)[i] = a[i]
         /\ \A i \in 1..Len(b) : (a \o b)[Len(a) + i] = b[i]
OBVIOUS

\* Prefixes, element by element.
LEMMA PrefixAt ==
  ASSUME NEW S, NEW a \in Seq(S), NEW b \in Seq(S)
  PROVE  IsPrefix(a, b) <=> Len(a) <= Len(b) /\ \A i \in 1..Len(a) : b[i] = a[i]
<1>1. SubSeq(a, 1, Len(a)) = a
  OBVIOUS
<1>2. Len(a) <= Len(b) => /\ SubSeq(b, 1, Len(a)) \in Seq(S) /\ Len(SubSeq(b, 1, Len(a))) = Len(a)
                          /\ \A i \in 1..Len(a) : SubSeq(b, 1, Len(a))[i] = b[i]
  OBVIOUS
<1>3. ASSUME NEW c \in Seq(S), Len(c) = Len(a) PROVE a = c <=> \A i \in 1..Len(a) : c[i] = a[i]
  BY <1>3
<1> QED BY <1>1, <1>2, <1>3 DEF IsPrefix

\* A prefix of a sequence is one of what continues it.
LEMMA PrefixMore ==
  ASSUME NEW S, NEW a \in Seq(S), NEW b \in Seq(S), NEW c \in Seq(S), IsPrefix(a, b)
  PROVE  IsPrefix(a, b \o c)
<1>1. Len(a) <= Len(b) /\ \A i \in 1..Len(a) : b[i] = a[i]
  BY PrefixAt
<1>2. /\ b \o c \in Seq(S) /\ Len(b \o c) = Len(b) + Len(c) /\ Len(a) \in Nat
      /\ Len(b) \in Nat /\ Len(c) \in Nat /\ \A i \in 1..Len(b) : (b \o c)[i] = b[i]
  BY ConcatAt
<1>3. ASSUME NEW i \in 1..Len(a) PROVE (b \o c)[i] = a[i]
  <2>1. i \in 1..Len(b)
    BY <1>1, <1>2
  <2> QED BY <2>1, <1>1, <1>2
<1>4. Len(a) <= Len(b \o c)
  BY <1>1, <1>2
<1> QED BY <1>2, <1>3, <1>4, PrefixAt

\* The function FlattenSeq is defined by exists, with values that are sequences.
LEMMA FlattenTo ==
  ASSUME NEW S, NEW s \in Seq(Seq(S))
  PROVE  \E f \in [0..Len(s) -> Seq(S)] :
           /\ f[0] = <<>> /\ f[Len(s)] = FlattenSeq(s)
           /\ \A i \in 1..Len(s) : f[i] = f[i - 1] \o s[i]
<1>1. CASE s = <<>>
  <2> DEFINE f == [i \in 0..0 |-> <<>>]
  <2>1. FlattenSeq(s) = <<>> /\ Len(s) = 0
    BY <1>1 DEF FlattenSeq
  <2>2. f \in [0..Len(s) -> Seq(S)] /\ f[0] = <<>>
    BY <2>1
  <2>3. f[Len(s)] = FlattenSeq(s) /\ 1..Len(s) = {}
    BY <2>1
  <2> HIDE DEF f
  <2> QED BY <2>2, <2>3
<1>2. CASE s # <<>>
  <2> DEFINE Is(f, n) == f = [i \in 1..n |-> IF i = 1 THEN s[i] ELSE f[i - 1] \o s[i]]
             T == {n \in Nat : \E f : Is(f, n)}
             fl == CHOOSE f : Is(f, Len(s))
             g == [i \in 0..Len(s) |-> IF i = 0 THEN <<>> ELSE fl[i]]
  <2>1. 0 \in T
    <3>1. Is([i \in 1..0 |-> <<>>], 0)
      OBVIOUS
    <3> QED BY <3>1
  <2>2. ASSUME NEW n \in Nat, n \in T PROVE n + 1 \in T
    <3>1. PICK f : Is(f, n)
      BY <2>2
    <3> DEFINE h == [i \in 1..(n + 1) |-> IF i <= n THEN f[i]
                                          ELSE IF i = 1 THEN s[i] ELSE f[i - 1] \o s[i]]
    <3>2. ASSUME NEW i \in 1..(n + 1)
          PROVE  h[i] = IF i = 1 THEN s[i] ELSE h[i - 1] \o s[i]
      <4>1. CASE i <= n
        <5>1. i \in 1..n /\ h[i] = f[i]
          BY <4>1
        <5>2. f[i] = IF i = 1 THEN s[i] ELSE f[i - 1] \o s[i]
          BY <3>1, <5>1
        <5>3. i # 1 => h[i - 1] = f[i - 1]
          BY <4>1
        <5> QED BY <5>1, <5>2, <5>3
      <4>2. CASE i = n + 1
        BY <4>2
      <4> QED BY <4>1, <4>2
    <3>3. Is(h, n + 1)
      <4> HIDE DEF h
      <4>1. h = [i \in 1..(n + 1) |-> h[i]]
        BY DEF h
      <4> QED BY <3>2, <4>1
    <3> HIDE DEF h
    <3>4. \E k : Is(k, n + 1)
      BY <3>3
    <3> HIDE DEF Is
    <3> QED BY <3>4
  <2>3. Len(s) \in Nat \ {0} /\ \A i \in 1..Len(s) : s[i] \in Seq(S)
    BY <1>2
  <2>4. Is(fl, Len(s))
    <3>1. Len(s) \in T
      <4> HIDE DEF T
      <4> QED BY <2>1, <2>2, <2>3, NatInduct
    <3> QED BY <3>1
  <2>5. FlattenSeq(s) = fl[Len(s)]
    BY <2>3 DEF FlattenSeq
  <2> HIDE DEF fl
  <2>6. \A i \in 1..Len(s) : fl[i] = IF i = 1 THEN s[i] ELSE fl[i - 1] \o s[i]
    BY <2>4
  <2> DEFINE U == {n \in Nat : n \in 1..Len(s) => fl[n] \in Seq(S)}
  <2>7. ASSUME NEW n \in Nat, n \in U PROVE n + 1 \in U
    <3> SUFFICES ASSUME n + 1 \in 1..Len(s) PROVE fl[n + 1] \in Seq(S)
      OBVIOUS
    <3>1. CASE n = 0
      BY <3>1, <2>3, <2>6
    <3>2. CASE n # 0
      <4>1. n \in 1..Len(s) /\ n + 1 # 1 /\ (n + 1) - 1 = n
        BY <3>2
      <4>2. fl[n] \in Seq(S)
        BY <4>1, <2>7
      <4>3. fl[n + 1] = fl[n] \o s[n + 1]
        BY <4>1, <2>6
      <4> QED BY <4>2, <4>3, <2>3
    <3> QED BY <3>1, <3>2
  <2>8. \A n \in 1..Len(s) : fl[n] \in Seq(S)
    <3>1. 0 \in U
      OBVIOUS
    <3>2. Nat \subseteq U
      <4> HIDE DEF U
      <4> QED BY <3>1, <2>7, NatInduct
    <3> QED BY <3>2
  <2>9. g \in [0..Len(s) -> Seq(S)]
    BY <2>8
  <2>10. g[0] = <<>> /\ g[Len(s)] = FlattenSeq(s)
    BY <2>3, <2>5
  <2>11. \A i \in 1..Len(s) : g[i] = g[i - 1] \o s[i]
    <3> SUFFICES ASSUME NEW i \in 1..Len(s) PROVE g[i] = g[i - 1] \o s[i]
      OBVIOUS
    <3>1. CASE i = 1
      BY <3>1, <2>3, <2>6
    <3>2. CASE i # 1
      <4>1. i - 1 \in 1..Len(s) /\ g[i - 1] = fl[i - 1] /\ g[i] = fl[i]
        BY <3>2
      <4> QED BY <4>1, <3>2, <2>6
    <3> QED BY <3>1, <3>2
  <2> HIDE DEF g
  <2> QED BY <2>9, <2>10, <2>11
<1> QED BY <1>1, <1>2

\* Each of the sequences flattened is found whole, where those before it end.
LEMMA FlattenParts ==
  ASSUME NEW S, NEW s \in Seq(Seq(S))
  PROVE  /\ FlattenSeq(s) \in Seq(S)
         /\ \E p \in [0..Len(s) -> Nat] :
              /\ p[0] = 0 /\ p[Len(s)] = Len(FlattenSeq(s))
              /\ \A i \in 1..Len(s) :
                   /\ p[i] = p[i - 1] + Len(s[i]) /\ p[i] <= Len(FlattenSeq(s))
                   /\ \A j \in 1..Len(s[i]) : FlattenSeq(s)[p[i - 1] + j] = s[i][j]
<1>1. PICK f \in [0..Len(s) -> Seq(S)] :
        /\ f[0] = <<>> /\ f[Len(s)] = FlattenSeq(s)
        /\ \A i \in 1..Len(s) : f[i] = f[i - 1] \o s[i]
  BY FlattenTo
<1> DEFINE n == Len(s)
           p == [i \in 0..n |-> Len(f[i])]
           Within(i, k) == Len(f[i]) <= Len(f[k]) /\ \A j \in 1..Len(f[i]) : f[k][j] = f[i][j]
<1>2. n \in Nat /\ (\A i \in 0..n : f[i] \in Seq(S)) /\ (\A i \in 1..n : s[i] \in Seq(S))
  BY <1>1
<1> HIDE DEF n
<1>3. ASSUME NEW i \in 0..n PROVE Within(i, n)
  <2> DEFINE T == {d \in Nat : i + d <= n => Within(i, i + d)}
  <2>1. 0 \in T
    BY <1>2
  <2>2. ASSUME NEW d \in Nat, d \in T, i + d + 1 <= n PROVE Within(i, i + d + 1)
    <3> DEFINE k == i + d
    <3>1. k \in 0..n /\ k + 1 \in 1..n /\ k = (k + 1) - 1
      BY <1>2, <2>2
    <3>2. Within(i, k)
      BY <2>2, <1>2
    <3>3. f[k + 1] = f[k] \o s[k + 1]
      BY <3>1, <1>1 DEF n
    <3>4. f[k] \in Seq(S) /\ s[k + 1] \in Seq(S) /\ f[i] \in Seq(S)
      BY <3>1, <1>2
    <3> HIDE DEF k
    <3>5. Within(i, k + 1)
      <4> HIDE DEF Within
      <4>1. IsPrefix(f[i], f[k])
        BY <3>2, <3>4, PrefixAt DEF Within
      <4>2. IsPrefix(f[i], f[k + 1])
        BY <4>1, <3>3, <3>4, PrefixMore
      <4>3. f[k + 1] \in Seq(S)
        BY <3>3, <3>4
      <4> QED BY <4>2, <4>3, <3>4, PrefixAt DEF Within
    <3> QED BY <3>5 DEF k
  <2>3. \A d \in Nat : d \in T => d + 1 \in T
    BY <2>2
  <2>4. n - i \in T
    <3> HIDE DEF T
    <3>1. Nat \subseteq T
      BY <2>1, <2>3, NatInduct
    <3> QED BY <3>1, <1>2
  <2>5. i + (n - i) = n
    BY <1>2
  <2> QED BY <2>4, <2>5
<1>4. p \in [0..n -> Nat] /\ p[0] = 0 /\ p[n] = Len(FlattenSeq(s))
  BY <1>1, <1>2 DEF n
<1>5. ASSUME NEW i \in 1..n
      PROVE  /\ p[i] = p[i - 1] + Len(s[i]) /\ p[i] <= Len(FlattenSeq(s))
             /\ \A j \in 1..Len(s[i]) : FlattenSeq(s)[p[i - 1] + j] = s[i][j]
  <2>1. i - 1 \in 0..n /\ i \in 0..n
    BY <1>2
  <2>2. f[i] = f[i - 1] \o s[i] /\ FlattenSeq(s) = f[n]
    BY <1>1 DEF n
  <2>3. f[i] \in Seq(S) /\ f[i - 1] \in Seq(S) /\ s[i] \in Seq(S)
    BY <2>1, <1>2
  <2>4. Within(i, n)
    BY <2>1, <1>3
  <2>5. p[i] = Len(f[i]) /\ p[i - 1] = Len(f[i - 1])
    BY <2>1
  <2>6. Len(f[i]) = Len(f[i - 1]) + Len(s[i])
    BY <2>2, <2>3
  <2>7. ASSUME NEW j \in 1..Len(s[i]) PROVE FlattenSeq(s)[p[i - 1] + j] = s[i][j]
    <3> DEFINE a == f[i - 1]
               b == s[i]
    <3>1. a \in Seq(S) /\ b \in Seq(S) /\ j \in 1..Len(b) /\ f[i] = a \o b
      BY <2>2, <2>3
    <3> HIDE DEF a, b
    <3>2. Len(a) + j \in 1..Len(a \o b) /\ (a \o b)[Len(a) + j] = b[j]
      BY <3>1, ConcatAt
    <3>3. Len(f[i - 1]) + j \in 1..Len(f[i]) /\ f[i][Len(f[i - 1]) + j] = s[i][j]
      BY <3>1, <3>2 DEF a, b
    <3> QED BY <3>3, <2>2, <2>4, <2>5
  <2> QED BY <2>2, <2>4, <2>5, <2>6, <2>7
<1>6. FlattenSeq(s) \in Seq(S)
  BY <1>1, <1>2 DEF n
<1> HIDE DEF p
<1> QED BY <1>4, <1>5, <1>6 DEF n

-------------------------------------------------------------------------------
(* Fields: what was written is read, whatever stands before and after it. *)

\* The octets of s stand in buf after cursor c.
Holds(buf, c, s) == c + Len(s) <= Len(buf) /\ \A i \in 1..Len(s) : buf[c + i] = s[i]

\* What holds a concatenation holds its parts, one after the other.
LEMMA HoldsConcat ==
  ASSUME NEW S, NEW buf \in Seq(S), NEW c \in Nat, NEW a \in Seq(S), NEW b \in Seq(S),
         Holds(buf, c, a \o b)
  PROVE  Holds(buf, c, a) /\ Holds(buf, c + Len(a), b)
<1> DEFINE ab == a \o b
<1>1. /\ Len(ab) = Len(a) + Len(b) /\ Len(a) \in Nat /\ Len(b) \in Nat /\ Len(buf) \in Nat
      /\ \A i \in 1..Len(a) : ab[i] = a[i]
      /\ \A i \in 1..Len(b) : ab[Len(a) + i] = b[i]
  BY ConcatAt
<1>2. c + Len(ab) <= Len(buf) /\ \A i \in 1..Len(ab) : buf[c + i] = ab[i]
  BY DEF Holds
<1> HIDE DEF ab
<1>3. Holds(buf, c, a)
  BY <1>1, <1>2 DEF Holds
<1>4. ASSUME NEW i \in 1..Len(b) PROVE buf[c + Len(a) + i] = b[i]
  <2>1. Len(a) + i \in 1..Len(ab) /\ c + (Len(a) + i) = c + Len(a) + i
    BY <1>1
  <2> QED BY <2>1, <1>1, <1>2
<1>5. c + Len(a) + Len(b) <= Len(buf)
  BY <1>1, <1>2
<1> QED BY <1>3, <1>4, <1>5 DEF Holds

\* What is held is the slice there.
LEMMA HoldsSub ==
  ASSUME NEW S, NEW buf \in Seq(S), NEW c \in Nat, NEW a \in Seq(S), Holds(buf, c, a)
  PROVE  SubSeq(buf, c + 1, c + Len(a)) = a
<1>1. /\ Len(a) \in Nat /\ c + Len(a) <= Len(buf) /\ \A i \in 1..Len(a) : buf[c + i] = a[i]
  BY DEF Holds
<1> DEFINE b == SubSeq(buf, c + 1, c + Len(a))
<1>2. b \in Seq(S) /\ Len(b) = Len(a) /\ \A i \in 1..Len(a) : b[i] = buf[c + i]
  BY <1>1
<1> HIDE DEF b
<1>3. b = a
  BY <1>1, <1>2
<1> QED BY <1>3 DEF b

\* A single element held.
LEMMA HoldsOne ==
  ASSUME NEW S, NEW buf \in Seq(S), NEW c \in Nat, NEW x \in S, Holds(buf, c, <<x>>)
  PROVE  c + 1 <= Len(buf) /\ buf[c + 1] = x
<1>1. Len(<<x>>) = 1 /\ <<x>>[1] = x
  OBVIOUS
<1> QED BY <1>1 DEF Holds

\* get_u16 reads what put_u16 wrote.
LEMMA U16Read ==
  ASSUME NEW n \in Word
  PROVE  /\ U16(n) \in Seq(Octet) /\ Len(U16(n)) = 2
         /\ \A buf \in Seq(Octet), c \in Nat : Holds(buf, c, U16(n)) => U16At(buf, c) = n
<1>1. n \in Nat /\ n \div 256 \in Octet /\ n % 256 \in Octet /\ 256 * (n \div 256) + (n % 256) = n
  <2>1. n \in Nat /\ n <= 65535
    BY SMTT(30) DEF Word
  <2>2. n \in Nat
    BY <2>1
  <2> HIDE DEF Word
  <2>3. n % 256 \in 0..255 /\ 256 * (n \div 256) + (n % 256) = n
    BY <2>2, SMTT(30)
  <2>4. n \div 256 \in 0..255
    BY <2>1, SMTT(30)
  <2> QED BY <2>2, <2>3, <2>4 DEF Octet
<1>2. U16(n) \in Seq(Octet) /\ Len(U16(n)) = 2 /\ U16(n)[1] = n \div 256 /\ U16(n)[2] = n % 256
  BY <1>1 DEF U16
<1>3. ASSUME NEW buf \in Seq(Octet), NEW c \in Nat, Holds(buf, c, U16(n)) PROVE U16At(buf, c) = n
  BY <1>1, <1>2, <1>3 DEF U16At, Holds
<1> QED BY <1>2, <1>3

\* decode_string reads what encode_string wrote, and where it ends.
LEMMA StrRead ==
  ASSUME NEW s \in Text
  PROVE  /\ Str(s) \in Seq(Octet) /\ Len(Str(s)) = 2 + Len(s)
         /\ \A buf \in Seq(Octet), c \in Nat : Holds(buf, c, Str(s)) =>
              /\ StrAt(buf, c) = [val |-> s, next |-> c + Len(Str(s))]
              /\ U16At(buf, c) = Len(s)
<1>1. s \in Seq(Octet) /\ Len(s) \in Word /\ Len(s) \in Nat
  BY DEF Text
<1>2. U16(Len(s)) \in Seq(Octet) /\ Len(U16(Len(s))) = 2
  BY <1>1, U16Read
<1>3. Str(s) \in Seq(Octet) /\ Len(Str(s)) = 2 + Len(s)
  <2>1. /\ U16(Len(s)) \o s \in Seq(Octet)
        /\ Len(U16(Len(s)) \o s) = Len(U16(Len(s))) + Len(s)
    BY <1>1, <1>2, ConcatAt
  <2> QED BY <1>1, <1>2, <2>1 DEF Str
<1>4. ASSUME NEW buf \in Seq(Octet), NEW c \in Nat, Holds(buf, c, Str(s))
      PROVE  /\ StrAt(buf, c) = [val |-> s, next |-> c + Len(Str(s))]
             /\ U16At(buf, c) = Len(s)
  <2>1. Holds(buf, c, U16(Len(s))) /\ Holds(buf, c + 2, s)
    BY <1>1, <1>2, <1>4, HoldsConcat DEF Str
  <2>2. U16At(buf, c) = Len(s)
    BY <1>1, <2>1, U16Read
  <2>3. SubSeq(buf, (c + 2) + 1, (c + 2) + Len(s)) = s
    BY <1>1, <2>1, HoldsSub
  <2>4. (c + 2) + Len(s) = c + Len(Str(s))
    BY <1>1, <1>3
  <2> QED BY <2>2, <2>3, <2>4 DEF StrAt, OctetsAt
<1> QED BY <1>3, <1>4

\* The length of a length field.
Digits(n) == IF n < 128 THEN 1 ELSE IF n < 16384 THEN 2 ELSE IF n < 2097152 THEN 3 ELSE 4

\* The octets of a length field: all but the last have the continuation bit, and
\* their lower seven bits add up to the length.
LEMMA VarIntIs ==
  ASSUME NEW n \in Lengths
  PROVE  /\ VarInt(n) \in Seq(Octet) /\ Len(VarInt(n)) = Digits(n) /\ Digits(n) \in 1..4
         /\ \A i \in 1..(Digits(n) - 1) : VarInt(n)[i] >= 128
         /\ VarInt(n)[Digits(n)] < 128
         /\ n = (VarInt(n)[1] % 128)
                + (IF Digits(n) >= 2 THEN (VarInt(n)[2] % 128) * 128 ELSE 0)
                + (IF Digits(n) >= 3 THEN (VarInt(n)[3] % 128) * 16384 ELSE 0)
                + (IF Digits(n) >= 4 THEN (VarInt(n)[4] % 128) * 2097152 ELSE 0)
<1> DEFINE Fits(k) == n < 128 ^ k
           D == {k \in 1..4 : Fits(k)}
           d == Digits(n)
           At(i) == ((n \div 128 ^ (i - 1)) % 128) + 128 * Bit(i < d)
<1>0. n \in Nat /\ n < 268435456
  <2>1. 128 ^ 4 = 268435456
    BY SMT
  <2> QED BY <2>1, SMT DEF Lengths
<1>1. d \in 1..4
  BY SMT DEF Digits
<1>2. \A k \in 1..4 : Fits(k) <=> k >= d
  <2>1. 128 ^ 1 = 128 /\ 128 ^ 2 = 16384 /\ 128 ^ 3 = 2097152 /\ 128 ^ 4 = 268435456
    BY SMT
  <2>2. \A k \in 1..4 : k = 1 \/ k = 2 \/ k = 3 \/ k = 4
    BY SMT
  <2>3. /\ (Fits(1) <=> n < 128) /\ (Fits(2) <=> n < 16384)
        /\ (Fits(3) <=> n < 2097152) /\ Fits(4)
    BY <1>0, <2>1, SMT
  <2> HIDE DEF Fits
  <2>4. (Fits(1) <=> 1 >= d) /\ (Fits(2) <=> 2 >= d) /\ (Fits(3) <=> 3 >= d) /\ (Fits(4) <=> 4 >= d)
    BY <1>0, <2>3, SMT DEF Digits
  <2> HIDE DEF d
  <2> QED BY <2>2, <2>4
<1>3. Min(D) = d
  <2> HIDE DEF Fits, d
  <2>1. d \in D /\ \A k \in D : d <= k
    BY <1>1, <1>2, SMT
  <2>2. ASSUME NEW m \in D, \A k \in D : m <= k PROVE m = d
    BY <2>1, <2>2, <1>1, SMT
  <2> HIDE DEF D
  <2> QED BY <2>1, <2>2 DEF Min
<1>4. VarInt(n) = [i \in 1..d |-> At(i)]
  BY <1>3, SMT DEF VarInt
<1>5. 128 ^ (1 - 1) = 1 /\ 128 ^ (2 - 1) = 128 /\ 128 ^ (3 - 1) = 16384 /\ 128 ^ (4 - 1) = 2097152
  BY SMT
<1>6. /\ At(1) = (n % 128) + 128 * Bit(1 < d)
      /\ At(2) = ((n \div 128) % 128) + 128 * Bit(2 < d)
      /\ At(3) = ((n \div 16384) % 128) + 128 * Bit(3 < d)
      /\ At(4) = ((n \div 2097152) % 128) + 128 * Bit(4 < d)
  BY <1>0, <1>5, SMT
<1> HIDE DEF At
<1>7. \A i \in 1..4 : At(i) \in Octet /\ (i < d => At(i) >= 128) /\ (i = d => At(i) < 128)
  <2>1. \A i \in 1..4 : i = 1 \/ i = 2 \/ i = 3 \/ i = 4
    BY SMT
  <2>2. Bit(TRUE) = 1 /\ Bit(FALSE) = 0
    BY DEF Bit
  <2> DEFINE OK(i) == At(i) \in 0..255 /\ (i < d => At(i) >= 128) /\ (i = d => At(i) < 128)
  <2> HIDE DEF d
  <2>4. /\ n % 128 \in 0..127 /\ (n \div 128) % 128 \in 0..127
        /\ (n \div 16384) % 128 \in 0..127 /\ (n \div 2097152) % 128 \in 0..127
    BY <1>0, SMT
  <2>3. ASSUME NEW i \in 1..4, NEW x \in 0..127, At(i) = x + 128 * Bit(i < d) PROVE OK(i)
    <3>1. CASE i < d
      <4>1. Bit(i < d) = 1
        BY <3>1, Zenon DEF Bit
      <4> DEFINE y == Bit(i < d)
      <4>2. y = 1 /\ At(i) = x + 128 * y
        BY <2>3, <4>1
      <4> HIDE DEF y
      <4>3. At(i) = x + 128
        BY <4>2, SMT
      <4> QED BY <1>1, <3>1, <4>3, SMT
    <3>2. CASE ~(i < d)
      <4>1. Bit(i < d) = 0
        BY <3>2, Zenon DEF Bit
      <4> DEFINE y == Bit(i < d)
      <4>2. y = 0 /\ At(i) = x + 128 * y
        BY <2>3, <4>1
      <4> HIDE DEF y
      <4>3. At(i) = x
        BY <4>2, SMT
      <4> QED BY <1>1, <3>2, <4>3, SMT
    <3> QED BY <3>1, <3>2
  <2> HIDE DEF OK
  <2>5. OK(1) /\ OK(2) /\ OK(3) /\ OK(4)
    BY <1>6, <2>3, <2>4, SMT
  <2> QED BY <2>1, <2>5 DEF OK, Octet
<1>8. n = (At(1) % 128) + (IF d >= 2 THEN (At(2) % 128) * 128 ELSE 0)
          + (IF d >= 3 THEN (At(3) % 128) * 16384 ELSE 0)
          + (IF d >= 4 THEN (At(4) % 128) * 2097152 ELSE 0)
  <2>1. /\ At(1) % 128 = n % 128 /\ At(2) % 128 = (n \div 128) % 128
        /\ At(3) % 128 = (n \div 16384) % 128 /\ At(4) % 128 = (n \div 2097152) % 128
    <3>1. \A x \in 0..127 : (x + 128 * 1) % 128 = x /\ (x + 128 * 0) % 128 = x
      BY SMT
    <3>2. \A x \in 0..127 : \A b : (x + 128 * Bit(b)) % 128 = x
      BY <3>1, SMT DEF Bit
    <3>3. /\ n % 128 \in 0..127 /\ (n \div 128) % 128 \in 0..127
          /\ (n \div 16384) % 128 \in 0..127 /\ (n \div 2097152) % 128 \in 0..127
      BY <1>0, SMT
    <3> QED BY <1>6, <3>2, <3>3, SMT
  <2>2. n < 2097152 => n = (n % 128) + ((n \div 128) % 128) * 128 + ((n \div 16384) % 128) * 16384
    BY <1>0, SMT
  <2>3. n < 16384 => n = (n % 128) + ((n \div 128) % 128) * 128
    BY <1>0, SMT
  <2>4. n = (n % 128) + ((n \div 128) % 128) * 128 + ((n \div 16384) % 128) * 16384
            + ((n \div 2097152) % 128) * 2097152
    BY <1>0, SMT
  <2> QED BY <1>0, <2>1, <2>2, <2>3, <2>4, SMT DEF Digits
<1>9. VarInt(n) \in Seq(Octet) /\ Len(VarInt(n)) = d /\ \A i \in 1..d : VarInt(n)[i] = At(i)
  BY <1>1, <1>4, <1>7, SMT
<1> QED BY <1>1, <1>7, <1>8, <1>9, SMT

\* Min is the smallest member.
LEMMA MinIs ==
  ASSUME NEW T, T \subseteq Nat, NEW m \in T, \A t \in T : m <= t
  PROVE  Min(T) = m
<1>1. \A x \in T : (\A t \in T : x <= t) => x = m
  <2>1. ASSUME NEW x \in T, \A t \in T : x <= t PROVE x = m
    <3>1. x \in Nat /\ m \in Nat /\ x <= m /\ m <= x
      BY <2>1
    <3> QED BY <3>1
  <2> QED BY <2>1
<1> QED BY <1>1 DEF Min

\* A length field ends at its first octet without the continuation bit, of the
\* four there may be.
EndsAt(buf, c, k) == /\ c + k < Len(buf) /\ buf[c + k + 1] < 128
                     /\ \A i \in 0..3 : i < k => ~(buf[c + i + 1] < 128)

\* The length of a field with an end.
LEMMA VarIntEnds ==
  ASSUME NEW buf \in Seq(Octet), NEW c \in Nat, NEW k \in 0..3, EndsAt(buf, c, k)
  PROVE  VarIntAt(buf, c) = VarIntUpTo(buf, c, k)
<1> USE DEF EndsAt
<1> DEFINE T == {4} \cup {i \in 0..3 : c + i < Len(buf) /\ buf[c + i + 1] < 128}
<1>1. T \subseteq Nat /\ k \in T
  OBVIOUS
<1>2. \A t \in T : k <= t
  OBVIOUS
<1> HIDE DEF T
<1>3. Min(T) = k
  BY <1>1, <1>2, MinIs
<1> QED BY <1>3 DEF VarIntAt, T

\* A field of which no octet of four ends it is read as one that is cut off or too
\* long.
LEMMA VarIntOpen ==
  ASSUME NEW buf \in Seq(Octet), NEW c \in Nat,
         \A i \in 0..3 : ~(c + i < Len(buf) /\ buf[c + i + 1] < 128)
  PROVE  VarIntAt(buf, c) = VarIntUpTo(buf, c, 4)
<1> DEFINE T == {4} \cup {i \in 0..3 : c + i < Len(buf) /\ buf[c + i + 1] < 128}
<1>1. T \subseteq Nat /\ 4 \in T /\ \A t \in T : 4 <= t
  OBVIOUS
<1> HIDE DEF T
<1>2. Min(T) = 4
  BY <1>1, MinIs
<1> QED BY <1>2 DEF VarIntAt, T

\* One of the two is the case.
LEMMA VarIntCases ==
  ASSUME NEW buf \in Seq(Octet), NEW c \in Nat
  PROVE  \/ /\ VarIntAt(buf, c) = VarIntUpTo(buf, c, 4)
            /\ \A i \in 0..3 : ~(c + i < Len(buf) /\ buf[c + i + 1] < 128)
         \/ \E k \in 0..3 : VarIntAt(buf, c) = VarIntUpTo(buf, c, k) /\ EndsAt(buf, c, k)
<1> DEFINE T == {i \in 0..3 : c + i < Len(buf) /\ buf[c + i + 1] < 128}
<1>1. CASE T = {}
  BY <1>1, VarIntOpen
<1>2. CASE T # {}
  <2>1. T \subseteq Nat
    OBVIOUS
  <2>2. PICK k \in T : \A t \in T : k <= t
    <3> HIDE DEF T
    <3> QED BY <1>2, <2>1, SmallestExists
  <2>3. ASSUME NEW i \in 0..3, i < k PROVE ~(buf[c + i + 1] < 128)
    <3>1. c + i < Len(buf)
      BY <2>3
    <3>2. i \notin T
      BY <2>2, <2>3
    <3> QED BY <3>1, <3>2
  <2>4. k \in 0..3 /\ c + k < Len(buf) /\ buf[c + k + 1] < 128
    OBVIOUS
  <2>5. EndsAt(buf, c, k)
    BY <2>3, <2>4 DEF EndsAt
  <2> QED BY <2>4, <2>5, VarIntEnds
<1> QED BY <1>1, <1>2

\* Octets are numbers.
LEMMA OctetIs == \A x \in Octet : x \in Nat /\ x <= 255
BY DEF Octet

\* What a length field with k octets behind the first is worth.
LEMMA VarIntValue ==
  ASSUME NEW buf \in Seq(Octet), NEW c \in Nat, NEW k \in 0..3, c + k < Len(buf)
  PROVE  /\ VarIntUpTo(buf, c, k).err = "none" /\ VarIntUpTo(buf, c, k).next = c + k + 1
         /\ VarIntUpTo(buf, c, k).val \in Nat
         /\ VarIntUpTo(buf, c, k).val
              = (buf[c + 1] % 128) + (IF k >= 1 THEN (buf[c + 2] % 128) * 128 ELSE 0)
                + (IF k >= 2 THEN (buf[c + 3] % 128) * 16384 ELSE 0)
                + (IF k >= 3 THEN (buf[c + 4] % 128) * 2097152 ELSE 0)
<1> DEFINE Part(j) == IF j <= k THEN (buf[c + j + 1] % 128) * 128 ^ j ELSE 0
<1>1. VarIntUpTo(buf, c, k) = [err |-> "none", next |-> c + k + 1,
                               val |-> Part(0) + Part(1) + Part(2) + Part(3)]
  BY SMT DEF VarIntUpTo
<1>2. 128 ^ 0 = 1 /\ 128 ^ 1 = 128 /\ 128 ^ 2 = 16384 /\ 128 ^ 3 = 2097152
  BY SMT
<1>3. /\ buf[c + 1] \in Nat /\ (k >= 1 => buf[c + 2] \in Nat) /\ (k >= 2 => buf[c + 3] \in Nat)
      /\ (k >= 3 => buf[c + 4] \in Nat)
  <2>1. ASSUME NEW i \in Nat \ {0}, c + i <= Len(buf) PROVE buf[c + i] \in Nat
    <3>1. c + i \in 1..Len(buf)
      BY <2>1
    <3>2. buf[c + i] \in Octet
      BY <3>1
    <3> QED BY <3>2, OctetIs
  <2> QED BY <2>1, SMT
<1>4. /\ Part(0) = (buf[c + 1] % 128)
      /\ Part(1) = (IF k >= 1 THEN (buf[c + 2] % 128) * 128 ELSE 0)
      /\ Part(2) = (IF k >= 2 THEN (buf[c + 3] % 128) * 16384 ELSE 0)
      /\ Part(3) = (IF k >= 3 THEN (buf[c + 4] % 128) * 2097152 ELSE 0)
  BY <1>2, <1>3, SMT
<1>5. Part(0) \in Nat /\ Part(1) \in Nat /\ Part(2) \in Nat /\ Part(3) \in Nat
  <2>2. ASSUME NEW x, NEW w \in {1, 128, 16384, 2097152}, NEW j \in 0..3, k >= j => x \in Nat
        PROVE  (IF k >= j THEN (x % 128) * w ELSE 0) \in Nat
    <3>1. CASE k >= j
      <4>1. x % 128 \in Nat /\ w \in Nat
        BY <2>2, <3>1, SMT
      <4> DEFINE y == x % 128
      <4> HIDE DEF y
      <4>2. y \in Nat /\ w \in Nat => y * w \in Nat
        BY SMT
      <4> QED BY <3>1, <4>1, <4>2, SMT DEF y
    <3> QED BY <3>1, SMT
  <2>3. Part(0) \in Nat
    <3>1. buf[c + 1] % 128 \in Nat
      BY <1>3, SMT
    <3> QED BY <1>4, <3>1, SMT
  <2> HIDE DEF Part
  <2>4. Part(1) \in Nat
    <3>1. (IF k >= 1 THEN (buf[c + 2] % 128) * 128 ELSE 0) \in Nat
      BY <1>3, <2>2, SMT
    <3> QED BY <1>4, <3>1, SMT
  <2>5. Part(2) \in Nat
    <3>1. (IF k >= 2 THEN (buf[c + 3] % 128) * 16384 ELSE 0) \in Nat
      BY <1>3, <2>2, SMT
    <3> QED BY <1>4, <3>1, SMT
  <2>6. Part(3) \in Nat
    <3>1. (IF k >= 3 THEN (buf[c + 4] % 128) * 2097152 ELSE 0) \in Nat
      BY <1>3, <2>2, SMT
    <3> QED BY <1>4, <3>1, SMT
  <2> QED BY <2>3, <2>4, <2>5, <2>6
<1> HIDE DEF Part
<1>6. Part(0) + Part(1) + Part(2) + Part(3) \in Nat
  BY <1>5
<1> QED BY <1>1, <1>4, <1>6, SMT

\* Without an end within four octets the field is incomplete, or malformed.
LEMMA VarIntNone ==
  ASSUME NEW buf \in Seq(Octet), NEW c \in Nat
  PROVE  VarIntUpTo(buf, c, 4) = [err |-> IF c + 4 <= Len(buf) THEN "malformed" ELSE "incomplete",
                                  next |-> c, val |-> 0]
BY SMT DEF VarIntUpTo

\* A length field that is read lies in the buffer.
LEMMA VarIntType ==
  ASSUME NEW buf \in Seq(Octet), NEW c \in Nat
  PROVE  /\ VarIntAt(buf, c).next \in Nat /\ VarIntAt(buf, c).val \in Nat
         /\ VarIntAt(buf, c).err = "none" =>
              VarIntAt(buf, c).next \in (c + 1)..Len(buf)
<1>1. CASE VarIntAt(buf, c) = VarIntUpTo(buf, c, 4)
  <2> DEFINE e == IF c + 4 <= Len(buf) THEN "malformed" ELSE "incomplete"
             r == VarIntAt(buf, c)
  <2>1. r = [err |-> e, next |-> c, val |-> 0]
    BY <1>1, VarIntNone
  <2>2. e # "none"
    OBVIOUS
  <2> HIDE DEF e, r
  <2>3. r.err = e /\ r.next = c /\ r.val = 0
    BY <2>1
  <2> QED BY <2>2, <2>3 DEF r
<1>2. ASSUME NEW k \in 0..3, VarIntAt(buf, c) = VarIntUpTo(buf, c, k), c + k < Len(buf)
      PROVE  /\ VarIntAt(buf, c).next \in Nat /\ VarIntAt(buf, c).val \in Nat
             /\ VarIntAt(buf, c).next \in (c + 1)..Len(buf)
  <2> DEFINE d == VarIntUpTo(buf, c, k)
  <2>1. d.next = c + k + 1 /\ d.val \in Nat
    BY <1>2, VarIntValue
  <2>3. c + k + 1 \in Nat /\ c + k + 1 \in (c + 1)..Len(buf)
    BY <1>2
  <2> HIDE DEF d
  <2>2. VarIntAt(buf, c) = d
    BY <1>2 DEF d
  <2> QED BY <2>1, <2>2, <2>3
<1>3. CASE \E k \in 0..3 : VarIntAt(buf, c) = VarIntUpTo(buf, c, k) /\ c + k < Len(buf)
  BY <1>2, <1>3
<1> QED BY <1>1, <1>3, VarIntCases DEF EndsAt

\* The octets of s stand in buf after cursor c, as far as buf goes.
Starts(buf, c, s) == \A i \in 1..Len(s) : c + i <= Len(buf) => buf[c + i] = s[i]

\* decode_variable_byte_integer reads what encode_variable_byte_integer wrote, or
\* asks for more of it.
LEMMA VarIntRead ==
  ASSUME NEW n \in Lengths, NEW buf \in Seq(Octet), NEW c \in Nat, c <= Len(buf),
         Starts(buf, c, VarInt(n))
  PROVE  /\ c + Digits(n) <= Len(buf) =>
              VarIntAt(buf, c) = [err |-> "none", next |-> c + Digits(n), val |-> n]
         /\ c + Digits(n) > Len(buf) =>
              VarIntAt(buf, c) = [err |-> "incomplete", next |-> c, val |-> 0]
<1> DEFINE s == VarInt(n)
           d == Digits(n)
<1>1. /\ s \in Seq(Octet) /\ Len(s) = d /\ d \in 1..4
      /\ \A i \in 1..(d - 1) : s[i] >= 128
      /\ s[d] < 128
  BY VarIntIs, SMT
<1>7. n = (s[1] % 128) + (IF d >= 2 THEN (s[2] % 128) * 128 ELSE 0)
          + (IF d >= 3 THEN (s[3] % 128) * 16384 ELSE 0)
          + (IF d >= 4 THEN (s[4] % 128) * 2097152 ELSE 0)
  BY VarIntIs, SMT
<1> HIDE DEF s, d
<1>2. \A i \in 1..d : c + i <= Len(buf) => buf[c + i] = s[i]
  BY <1>1 DEF Starts, s
<1>3. \A i \in 1..d : s[i] \in Nat
  BY <1>1, OctetIs
<1>4. ASSUME NEW i \in 0..3, i < d - 1, c + i < Len(buf) PROVE ~(buf[c + i + 1] < 128)
  <2>1. i + 1 \in 1..d /\ i + 1 \in 1..(d - 1) /\ c + (i + 1) <= Len(buf) /\ c + (i + 1) = c + i + 1
    BY <1>1, <1>4
  <2>2. buf[c + i + 1] = s[i + 1] /\ s[i + 1] >= 128 /\ s[i + 1] \in Nat
    BY <1>1, <1>2, <1>3, <2>1
  <2> QED BY <2>2
<1>5. ASSUME c + d <= Len(buf)
      PROVE  VarIntAt(buf, c) = [err |-> "none", next |-> c + d, val |-> n]
  <2> DEFINE k == d - 1
  <2>1. k \in 0..3 /\ c + k < Len(buf) /\ c + k + 1 = c + d /\ d \in 1..d
    BY <1>1, <1>5
  <2>2. buf[c + k + 1] < 128
    BY <1>1, <1>2, <1>5, <2>1
  <2>3. \A i \in 0..3 : i < k => ~(buf[c + i + 1] < 128)
    BY <1>4, <2>1
  <2> HIDE DEF k
  <2> DEFINE r == VarIntUpTo(buf, c, k)
  <2>4. VarIntAt(buf, c) = r
    BY <2>1, <2>2, <2>3, VarIntEnds DEF EndsAt
  <2>5. r.err = "none" /\ r.next = c + k + 1
    BY <2>1, VarIntValue, SMT
  <2>11. r.val = (buf[c + 1] % 128) + (IF k >= 1 THEN (buf[c + 2] % 128) * 128 ELSE 0)
                 + (IF k >= 2 THEN (buf[c + 3] % 128) * 16384 ELSE 0)
                 + (IF k >= 3 THEN (buf[c + 4] % 128) * 2097152 ELSE 0)
    BY <2>1, VarIntValue, SMT
  <2>6. /\ buf[c + 1] = s[1] /\ (k >= 1 => d >= 2 /\ buf[c + 2] = s[2])
        /\ (k >= 2 => d >= 3 /\ buf[c + 3] = s[3]) /\ (k >= 3 => d >= 4 /\ buf[c + 4] = s[4])
    BY <1>1, <1>2, <1>5, <2>1 DEF k
  <2>7. (d >= 2 => k >= 1) /\ (d >= 3 => k >= 2) /\ (d >= 4 => k >= 3)
    BY <2>1 DEF k
  <2>8. r.val = n
    <3> HIDE DEF r
    <3>1. (s[1] % 128) = (buf[c + 1] % 128)
      BY <2>6
    <3>2. (IF d >= 2 THEN (s[2] % 128) * 128 ELSE 0) = (IF k >= 1 THEN (buf[c + 2] % 128) * 128 ELSE 0)
      BY <2>6, <2>7, SMT
    <3>3. (IF d >= 3 THEN (s[3] % 128) * 16384 ELSE 0) = (IF k >= 2 THEN (buf[c + 3] % 128) * 16384 ELSE 0)
      BY <2>6, <2>7, SMT
    <3>4. (IF d >= 4 THEN (s[4] % 128) * 2097152 ELSE 0)
             = (IF k >= 3 THEN (buf[c + 4] % 128) * 2097152 ELSE 0)
      BY <2>6, <2>7, SMT
    <3> QED BY <1>7, <2>11, <3>1, <3>2, <3>3, <3>4, SMT
  <2>9. r = [err |-> r.err, next |-> r.next, val |-> r.val]
    <3>1. r = [err |-> "none", next |-> r.next, val |-> r.val]
      BY <2>1 DEF VarIntUpTo
    <3> QED BY <2>5, <3>1
  <2>10. r.next = c + d
    BY <2>1, <2>5
  <2> HIDE DEF r
  <2> QED BY <2>4, <2>5, <2>8, <2>9, <2>10
<1>6. ASSUME c + d > Len(buf)
      PROVE  VarIntAt(buf, c) = [err |-> "incomplete", next |-> c, val |-> 0]
  <2>1. ~(c + 4 <= Len(buf)) /\ c \in Nat /\ Len(buf) \in Nat
    BY <1>1, <1>6
  <2>2. ASSUME NEW i \in 0..3, c + i < Len(buf) PROVE ~(buf[c + i + 1] < 128)
    BY <1>1, <1>4, <1>6, <2>1, <2>2
  <2>3. VarIntAt(buf, c) = VarIntUpTo(buf, c, 4)
    BY <2>2, VarIntOpen
  <2> QED BY <2>1, <2>3, VarIntNone
<1> QED BY <1>5, <1>6 DEF d

\* A length field means the same wherever it stands.
Alike(a, c, b, d, k) == \A i \in 0..k : d + i < Len(b) /\ b[d + i + 1] = a[c + i + 1]

\* The same octets at another place make the same length.
LEMMA VarIntSame ==
  ASSUME NEW a \in Seq(Octet), NEW b \in Seq(Octet), NEW c \in Nat, NEW d \in Nat,
         NEW k \in 0..3, EndsAt(a, c, k), Alike(a, c, b, d, k)
  PROVE  /\ VarIntAt(a, c).err = "none" /\ VarIntAt(b, d).err = "none"
         /\ VarIntAt(a, c).next = c + k + 1 /\ VarIntAt(b, d).next = d + k + 1
         /\ VarIntAt(a, c).val = VarIntAt(b, d).val
<1> USE DEF EndsAt, Alike
<1>1. VarIntAt(a, c) = VarIntUpTo(a, c, k)
  BY VarIntEnds
<1>2. VarIntAt(b, d) = VarIntUpTo(b, d, k)
  <2>1. k \in 0..k /\ \A i \in 0..3 : i < k => i \in 0..k
    OBVIOUS
  <2>2. d + k < Len(b) /\ b[d + k + 1] < 128 /\ \A i \in 0..3 : i < k => ~(b[d + i + 1] < 128)
    BY <2>1
  <2> QED BY <2>2, VarIntEnds
<1>3. d + k < Len(b)
  <2>1. k \in 0..k
    OBVIOUS
  <2> QED BY <2>1
<1>4. /\ b[d + 1] = a[c + 1] /\ (k >= 1 => b[d + 2] = a[c + 2])
      /\ (k >= 2 => b[d + 3] = a[c + 3]) /\ (k >= 3 => b[d + 4] = a[c + 4])
  <2>1. ASSUME NEW i \in 0..3, k >= i PROVE b[d + (i + 1)] = a[c + (i + 1)]
    <3>1. i \in 0..k
      BY <2>1
    <3>2. b[d + i + 1] = a[c + i + 1]
      BY <3>1
    <3>3. d + i + 1 = d + (i + 1) /\ c + i + 1 = c + (i + 1)
      OBVIOUS
    <3> QED BY <3>2, <3>3
  <2> QED BY <2>1
<1> DEFINE r == VarIntUpTo(a, c, k)
           q == VarIntUpTo(b, d, k)
<1>5. r.err = "none" /\ r.next = c + k + 1 /\ q.err = "none" /\ q.next = d + k + 1
  BY <1>3, VarIntValue, SMTT(30)
<1>6. /\ r.val = (a[c + 1] % 128) + (IF k >= 1 THEN (a[c + 2] % 128) * 128 ELSE 0)
                 + (IF k >= 2 THEN (a[c + 3] % 128) * 16384 ELSE 0)
                 + (IF k >= 3 THEN (a[c + 4] % 128) * 2097152 ELSE 0)
      /\ q.val = (b[d + 1] % 128) + (IF k >= 1 THEN (b[d + 2] % 128) * 128 ELSE 0)
                 + (IF k >= 2 THEN (b[d + 3] % 128) * 16384 ELSE 0)
                 + (IF k >= 3 THEN (b[d + 4] % 128) * 2097152 ELSE 0)
  BY <1>3, VarIntValue, SMTT(30)
<1> HIDE DEF r, q
<1>7. r.val = q.val
  BY <1>4, <1>6, SMT
<1> QED BY <1>1, <1>2, <1>5, <1>7 DEF r, q

\* The data of a property that is a length field is read whole.
LEMMA VarIntData ==
  ASSUME NEW d \in Seq(Octet), IsVarInt(d), NEW buf \in Seq(Octet), NEW c \in Nat, Holds(buf, c, d)
  PROVE  VarIntAt(buf, c).next = c + Len(d)
<1>0. PICK z \in Nat : z = 0
  OBVIOUS
<1>1. VarIntAt(d, z).err = "none" /\ VarIntAt(d, z).next = Len(d)
  BY <1>0 DEF IsVarInt
<1>2. VarIntAt(d, z) # VarIntUpTo(d, z, 4)
  <2> DEFINE e == IF z + 4 <= Len(d) THEN "malformed" ELSE "incomplete"
  <2>1. VarIntUpTo(d, z, 4) = [err |-> e, next |-> z, val |-> 0]
    BY VarIntNone
  <2>2. e # "none"
    OBVIOUS
  <2> HIDE DEF e
  <2> QED BY <1>1, <2>1, <2>2
<1>3. PICK k \in 0..3 :
        /\ VarIntAt(d, z) = VarIntUpTo(d, z, k)
        /\ EndsAt(d, z, k)
  BY <1>2, VarIntCases
<1>4. Alike(d, z, buf, c, k)
  <2>1. ASSUME NEW i \in 0..k PROVE c + i < Len(buf) /\ buf[c + i + 1] = d[z + i + 1]
    <3>1. i + 1 \in 1..Len(d) /\ c + (i + 1) = c + i + 1 /\ z + i + 1 = i + 1 /\ Len(d) \in Nat
          /\ Len(buf) \in Nat
      BY <1>0, <1>3 DEF EndsAt
    <3> QED BY <3>1 DEF Holds
  <2> QED BY <2>1 DEF Alike
<1>5. VarIntAt(d, z).next = z + k + 1 /\ VarIntAt(buf, c).next = c + k + 1
  BY <1>3, <1>4, VarIntSame
<1> QED BY <1>0, <1>1, <1>5

-------------------------------------------------------------------------------
(* Lists of fields. *)

\* A function defined backwards from e exists: its value at k needs the one at
\* on[k], which comes later.
GoesOn(on, Stop, a, e) == \A k \in a..e : k \notin Stop => on[k] \in (k + 1)..e
IsBackwards(L, a, e, Stop, z, y, on) ==
  L = [k \in a..e |-> IF k \in Stop THEN z[k] ELSE y[k] \o L[on[k]]]

\* A function that refers to its later values only is defined.
LEMMA Backwards ==
  ASSUME NEW a \in Nat, NEW e \in Nat, a <= e, NEW Stop, NEW z, NEW y, NEW on,
         GoesOn(on, Stop, a, e)
  PROVE  \E L : IsBackwards(L, a, e, Stop, z, y, on)
<1> USE DEF GoesOn
<1> DEFINE Is(L, m) == L = [k \in m..e |-> IF k \in Stop THEN z[k] ELSE y[k] \o L[on[k]]]
           P(m) == \E L : Is(L, m)
           T == {d \in Nat : d <= e - a => P(e - d)}
<1> HIDE DEF P
<1>1. 0 \in T
  <2> DEFINE L == [k \in e..e |-> z[k]]
  <2>1. e \in a..e /\ (e + 1)..e = {} /\ e..e = {e} /\ e - 0 = e
    OBVIOUS
  <2>2. e \in Stop
    BY <2>1
  <2>3. L = [k \in e..e |-> IF k \in Stop THEN z[k] ELSE y[k] \o L[on[k]]]
    BY <2>1, <2>2
  <2> HIDE DEF L
  <2>4. P(e - 0)
    BY <2>1, <2>3 DEF P
  <2> QED BY <2>4
<1>2. ASSUME NEW d \in Nat, d \in T PROVE d + 1 \in T
  <2> SUFFICES ASSUME d + 1 <= e - a PROVE P(e - (d + 1))
    OBVIOUS
  <2> DEFINE m == e - d
             w == e - (d + 1)
  <2>1. m \in Nat /\ w \in Nat /\ m = w + 1 /\ w \in a..e /\ m <= e
    OBVIOUS
  <2>8. P(m)
    BY <1>2, <2>1
  <2>2. PICK L : Is(L, m)
    BY <2>8 DEF P
  <2> HIDE DEF m, w
  <2>3. \A k \in m..e : L[k] = IF k \in Stop THEN z[k] ELSE y[k] \o L[on[k]]
    BY <2>2
  <2> HIDE DEF Is
  <2> DEFINE M == [k \in w..e |-> IF k >= m THEN L[k]
                                  ELSE IF k \in Stop THEN z[k] ELSE y[k] \o L[on[k]]]
  <2>4. ASSUME NEW k \in w..e
        PROVE  M[k] = IF k \in Stop THEN z[k] ELSE y[k] \o M[on[k]]
    <3>1. k \notin Stop => on[k] \in m..e
      <4>1. k \in a..e /\ (k = w \/ k >= m)
        BY <2>1
      <4> QED BY <2>1, <4>1
    <3>2. k \notin Stop => M[on[k]] = L[on[k]]
      <4>1. \A j \in m..e : j \in w..e /\ j >= m
        BY <2>1
      <4>2. \A j \in m..e : M[j] = L[j]
        BY <4>1
      <4> QED BY <3>1, <4>2
    <3>3. CASE k >= m
      <4>1. M[k] = L[k] /\ k \in m..e
        BY <2>1, <3>3
      <4> HIDE DEF M
      <4> QED BY <2>3, <3>2, <4>1
    <3>4. CASE ~(k >= m)
      <4>1. M[k] = IF k \in Stop THEN z[k] ELSE y[k] \o L[on[k]]
        BY <3>4
      <4> HIDE DEF M
      <4> QED BY <3>2, <4>1
    <3> QED BY <3>3, <3>4
  <2>5. M = [k \in w..e |-> M[k]]
    OBVIOUS
  <2> HIDE DEF M
  <2>6. M = [k \in w..e |-> IF k \in Stop THEN z[k] ELSE y[k] \o M[on[k]]]
    BY <2>4, <2>5
  <2>7. P(w)
    BY <2>6 DEF Is, P
  <2> QED BY <2>7 DEF w
<1>3. e - a \in T
  <2>1. e - a \in Nat
    OBVIOUS
  <2> HIDE DEF T
  <2> QED BY <1>1, <1>2, <2>1, NatInduct
<1>4. P(e - (e - a))
  BY <1>3
<1>5. e - (e - a) = a
  OBVIOUS
<1>6. P(a)
  BY <1>4, <1>5
<1> QED BY <1>6 DEF P, IsBackwards

\* What ListAt computes.
IsList(L, c, end, item) ==
  \A k \in c..end :
    L[k] = IF k = end THEN <<>>
           ELSE <<item[k].val>> \o L[IF item[k].next \in k + 1..end THEN item[k].next ELSE end]

\* ListAt is the recursion of the code's loops.
LEMMA ListIs ==
  ASSUME NEW c \in Nat, NEW end \in Nat, c <= end, NEW item
  PROVE  \E L : ListAt(c, end, item) = L[c] /\ IsList(L, c, end, item)
<1> DEFINE on == [k \in c..end |-> IF item[k].next \in k + 1..end THEN item[k].next ELSE end]
           y == [k \in c..end |-> <<item[k].val>>]
           z == [k \in c..end |-> <<>>]
           Stop == {end}
<1>1. GoesOn(on, Stop, c, end)
  BY DEF GoesOn
<1> HIDE DEF on, y, z, Stop
<1>7. PICK M : IsBackwards(M, c, end, Stop, z, y, on)
  BY <1>1, Backwards
<1>2. M = [k \in c..end |-> IF k \in Stop THEN z[k] ELSE y[k] \o M[on[k]]]
  BY <1>7 DEF IsBackwards
<1>3. M = [k \in c..end |-> IF k = end THEN <<>>
                            ELSE <<item[k].val>> \o M[IF item[k].next \in k + 1..end THEN item[k].next ELSE end]]
  <2>1. ASSUME NEW k \in c..end
        PROVE  (IF k \in Stop THEN z[k] ELSE y[k] \o M[on[k]])
                 = IF k = end THEN <<>>
                   ELSE <<item[k].val>> \o M[IF item[k].next \in k + 1..end THEN item[k].next ELSE end]
    <3>1. /\ z[k] = <<>> /\ y[k] = <<item[k].val>> /\ (k \in Stop <=> k = end)
          /\ on[k] = IF item[k].next \in k + 1..end THEN item[k].next ELSE end
      BY Zenon DEF on, y, z, Stop
    <3> QED BY <3>1, Zenon
  <2> QED BY <1>2, <2>1, Zenon
<1> DEFINE Is(L) == L = [k \in c..end |-> IF k = end THEN <<>>
                            ELSE <<item[k].val>> \o L[IF item[k].next \in k + 1..end THEN item[k].next ELSE end]]
           list == CHOOSE L : Is(L)
<1>4. Is(list)
  BY <1>3
<1>5. ListAt(c, end, item) = list[c]
  BY DEF ListAt
<1> HIDE DEF list
<1>6. IsList(list, c, end, item)
  BY <1>4, Zenon DEF IsList
<1> QED BY <1>5, <1>6

\* The items stand one behind the other, at q.
Chain(q, vals, item, c, end) ==
  /\ q \in [0..Len(vals) -> c..end] /\ q[0] = c /\ q[Len(vals)] = end
  /\ \A i \in 1..Len(vals) : q[i - 1] < q[i] /\ item[q[i - 1]] = [val |-> vals[i], next |-> q[i]]

\* The first element and those after it.
LEMMA SubSeqFrom ==
  ASSUME NEW S, NEW s \in Seq(S), NEW i \in 1..Len(s)
  PROVE  <<s[i]>> \o SubSeq(s, i + 1, Len(s)) = SubSeq(s, i, Len(s))
OBVIOUS

\* Such a list is read as it was written.
LEMMA ListRead ==
  ASSUME NEW S, NEW vals \in Seq(S), NEW c \in Nat, NEW end \in Nat, NEW item, NEW q,
         Chain(q, vals, item, c, end)
  PROVE  ListAt(c, end, item) = vals
<1> DEFINE n == Len(vals)
<1>0. n \in Nat
  OBVIOUS
<1> HIDE DEF n
<1>1. /\ q \in [0..n -> c..end] /\ q[0] = c /\ q[n] = end
      /\ \A i \in 1..n : q[i - 1] < q[i] /\ item[q[i - 1]] = [val |-> vals[i], next |-> q[i]]
  BY DEF Chain, n
<1>2. c <= end
  BY <1>0, <1>1
<1>9. PICK L : ListAt(c, end, item) = L[c] /\ IsList(L, c, end, item)
  BY <1>2, ListIs
<1>3. /\ ListAt(c, end, item) = L[c]
      /\ \A k \in c..end :
           L[k] = IF k = end THEN <<>>
                  ELSE <<item[k].val>> \o L[IF item[k].next \in k + 1..end THEN item[k].next ELSE end]
  BY <1>9, Zenon DEF IsList
<1> DEFINE T == {d \in Nat : d <= n => L[q[n - d]] = SubSeq(vals, n - d + 1, n)}
<1>4. 0 \in T
  <2>1. SubSeq(vals, n + 1, n) = <<>> /\ n - 0 = n
    BY <1>0
  <2>2. L[q[n]] = <<>>
    <3>1. end \in c..end
      BY <1>2
    <3> QED BY <1>1, <1>3, <3>1
  <2> QED BY <2>1, <2>2
<1>5. ASSUME NEW d \in Nat, d \in T PROVE d + 1 \in T
  <2> SUFFICES ASSUME d + 1 <= n PROVE L[q[n - (d + 1)]] = SubSeq(vals, n - (d + 1) + 1, n)
    OBVIOUS
  <2> DEFINE i == n - d
             k == q[i - 1]
  <2>1. i \in 1..n /\ n - (d + 1) = i - 1 /\ i - 1 \in 0..n /\ n - (d + 1) + 1 = i /\ n - d + 1 = i + 1
    BY <1>0
  <2>2. L[q[i]] = SubSeq(vals, i + 1, n)
    <3>1. d \in T => L[q[n - d]] = SubSeq(vals, n - d + 1, n)
      <4>1. d <= n
        BY <1>0
      <4> QED BY <4>1
    <3> QED BY <1>5, <2>1, <3>1
  <2>9. q[i - 1] \in c..end /\ q[i] \in c..end /\ q[i - 1] < q[i]
    <3> HIDE DEF i
    <3>1. i \in 0..n
      BY <2>1, <1>0
    <3> QED BY <1>1, <2>1, <3>1
  <2> HIDE DEF i
  <2>3. k \in c..end /\ q[i] \in c..end /\ k < q[i]
    BY <2>9
  <2>4. item[k] = [val |-> vals[i], next |-> q[i]]
    BY <1>1, <2>1
  <2>5. item[k].val = vals[i] /\ item[k].next = q[i]
    BY <2>4
  <2> HIDE DEF k
  <2>6. k # end /\ q[i] \in k + 1..end
    BY <2>3
  <2>7. L[k] = <<vals[i]>> \o L[q[i]]
    BY <1>3, <2>3, <2>5, <2>6
  <2>8. L[k] = SubSeq(vals, i, n)
    BY <2>1, <2>2, <2>7, SubSeqFrom DEF n
  <2> QED BY <2>1, <2>8 DEF k
<1>6. n \in T
  <2> HIDE DEF T
  <2> QED BY <1>0, <1>4, <1>5, NatInduct
<1>7. L[q[n - n]] = SubSeq(vals, n - n + 1, n)
  BY <1>6
<1>8. n - n = 0 /\ n - n + 1 = 1 /\ SubSeq(vals, 1, n) = vals
  BY <1>0 DEF n
<1> QED BY <1>1, <1>3, <1>7, <1>8

\* Item i is read wherever its octets stand.
Reads(octs, vals, item, buf, c, end) ==
  \A i \in 1..Len(octs) : \A k \in c..end :
    Len(octs[i]) > 0 /\ (k < end /\ Holds(buf, k, octs[i]) => item[k] = [val |-> vals[i], next |-> k + Len(octs[i])])

\* A list is read as it was written if each of its items is.
LEMMA ItemsRead ==
  ASSUME NEW S, NEW vals \in Seq(S), NEW octs \in Seq(Seq(Octet)), Len(octs) = Len(vals),
         NEW buf \in Seq(Octet), NEW c \in Nat, Holds(buf, c, FlattenSeq(octs)),
         NEW item, Reads(octs, vals, item, buf, c, c + Len(FlattenSeq(octs)))
  PROVE  ListAt(c, c + Len(FlattenSeq(octs)), item) = vals
<1> DEFINE s == FlattenSeq(octs)
           n == Len(octs)
           end == c + Len(s)
<1>1. PICK p \in [0..n -> Nat] :
        /\ p[0] = 0 /\ p[n] = Len(s)
        /\ \A i \in 1..n : /\ p[i] = p[i - 1] + Len(octs[i]) /\ p[i] <= Len(s)
                           /\ \A j \in 1..Len(octs[i]) : s[p[i - 1] + j] = octs[i][j]
  BY FlattenParts
<1>2. s \in Seq(Octet) /\ n \in Nat /\ Len(s) \in Nat /\ end \in Nat
  <2>1. s \in Seq(Octet)
    BY FlattenParts
  <2> HIDE DEF s
  <2> QED BY <2>1
<1>3. c + Len(s) <= Len(buf) /\ \A i \in 1..Len(s) : buf[c + i] = s[i]
  BY DEF Holds
<1>4. Reads(octs, vals, item, buf, c, end)
  OBVIOUS
<1>5. \A i \in 1..n : octs[i] \in Seq(Octet)
  OBVIOUS
<1> HIDE DEF s
<1> DEFINE q == [i \in 0..n |-> c + p[i]]
<1>6. \A i \in 0..n : p[i] \in 0..Len(s)
  <2>1. ASSUME NEW i \in 0..n PROVE p[i] \in 0..Len(s)
    <3>1. i = 0 \/ i \in 1..n
      BY <1>2
    <3>2. p[i] \in Nat
      BY <1>1
    <3> QED BY <1>1, <1>2, <3>1, <3>2
  <2> QED BY <2>1
<1> HIDE DEF n
<1>7. ASSUME NEW i \in 1..n
      PROVE  q[i - 1] < q[i] /\ item[q[i - 1]] = [val |-> vals[i], next |-> q[i]]
  <2> DEFINE k == q[i - 1]
             o == octs[i]
  <2>1. i \in 0..n /\ i - 1 \in 0..n
    BY <1>2
  <2>2. k = c + p[i - 1] /\ q[i] = c + p[i] /\ p[i - 1] \in 0..Len(s) /\ p[i] \in 0..Len(s)
    BY <1>6, <2>1
  <2>3. p[i] = p[i - 1] + Len(o) /\ p[i] <= Len(s)
    BY <1>1
  <2>9. \A j \in 1..Len(o) : s[p[i - 1] + j] = o[j]
    BY <1>1
  <2>4. o \in Seq(Octet) /\ Len(o) \in Nat
    BY <1>5
  <2> HIDE DEF o, q, k
  <2> DEFINE g == p[i - 1]
  <2>10. g \in Nat /\ g + Len(o) <= Len(s) /\ k = c + g
    BY <2>2, <2>3
  <2>11. \A j \in 1..Len(o) : s[g + j] = o[j]
    BY <2>9
  <2> HIDE DEF g
  <2>5. Holds(buf, k, o)
    <3>1. ASSUME NEW j \in 1..Len(o) PROVE buf[k + j] = o[j]
      <4>1. g + j \in 1..Len(s) /\ c + (g + j) = k + j
        BY <1>2, <2>10, <2>4
      <4> QED BY <1>3, <2>11, <4>1
    <3>2. k + Len(o) <= Len(buf)
      <4>1. c + Len(s) <= Len(buf) /\ Len(buf) \in Nat
        BY <1>3
      <4> QED BY <1>2, <2>10, <2>4, <4>1
    <3> QED BY <3>1, <3>2 DEF Holds
  <2>6. Len(o) > 0
    <3>1. c \in c..end
      BY <1>2
    <3> QED BY <1>4, <3>1 DEF Reads, o, n
  <2>7. k \in c..end /\ k < end /\ k + Len(o) = q[i] /\ q[i - 1] = k
    BY <1>2, <2>2, <2>3, <2>4, <2>6, SMTT(30) DEF k
  <2>8. item[k] = [val |-> vals[i], next |-> k + Len(o)]
    BY <1>4, <2>5, <2>7 DEF Reads, o, n
  <2>12. k < k + Len(o)
    BY <2>4, <2>6, <2>10, <1>2
  <2> DEFINE e == k + Len(o)
             b == vals[i]
  <2>13. k < e /\ e = q[i] /\ q[i - 1] = k /\ item[k] = [val |-> b, next |-> e]
    BY <2>7, <2>8, <2>12
  <2> HIDE DEF e, b
  <2>14. q[i - 1] < q[i] /\ item[q[i - 1]] = [val |-> b, next |-> q[i]]
    BY <2>13
  <2> QED BY <2>14 DEF b
<1>8. q \in [0..n -> c..end] /\ q[0] = c /\ q[n] = end
  <2>1. \A i \in 0..n : c + p[i] \in c..end
    BY <1>2, <1>6
  <2>2. 0 \in 0..n /\ n \in 0..n
    BY <1>2
  <2> QED BY <1>1, <1>2, <2>1, <2>2 DEF n
<1>9. Chain(q, vals, item, c, end)
  <2> HIDE DEF q
  <2> QED BY <1>7, <1>8 DEF Chain, n
<1> HIDE DEF q
<1>10. ListAt(c, end, item) = vals
  BY <1>2, <1>9, ListRead
<1> QED BY <1>10 DEF s

\* The two parts of a sequence.
LEMMA SeqSplit ==
  ASSUME NEW S, NEW s \in Seq(S), NEW k \in 0..Len(s)
  PROVE  /\ SubSeq(s, 1, k) \in Seq(S) /\ SubSeq(s, k + 1, Len(s)) \in Seq(S)
         /\ Len(SubSeq(s, 1, k)) = k /\ Len(SubSeq(s, k + 1, Len(s))) = Len(s) - k
         /\ s = SubSeq(s, 1, k) \o SubSeq(s, k + 1, Len(s))
<1> DEFINE a == SubSeq(s, 1, k)
           b == SubSeq(s, k + 1, Len(s))
<1>1. a \in Seq(S) /\ Len(a) = k /\ \A i \in 1..k : a[i] = s[i]
  OBVIOUS
<1>2. b \in Seq(S) /\ Len(b) = Len(s) - k /\ \A i \in 1..(Len(s) - k) : b[i] = s[k + i]
  OBVIOUS
<1> HIDE DEF a, b
<1> DEFINE w == a \o b
<1>3. /\ w \in Seq(S) /\ Len(w) = Len(a) + Len(b)
      /\ \A i \in 1..Len(a) : w[i] = a[i]
      /\ \A i \in 1..Len(b) : w[Len(a) + i] = b[i]
  BY <1>1, <1>2, ConcatAt
<1> HIDE DEF w
<1>4. Len(w) = Len(s)
  BY <1>1, <1>2, <1>3
<1>5. ASSUME NEW i \in 1..Len(s) PROVE w[i] = s[i]
  <2>1. CASE i <= k
    BY <2>1, <1>1, <1>3
  <2>2. CASE i > k
    <3>1. i - k \in 1..(Len(s) - k) /\ k + (i - k) = i
      BY <2>2
    <3> DEFINE j == i - k
    <3>2. j \in 1..Len(b) /\ b[j] = s[k + j] /\ k + j = i
      BY <3>1, <1>2
    <3> HIDE DEF j
    <3>3. w[k + j] = b[j]
      BY <3>2, <1>1, <1>3
    <3> QED BY <3>2, <3>3
  <2> QED BY <2>1, <2>2
<1>6. s = w
  BY <1>3, <1>4, <1>5
<1> QED BY <1>1, <1>2, <1>6 DEF a, b, w

\* The same, in a form that is easily cited.
CanSplit(S, s, k) == s \in Seq(S) /\ k \in 0..Len(s)
SplitsAt(S, s, k) ==
  /\ SubSeq(s, 1, k) \in Seq(S) /\ SubSeq(s, k + 1, Len(s)) \in Seq(S)
  /\ Len(SubSeq(s, 1, k)) = k /\ Len(SubSeq(s, k + 1, Len(s))) = Len(s) - k
  /\ s = SubSeq(s, 1, k) \o SubSeq(s, k + 1, Len(s))

LEMMA Splits ==
  ASSUME NEW S, NEW s, NEW k, CanSplit(S, s, k)
  PROVE  SplitsAt(S, s, k)
BY SeqSplit DEF CanSplit, SplitsAt

\* The data of a property of one or of two strings is as long as they say.
LEMMA StrData ==
  ASSUME NEW d \in Seq(Octet), IsStr(d)
  PROVE  Len(d) >= 2 /\ \A buf \in Seq(Octet), c \in Nat :
           Holds(buf, c, d) => 2 + U16At(buf, c) = Len(d)
<1> DEFINE t == SubSeq(d, 3, Len(d))
<1>1. Len(d) >= 2 /\ d = U16(Len(t)) \o t
  BY DEF IsStr, Str
<1>2. t \in Seq(Octet) /\ Len(t) = Len(d) - 2 /\ Len(t) \in Nat
  <2>1. PICK k \in 0..Len(d) : k = 2 /\ k + 1 = 3
    BY <1>1
  <2>2. SubSeq(d, k + 1, Len(d)) \in Seq(Octet) /\ Len(SubSeq(d, k + 1, Len(d))) = Len(d) - k
    BY SeqSplit
  <2>3. t \in Seq(Octet) /\ Len(t) = Len(d) - 2
    BY <2>1, <2>2
  <2> HIDE DEF t
  <2> QED BY <2>3
<1> HIDE DEF t
<1> DEFINE n == Len(t)
           u == n \div 256
           w == n % 256
<1>3. d = <<u, w>> \o t
  BY <1>1 DEF U16
<1>4. u = d[1] /\ w = d[2] /\ d[1] \in Octet /\ d[2] \in Octet
  <2> HIDE DEF u, w
  <2> QED BY <1>1, <1>2, <1>3
<1>5. 256 * u + w = n
  BY <1>2
<1>6. ASSUME NEW buf \in Seq(Octet), NEW c \in Nat, Holds(buf, c, d)
      PROVE  2 + U16At(buf, c) = Len(d)
  <2>1. buf[c + 1] = d[1] /\ buf[c + 2] = d[2]
    BY <1>1, <1>6 DEF Holds
  <2>2. U16At(buf, c) = 256 * u + w
    <3> HIDE DEF u, w
    <3> QED BY <1>4, <2>1 DEF U16At
  <2> QED BY <1>2, <1>5, <2>2
<1> QED BY <1>1, <1>6

\* The length of a property's data follows from what identifies it.
LEMMA PropData ==
  ASSUME NEW p \in Property, NEW buf \in Seq(Octet), NEW c \in Nat, Holds(buf, c, p.data)
  PROVE  PropLen(p.id, buf, c) = Len(p.data)
<1>1. p.id \in Octet /\ p.data \in Seq(Octet) /\ IsProperty(p)
  BY DEF Property
<1> DEFINE id == p.id
           d == p.data
<1>2. d \in Seq(Octet) /\ Len(d) \in Nat /\ Holds(buf, c, d)
  BY <1>1
<1>3. CASE id \in StringIds
  <2>3. id # 38 /\ id # 11
    BY <1>3 DEF StringIds
  <2>1. IsStr(d)
    BY <1>1, <1>3, <2>3 DEF IsProperty
  <2>2. PropLen(id, buf, c) = 2 + U16At(buf, c)
    BY <1>3 DEF PropLen, StringIds
  <2> HIDE DEF id, d
  <2>4. PropLen(id, buf, c) = Len(d)
    BY <1>2, <2>1, <2>2, StrData
  <2> QED BY <2>4 DEF id, d
<1>4. CASE id = 38
  <2>1. IsPair(d)
    BY <1>1, <1>4 DEF IsProperty, StringIds
  <2> DEFINE key == 2 + U16At(buf, c)
  <2>2. PropLen(id, buf, c) = key + 2 + U16At(buf, c + key)
    BY <1>4 DEF PropLen, StringIds
  <2> HIDE DEF id, d, key
  <2>3. PICK k \in 2..Len(d) : IsStr(SubSeq(d, 1, k)) /\ IsStr(SubSeq(d, k + 1, Len(d)))
    BY <2>1 DEF IsPair
  <2> DEFINE a == SubSeq(d, 1, k)
             b == SubSeq(d, k + 1, Len(d))
  <2>4. /\ a \in Seq(Octet) /\ b \in Seq(Octet) /\ Len(a) = k /\ Len(b) = Len(d) - k /\ k \in Nat
        /\ d = a \o b
    <3>1. k \in 0..Len(d) /\ k \in Nat
      BY <1>2
    <3>2. /\ a \in Seq(Octet) /\ b \in Seq(Octet) /\ Len(a) = k /\ Len(b) = Len(d) - k
          /\ d = a \o b
      <4>1. CanSplit(Octet, d, k)
        BY <1>2, <3>1 DEF CanSplit
      <4>2. SplitsAt(Octet, d, k)
        BY <4>1, Splits
      <4> QED BY <4>2 DEF SplitsAt
    <3> QED BY <3>1, <3>2
  <2>5. IsStr(a) /\ IsStr(b)
    BY <2>3
  <2> HIDE DEF a, b
  <2>6. Holds(buf, c, a) /\ Holds(buf, c + k, b)
    BY <1>2, <2>4, HoldsConcat
  <2>7. key = k
    BY <2>4, <2>5, <2>6, StrData DEF key
  <2>8. 2 + U16At(buf, c + k) = Len(b)
    <3>1. c + k \in Nat
      BY <2>4
    <3> QED BY <2>4, <2>5, <2>6, <3>1, StrData
  <2> DEFINE u == U16At(buf, c + k)
  <2>9. u = Len(b) - 2
    <3>1. u \in Int
      <4>1. c + k + 1 \in 1..Len(buf) /\ c + k + 2 \in 1..Len(buf)
        <5>1. Len(b) >= 2 /\ c + k + Len(b) <= Len(buf)
          BY <2>4, <2>5, <2>6, StrData DEF Holds
        <5> QED BY <2>4, <5>1, <1>2
      <4>2. buf[c + k + 1] \in Octet /\ buf[c + k + 2] \in Octet
        BY <4>1
      <4>3. buf[c + k + 1] \in Nat /\ buf[c + k + 2] \in Nat
        BY <4>2, OctetIs
      <4> QED BY <4>3 DEF U16At
    <3> QED BY <2>8, <3>1, <2>4, <1>2
  <2> HIDE DEF u
  <2>10. PropLen(id, buf, c) = k + 2 + u
    BY <2>2, <2>7 DEF u
  <2>11. PropLen(id, buf, c) = Len(d)
    <3> DEFINE x == Len(b)
               w == Len(d)
    <3>1. x = w - k /\ w \in Nat /\ k \in Nat /\ u = x - 2
      BY <1>2, <2>4, <2>9
    <3> HIDE DEF x, w
    <3>2. k + 2 + u = w
      BY <3>1
    <3> QED BY <2>10, <3>2 DEF w
  <2> QED BY <2>11 DEF id, d
<1>5. CASE id = 11
  <2>1. IsVarInt(d)
    BY <1>1, <1>5 DEF IsProperty, StringIds
  <2>2. PropLen(id, buf, c) = VarIntAt(buf, c).next - c
    BY <1>5 DEF PropLen, StringIds
  <2> HIDE DEF id, d
  <2>3. VarIntAt(buf, c).next = c + Len(d)
    BY <1>2, <2>1, VarIntData
  <2>4. PropLen(id, buf, c) = Len(d)
    BY <1>2, <2>2, <2>3
  <2> QED BY <2>4 DEF id, d
<1>6. CASE id \notin StringIds /\ id # 38 /\ id # 11
  <2>1. Len(d) = PropLen(id, d, 0)
    BY <1>1, <1>6 DEF IsProperty
  <2>2. PropLen(id, buf, c) = PropLen(id, d, 0)
    BY <1>6 DEF PropLen
  <2> QED BY <2>1, <2>2
<1> QED BY <1>3, <1>4, <1>5, <1>6

\* A property is read as it was written.
LEMMA PropRead ==
  ASSUME NEW p \in Property, NEW buf \in Seq(Octet), NEW c \in Nat,
         Holds(buf, c, <<p.id>> \o p.data)
  PROVE  PropAt(buf, c) = [val |-> p, next |-> c + Len(<<p.id>> \o p.data)]
<1>1. p.id \in Octet /\ p.data \in Seq(Octet) /\ p = [id |-> p.id, data |-> p.data]
  BY DEF Property
<1> DEFINE i == <<p.id>>
           d == p.data
<1>2. i \in Seq(Octet) /\ d \in Seq(Octet) /\ Len(i) = 1 /\ Len(i \o d) = 1 + Len(d) /\ Len(d) \in Nat
  BY <1>1
<1>3. Holds(buf, c, i) /\ Holds(buf, c + 1, d)
  <2> HIDE DEF i, d
  <2>1. Holds(buf, c, i \o d)
    BY DEF i, d
  <2> QED BY <1>2, <2>1, HoldsConcat
<1>4. buf[c + 1] = p.id
  BY <1>1, <1>3, HoldsOne
<1>5. PropLen(p.id, buf, c + 1) = Len(d)
  BY <1>3, PropData
<1>6. SubSeq(buf, (c + 1) + 1, (c + 1) + Len(d)) = d
  <2> HIDE DEF i, d
  <2> QED BY <1>2, <1>3, HoldsSub
<1> DEFINE data == OctetsAt(buf, c + 1, PropLen(buf[c + 1], buf, c + 1))
<1>7. data.val = d /\ data.next = c + Len(i \o d)
  <2> HIDE DEF i, d
  <2>1. data = [val |-> d, next |-> (c + 1) + Len(d)]
    BY <1>4, <1>5, <1>6 DEF OctetsAt
  <2> HIDE DEF data
  <2>2. (c + 1) + Len(d) = c + Len(i \o d)
    BY <1>2
  <2> QED BY <2>1, <2>2
<1> HIDE DEF data
<1>8. PropAt(buf, c) = [val |-> [id |-> p.id, data |-> data.val], next |-> data.next]
  BY <1>4 DEF PropAt, data
<1> QED BY <1>1, <1>7, <1>8

\* A function with members of S for values is a sequence of them.
LEMMA ValuesSeq ==
  ASSUME NEW S, NEW n \in Nat, NEW f, f = [i \in 1..n |-> f[i]], \A i \in 1..n : f[i] \in S
  PROVE  f \in Seq(S) /\ Len(f) = n
<1>1. f \in [1..n -> S]
  OBVIOUS
<1> QED BY <1>1, FunctionIsSeq

\* What PropsAt reads, by the length it finds.
LEMMA PropsAtLen ==
  ASSUME NEW buf, NEW c, NEW len, len = VarIntAt(buf, c),
         NEW item, item = [k \in len.next..(len.next + len.val - 1) |-> PropAt(buf, k)]
  PROVE  PropsAt(buf, c) = [val |-> ListAt(len.next, len.next + len.val, item),
                            next |-> len.next + len.val]
BY DEF PropsAt

\* decode_properties, the length field taken apart from the loop.
LEMMA PropsAtIs ==
  ASSUME NEW buf, NEW c, NEW d, NEW n, d = VarIntAt(buf, c).next, n = VarIntAt(buf, c).val,
         NEW item, item = [k \in d..(d + n - 1) |-> PropAt(buf, k)]
  PROVE  PropsAt(buf, c) = [val |-> ListAt(d, d + n, item), next |-> d + n]
BY PropsAtLen

\* The properties are read as they were written.
LEMMA PropsRead ==
  ASSUME NEW v, v = "V5", NEW ps \in PropertyLists(v)
  PROVE  /\ Props(v, ps) \in Seq(Octet) /\ Len(Props(v, ps)) >= 1
         /\ \A buf \in Seq(Octet), c \in Nat : Holds(buf, c, Props(v, ps)) =>
              PropsAt(buf, c) = [val |-> ps, next |-> c + Len(Props(v, ps))]
<1>1. ps \in Seq(Property) /\ Len(PropOctets(ps)) \in Lengths
  BY DEF PropertyLists, Vec
<1> DEFINE octs == [i \in DOMAIN ps |-> <<ps[i].id>> \o ps[i].data]
           s == FlattenSeq(octs)
           n == Len(s)
<1>2. DOMAIN ps = 1..Len(ps) /\ Len(ps) \in Nat /\ \A i \in 1..Len(ps) : ps[i] \in Property
  BY <1>1
<1>3. ASSUME NEW i \in 1..Len(ps)
      PROVE  octs[i] = <<ps[i].id>> \o ps[i].data /\ octs[i] \in Seq(Octet) /\ Len(octs[i]) > 0
  <2>1. ps[i].id \in Octet /\ ps[i].data \in Seq(Octet)
    BY <1>2 DEF Property
  <2> DEFINE a == ps[i].id
             b == ps[i].data
  <2>2. octs[i] = <<a>> \o b
    BY <1>2
  <2>3. a \in Octet /\ b \in Seq(Octet)
    BY <2>1
  <2> HIDE DEF octs, a, b
  <2>4. <<a>> \o b \in Seq(Octet) /\ Len(<<a>> \o b) > 0
    BY <2>3
  <2> QED BY <2>2, <2>4 DEF a, b
<1>4. octs \in Seq(Seq(Octet)) /\ Len(octs) = Len(ps)
  <2>1. octs = [i \in 1..Len(ps) |-> octs[i]]
    BY <1>2
  <2> HIDE DEF octs
  <2>2. \A i \in 1..Len(ps) : octs[i] \in Seq(Octet)
    BY <1>3
  <2> QED BY <1>2, <2>1, <2>2, ValuesSeq
<1>5. PropOctets(ps) = s
  BY DEF PropOctets
<1> HIDE DEF octs
<1>6. s \in Seq(Octet) /\ n \in Lengths /\ n \in Nat
  <2>1. s \in Seq(Octet)
    BY <1>4, FlattenParts
  <2> HIDE DEF s
  <2> QED BY <1>1, <1>5, <2>1
<1>7. Props(v, ps) = VarInt(n) \o s
  BY <1>5 DEF Props
<1> HIDE DEF s
<1>8. VarInt(n) \in Seq(Octet) /\ Len(VarInt(n)) = Digits(n) /\ Digits(n) \in 1..4
  BY <1>6, VarIntIs, SMT
<1> HIDE DEF n
<1>9. Props(v, ps) \in Seq(Octet) /\ Len(Props(v, ps)) = Digits(n) + n /\ Len(Props(v, ps)) >= 1
  <2>1. /\ VarInt(n) \o s \in Seq(Octet)
        /\ Len(VarInt(n) \o s) = Len(VarInt(n)) + Len(s)
    BY <1>6, <1>8, ConcatAt
  <2>2. Len(s) = n
    BY DEF n
  <2>3. Len(VarInt(n) \o s) = Digits(n) + n
    BY <1>8, <2>1, <2>2
  <2>4. Digits(n) + n >= 1
    BY <1>6, <1>8
  <2> QED BY <1>7, <2>1, <2>3, <2>4
<1>10. ASSUME NEW buf \in Seq(Octet), NEW c \in Nat, Holds(buf, c, Props(v, ps))
       PROVE  PropsAt(buf, c) = [val |-> ps, next |-> c + Len(Props(v, ps))]
  <2> DEFINE d == c + Digits(n)
             end == d + n
             item == [k \in d..(d + n - 1) |-> PropAt(buf, k)]
  <2>1. Holds(buf, c, VarInt(n)) /\ Holds(buf, d, s)
    BY <1>6, <1>7, <1>8, <1>10, HoldsConcat
  <2>2. VarIntAt(buf, c) = [err |-> "none", next |-> d, val |-> n]
    <3>1. c + Digits(n) <= Len(buf) /\ c <= Len(buf) /\ Starts(buf, c, VarInt(n))
      BY <1>8, <2>1 DEF Holds, Starts
    <3> QED BY <1>6, <3>1, VarIntRead
  <2>3. d \in Nat /\ end \in Nat /\ end = c + Len(Props(v, ps))
    <3> DEFINE w == Digits(n)
               l == Len(Props(v, ps))
    <3>1. w \in Nat /\ n \in Nat /\ l = w + n
      BY <1>6, <1>8, <1>9
    <3> HIDE DEF w, l
    <3>2. c + w \in Nat /\ c + w + n \in Nat /\ c + w + n = c + l
      BY <3>1
    <3> QED BY <3>2 DEF w, l
  <2> HIDE DEF d
  <2>4. PropsAt(buf, c) = [val |-> ListAt(d, end, item), next |-> end]
    <3>1. VarIntAt(buf, c).next = d /\ VarIntAt(buf, c).val = n
      BY <2>2
    <3>2. item = [k \in d..(d + n - 1) |-> PropAt(buf, k)]
      OBVIOUS
    <3> HIDE DEF item
    <3> QED BY <3>1, <3>2, PropsAtIs
  <2>5. Reads(octs, ps, item, buf, d, end)
    <3> SUFFICES ASSUME NEW i \in 1..Len(octs), NEW k \in d..end
                 PROVE  Len(octs[i]) > 0 /\ (k < end /\ Holds(buf, k, octs[i])
                          => item[k] = [val |-> ps[i], next |-> k + Len(octs[i])])
      BY DEF Reads
    <3>1. octs[i] = <<ps[i].id>> \o ps[i].data /\ Len(octs[i]) > 0 /\ ps[i] \in Property /\ k \in Nat
      BY <1>2, <1>3, <1>4, <2>3
    <3>2. k < end => item[k] = PropAt(buf, k)
      <4>1. k < end => k \in d..(d + n - 1)
        BY <1>6, <2>3
      <4> QED BY <4>1
    <3> HIDE DEF item
    <3>3. Holds(buf, k, octs[i]) => PropAt(buf, k) = [val |-> ps[i], next |-> k + Len(octs[i])]
      BY <3>1, PropRead
    <3> QED BY <3>1, <3>2, <3>3
  <2> HIDE DEF item
  <2>6. ListAt(d, end, item) = ps
    <3>1. Reads(octs, ps, item, buf, d, d + Len(FlattenSeq(octs))) /\ Holds(buf, d, FlattenSeq(octs))
      BY <2>1, <2>5 DEF s, n
    <3>2. ListAt(d, d + Len(FlattenSeq(octs)), item) = ps
      BY <1>1, <1>4, <2>3, <3>1, ItemsRead
    <3> QED BY <3>2 DEF s, n
  <2> QED BY <2>3, <2>4, <2>6
<1> QED BY <1>9, <1>10

\* Topic filters are read as they were written.
LEMMA TopicsRead ==
  ASSUME NEW ts \in Seq(Text)
  PROVE  /\ FlattenSeq([i \in DOMAIN ts |-> Str(ts[i])]) \in Seq(Octet)
         /\ \A buf \in Seq(Octet), c \in Nat, end \in Nat :
              LET s == FlattenSeq([i \in DOMAIN ts |-> Str(ts[i])])
              IN Holds(buf, c, s) /\ end = c + Len(s) =>
                   ListAt(c, end, [k \in c..(end - 1) |-> StrAt(buf, k)]) = ts
<1> DEFINE octs == [i \in DOMAIN ts |-> Str(ts[i])]
           s == FlattenSeq(octs)
<1>1. DOMAIN ts = 1..Len(ts) /\ Len(ts) \in Nat /\ \A i \in 1..Len(ts) : ts[i] \in Text
  OBVIOUS
<1>2. ASSUME NEW i \in 1..Len(ts)
      PROVE  octs[i] = Str(ts[i]) /\ octs[i] \in Seq(Octet) /\ Len(octs[i]) > 0
  <2>1. octs[i] = Str(ts[i])
    BY <1>1
  <2> HIDE DEF octs
  <2>2. Str(ts[i]) \in Seq(Octet) /\ Len(Str(ts[i])) = 2 + Len(ts[i]) /\ Len(ts[i]) \in Nat
    <3>1. Len(ts[i]) \in Nat
      BY <1>1 DEF Text
    <3> QED BY <1>1, <3>1, StrRead
  <2> QED BY <2>1, <2>2
<1>3. octs \in Seq(Seq(Octet)) /\ Len(octs) = Len(ts)
  <2>1. octs = [i \in 1..Len(ts) |-> octs[i]]
    BY <1>1
  <2> HIDE DEF octs
  <2>2. \A i \in 1..Len(ts) : octs[i] \in Seq(Octet)
    BY <1>2
  <2> QED BY <1>1, <2>1, <2>2, ValuesSeq
<1> HIDE DEF octs
<1>4. s \in Seq(Octet) /\ Len(s) \in Nat
  <2>1. s \in Seq(Octet)
    BY <1>3, FlattenParts
  <2> HIDE DEF s
  <2> QED BY <2>1
<1>5. ASSUME NEW buf \in Seq(Octet), NEW c \in Nat, NEW end \in Nat, Holds(buf, c, s), end = c + Len(s)
      PROVE  ListAt(c, end, [k \in c..(end - 1) |-> StrAt(buf, k)]) = ts
  <2> DEFINE item == [k \in c..(end - 1) |-> StrAt(buf, k)]
  <2>1. Reads(octs, ts, item, buf, c, end)
    <3> SUFFICES ASSUME NEW i \in 1..Len(octs), NEW k \in c..end
                 PROVE  Len(octs[i]) > 0 /\ (k < end /\ Holds(buf, k, octs[i])
                          => item[k] = [val |-> ts[i], next |-> k + Len(octs[i])])
      BY DEF Reads
    <3>1. octs[i] = Str(ts[i]) /\ Len(octs[i]) > 0 /\ ts[i] \in Text /\ k \in Nat
      BY <1>1, <1>2, <1>3
    <3>2. k < end => item[k] = StrAt(buf, k)
      OBVIOUS
    <3> HIDE DEF item
    <3>4. Holds(buf, k, Str(ts[i])) => StrAt(buf, k) = [val |-> ts[i], next |-> k + Len(Str(ts[i]))]
      BY <3>1, StrRead
    <3>3. Holds(buf, k, octs[i]) => StrAt(buf, k) = [val |-> ts[i], next |-> k + Len(octs[i])]
      BY <3>1, <3>4
    <3> QED BY <3>1, <3>2, <3>3
  <2> HIDE DEF item
  <2>2. Reads(octs, ts, item, buf, c, c + Len(s))
    BY <1>5, <2>1
  <2>3. ListAt(c, c + Len(s), item) = ts
    BY <1>3, <1>5, <2>2, ItemsRead
  <2> QED BY <1>5, <2>3 DEF item
<1> QED BY <1>4, <1>5 DEF s, octs

\* A topic filter with its QoS is read as it was written, and so is a list of them.
Filter == [topic : Text, qos : 0..2]

\* A topic filter of SUBSCRIBE is read back.
LEMMA FilterRead ==
  ASSUME NEW t \in Filter
  PROVE  /\ Str(t.topic) \o <<t.qos>> \in Seq(Octet) /\ Len(Str(t.topic) \o <<t.qos>>) > 0
         /\ \A buf \in Seq(Octet), c \in Nat : Holds(buf, c, Str(t.topic) \o <<t.qos>>) =>
              FilterAt(buf, c) = [val |-> t, next |-> c + Len(Str(t.topic) \o <<t.qos>>)]
<1>1. /\ t.topic \in Text /\ t.qos \in 0..2 /\ t = [topic |-> t.topic, qos |-> t.qos]
      /\ t.qos \in Octet
  BY DEF Filter, Octet
<1> DEFINE a == Str(t.topic)
           b == <<t.qos>>
<1>2. a \in Seq(Octet) /\ b \in Seq(Octet) /\ Len(a) \in Nat /\ Len(b) = 1 /\ b[1] = t.qos
  BY <1>1, StrRead
<1>3. a \o b \in Seq(Octet) /\ Len(a \o b) = Len(a) + 1
  <2> HIDE DEF a, b
  <2>1. a \in Seq(Octet) /\ b \in Seq(Octet)
    BY <1>2
  <2>2. a \o b \in Seq(Octet) /\ Len(a \o b) = Len(a) + Len(b)
    BY <2>1, ConcatAt
  <2> QED BY <1>2, <2>2
<1>4. ASSUME NEW buf \in Seq(Octet), NEW c \in Nat, Holds(buf, c, a \o b)
      PROVE  FilterAt(buf, c) = [val |-> t, next |-> c + Len(a \o b)]
  <2>1. Holds(buf, c, a) /\ Holds(buf, c + Len(a), b)
    <3> HIDE DEF a, b
    <3> QED BY <1>2, <1>4, HoldsConcat
  <2>2. StrAt(buf, c) = [val |-> t.topic, next |-> c + Len(a)]
    BY <1>1, <2>1, StrRead
  <2>3. buf[c + Len(a) + 1] = t.qos
    <3>1. Holds(buf, c + Len(a), <<t.qos>>)
      BY <2>1
    <3>2. c + Len(a) \in Nat
      BY <1>2
    <3> QED BY <1>1, <3>1, <3>2, HoldsOne
  <2>4. QoS(t.qos) = t.qos
    BY <1>1 DEF QoS
  <2> HIDE DEF a, b
  <2>5. FilterAt(buf, c) = [val |-> [topic |-> t.topic, qos |-> t.qos], next |-> c + Len(a) + 1]
    BY <2>2, <2>3, <2>4 DEF FilterAt
  <2>6. c + Len(a) + 1 = c + Len(a \o b)
    BY <1>2, <1>3
  <2> QED BY <1>1, <2>5, <2>6
<1>5. Len(a \o b) > 0
  <2> HIDE DEF a, b
  <2> QED BY <1>2, <1>3
<1> QED BY <1>3, <1>4, <1>5

\* The topic filters of SUBSCRIBE are read back.
LEMMA FiltersRead ==
  ASSUME NEW ts \in Seq(Filter)
  PROVE  /\ FlattenSeq([i \in DOMAIN ts |-> Str(ts[i].topic) \o <<ts[i].qos>>]) \in Seq(Octet)
         /\ \A buf \in Seq(Octet), c \in Nat, end \in Nat :
              LET s == FlattenSeq([i \in DOMAIN ts |-> Str(ts[i].topic) \o <<ts[i].qos>>])
              IN Holds(buf, c, s) /\ end = c + Len(s) =>
                   ListAt(c, end, [k \in c..(end - 1) |-> FilterAt(buf, k)]) = ts
<1> DEFINE octs == [i \in DOMAIN ts |-> Str(ts[i].topic) \o <<ts[i].qos>>]
           s == FlattenSeq(octs)
<1>1. DOMAIN ts = 1..Len(ts) /\ Len(ts) \in Nat /\ \A i \in 1..Len(ts) : ts[i] \in Filter
  OBVIOUS
<1>2. ASSUME NEW i \in 1..Len(ts)
      PROVE  octs[i] = Str(ts[i].topic) \o <<ts[i].qos>> /\ octs[i] \in Seq(Octet) /\ Len(octs[i]) > 0
  <2>1. octs[i] = Str(ts[i].topic) \o <<ts[i].qos>>
    BY <1>1
  <2> HIDE DEF octs
  <2> QED BY <1>1, <2>1, FilterRead
<1>3. octs \in Seq(Seq(Octet)) /\ Len(octs) = Len(ts)
  <2>1. octs = [i \in 1..Len(ts) |-> octs[i]]
    BY <1>1
  <2> HIDE DEF octs
  <2>2. \A i \in 1..Len(ts) : octs[i] \in Seq(Octet)
    BY <1>2
  <2> QED BY <1>1, <2>1, <2>2, ValuesSeq
<1> HIDE DEF octs
<1>4. s \in Seq(Octet) /\ Len(s) \in Nat
  <2>1. s \in Seq(Octet)
    BY <1>3, FlattenParts
  <2> HIDE DEF s
  <2> QED BY <2>1
<1>5. ASSUME NEW buf \in Seq(Octet), NEW c \in Nat, NEW end \in Nat, Holds(buf, c, s), end = c + Len(s)
      PROVE  ListAt(c, end, [k \in c..(end - 1) |-> FilterAt(buf, k)]) = ts
  <2> DEFINE item == [k \in c..(end - 1) |-> FilterAt(buf, k)]
  <2>1. Reads(octs, ts, item, buf, c, end)
    <3> SUFFICES ASSUME NEW i \in 1..Len(octs), NEW k \in c..end
                 PROVE  Len(octs[i]) > 0 /\ (k < end /\ Holds(buf, k, octs[i])
                          => item[k] = [val |-> ts[i], next |-> k + Len(octs[i])])
      BY DEF Reads
    <3>1. /\ octs[i] = Str(ts[i].topic) \o <<ts[i].qos>> /\ Len(octs[i]) > 0
          /\ ts[i] \in Filter /\ k \in Nat
      BY <1>1, <1>2, <1>3
    <3>2. k < end => item[k] = FilterAt(buf, k)
      OBVIOUS
    <3> HIDE DEF item
    <3>3. Holds(buf, k, octs[i]) => FilterAt(buf, k) = [val |-> ts[i], next |-> k + Len(octs[i])]
      BY <3>1, FilterRead
    <3> QED BY <3>1, <3>2, <3>3
  <2> HIDE DEF item
  <2>2. Reads(octs, ts, item, buf, c, c + Len(s))
    BY <1>5, <2>1
  <2>3. ListAt(c, c + Len(s), item) = ts
    BY <1>3, <1>5, <2>2, ItemsRead
  <2> QED BY <1>5, <2>3 DEF item
<1> QED BY <1>4, <1>5 DEF s, octs

-------------------------------------------------------------------------------
(* Fields of every kind. *)

\* f is what FieldsAt goes through.
Fields(f, kinds, buf, c, end) ==
  f[0] = [val |-> 0, next |-> c]
  /\ \A i \in 1..Len(kinds) : f[i] = FieldAt(kinds[i], buf, f[i - 1].next, end)

Values(f, n) == [i \in 1..n |-> f[i].val]

\* FieldsAt is such a sequence of readings.
LEMMA FieldsIs ==
  ASSUME NEW S, NEW kinds \in Seq(S), NEW buf, NEW c, NEW end
  PROVE  \E f : /\ Fields(f, kinds, buf, c, end)
                /\ FieldsAt(kinds, buf, c, end) = Values(f, Len(kinds))
<1> DEFINE Is(f, n) == f = [i \in 0..n |-> IF i = 0 THEN [val |-> 0, next |-> c]
                                           ELSE FieldAt(kinds[i], buf, f[i - 1].next, end)]
           P(n) == \E f : Is(f, n)
           T == {n \in Nat : P(n)}
<1>1. P(0)
  <2> DEFINE f == [i \in 0..0 |-> [val |-> 0, next |-> c]]
  <2>1. f = [i \in 0..0 |-> IF i = 0 THEN [val |-> 0, next |-> c]
                            ELSE FieldAt(kinds[i], buf, f[i - 1].next, end)]
    OBVIOUS
  <2> HIDE DEF f
  <2> QED BY <2>1
<1>2. ASSUME NEW n \in Nat, P(n) PROVE P(n + 1)
  <2>1. PICK f : Is(f, n)
    BY <1>2
  <2> DEFINE h == [i \in 0..(n + 1) |-> IF i <= n THEN f[i]
                                        ELSE FieldAt(kinds[i], buf, f[i - 1].next, end)]
  <2>2. ASSUME NEW i \in 0..(n + 1)
        PROVE  h[i] = IF i = 0 THEN [val |-> 0, next |-> c]
                      ELSE FieldAt(kinds[i], buf, h[i - 1].next, end)
    <3>1. CASE i <= n
      <4>1. i \in 0..n /\ h[i] = f[i]
        BY <3>1
      <4>2. f[i] = IF i = 0 THEN [val |-> 0, next |-> c]
                   ELSE FieldAt(kinds[i], buf, f[i - 1].next, end)
        BY <2>1, <4>1
      <4>3. i # 0 => h[i - 1] = f[i - 1]
        BY <3>1
      <4> HIDE DEF h
      <4> QED BY <4>1, <4>2, <4>3
    <3>2. CASE i = n + 1
      <4>1. h[i] = FieldAt(kinds[i], buf, f[i - 1].next, end) /\ i # 0
        BY <3>2
      <4>2. h[i - 1] = f[i - 1]
        BY <3>2
      <4> HIDE DEF h
      <4> QED BY <4>1, <4>2
    <3> QED BY <3>1, <3>2
  <2>3. h = [i \in 0..(n + 1) |-> h[i]]
    OBVIOUS
  <2> HIDE DEF h
  <2>4. Is(h, n + 1)
    BY <2>2, <2>3
  <2> HIDE DEF Is
  <2> QED BY <2>4
<1> HIDE DEF P
<1>3. P(Len(kinds))
  <2>1. Nat \subseteq T
    <3>1. 0 \in T /\ \A n \in Nat : n \in T => n + 1 \in T
      BY <1>1, <1>2
    <3> HIDE DEF T
    <3> QED BY <3>1, NatInduct
  <2> QED BY <2>1
<1> DEFINE field == CHOOSE f : Is(f, Len(kinds))
<1>4. Is(field, Len(kinds))
  BY <1>3 DEF P
<1>5. FieldsAt(kinds, buf, c, end) = [i \in DOMAIN kinds |-> field[i].val]
  BY DEF FieldsAt
<1> HIDE DEF field
<1>6. DOMAIN kinds = 1..Len(kinds) /\ Len(kinds) \in Nat
  OBVIOUS
<1>7. \A i \in 0..Len(kinds) : field[i] = IF i = 0 THEN [val |-> 0, next |-> c]
                                          ELSE FieldAt(kinds[i], buf, field[i - 1].next, end)
  BY <1>4
<1>8. Fields(field, kinds, buf, c, end)
  <2>1. 0 \in 0..Len(kinds) /\ \A i \in 1..Len(kinds) : i \in 0..Len(kinds) /\ i # 0
    BY <1>6
  <2> QED BY <1>7, <2>1 DEF Fields
<1>9. FieldsAt(kinds, buf, c, end) = Values(field, Len(kinds))
  BY <1>5, <1>6 DEF Values
<1> QED BY <1>8, <1>9

\* After j fields what remains of the body is t.
Remains(f, j, buf, end, t) ==
  f[j].next \in Nat /\ Holds(buf, f[j].next, t) /\ end = f[j].next + Len(t)

\* A field of this kind is read as val where its octets are s and t follows.
ReadsAs(kind, s, t, val) ==
  \A buf \in Seq(Octet), c \in Nat : Holds(buf, c, s \o t) =>
    FieldAt(kind, buf, c, c + Len(s \o t)) = [val |-> val, next |-> c + Len(s)]

\* Field i, after field j, is of this kind.
Field(kinds, i, j, kind) == i \in 1..Len(kinds) /\ j = i - 1 /\ kinds[i] = kind

\* A field that is read leaves the ones after it.
LEMMA FieldStep ==
  ASSUME NEW f, NEW kinds, NEW buf \in Seq(Octet), NEW c, NEW end, Fields(f, kinds, buf, c, end),
         NEW i, NEW j, NEW kind, Field(kinds, i, j, kind), NEW s \in Seq(Octet),
         NEW t \in Seq(Octet), Remains(f, j, buf, end, s \o t), NEW val, ReadsAs(kind, s, t, val)
  PROVE  f[i].val = val /\ Remains(f, i, buf, end, t)
<1> DEFINE k == f[j].next
<1>1. k \in Nat /\ Holds(buf, k, s \o t) /\ end = k + Len(s \o t)
  BY DEF Remains
<1>2. f[i] = FieldAt(kind, buf, k, end)
  BY DEF Fields, Field
<1> HIDE DEF k
<1>3. f[i] = [val |-> val, next |-> k + Len(s)]
  BY <1>1, <1>2 DEF ReadsAs
<1>4. Len(s \o t) = Len(s) + Len(t) /\ Len(s) \in Nat /\ Len(t) \in Nat
  BY ConcatAt
<1>5. Holds(buf, k + Len(s), t)
  BY <1>1, HoldsConcat
<1>6. f[i].val = val /\ f[i].next = k + Len(s)
  BY <1>3
<1>7. k + Len(s) \in Nat /\ end = k + Len(s) + Len(t)
  <2> DEFINE a == Len(s)
             b == Len(t)
  <2>1. a \in Nat /\ b \in Nat /\ end = k + (a + b)
    BY <1>1, <1>4
  <2> HIDE DEF a, b
  <2>2. k + a \in Nat /\ end = k + a + b
    BY <1>1, <2>1
  <2> QED BY <2>2 DEF a, b
<1> QED BY <1>5, <1>6, <1>7 DEF Remains

\* A field of one octet.
LEMMA U8Field ==
  ASSUME NEW x \in Octet, NEW t \in Seq(Octet)
  PROVE  <<x>> \in Seq(Octet) /\ ReadsAs("u8", <<x>>, t, x)
<1> DEFINE s == <<x>>
<1>1. s \in Seq(Octet) /\ Len(s) = 1
  OBVIOUS
<1> SUFFICES ASSUME NEW buf \in Seq(Octet), NEW c \in Nat, Holds(buf, c, s \o t)
             PROVE  FieldAt("u8", buf, c, c + Len(s \o t)) = [val |-> x, next |-> c + Len(s)]
  BY <1>1 DEF ReadsAs
<1>2. Holds(buf, c, s)
  <2> HIDE DEF s
  <2> QED BY <1>1, HoldsConcat
<1>3. buf[c + 1] = x
  BY <1>2, HoldsOne
<1> HIDE DEF s
<1> QED BY <1>1, <1>3 DEF FieldAt

\* A field of two octets.
LEMMA U16Field ==
  ASSUME NEW n \in Word, NEW t \in Seq(Octet)
  PROVE  U16(n) \in Seq(Octet) /\ ReadsAs("u16", U16(n), t, n)
<1>1. U16(n) \in Seq(Octet) /\ Len(U16(n)) = 2
  BY U16Read
<1> SUFFICES ASSUME NEW buf \in Seq(Octet), NEW c \in Nat, Holds(buf, c, U16(n) \o t)
             PROVE  FieldAt("u16", buf, c, c + Len(U16(n) \o t)) = [val |-> n, next |-> c + Len(U16(n))]
  BY <1>1 DEF ReadsAs
<1>2. U16At(buf, c) = n
  BY <1>1, HoldsConcat, U16Read
<1> QED BY <1>1, <1>2 DEF FieldAt

\* A field that is a string.
LEMMA StrField ==
  ASSUME NEW x \in Text, NEW t \in Seq(Octet)
  PROVE  Str(x) \in Seq(Octet) /\ ReadsAs("str", Str(x), t, x)
<1>1. Str(x) \in Seq(Octet)
  BY StrRead
<1> SUFFICES ASSUME NEW buf \in Seq(Octet), NEW c \in Nat, Holds(buf, c, Str(x) \o t)
             PROVE  FieldAt("str", buf, c, c + Len(Str(x) \o t)) = [val |-> x, next |-> c + Len(Str(x))]
  BY <1>1 DEF ReadsAs
<1>2. Holds(buf, c, Str(x))
  BY <1>1, HoldsConcat
<1>3. StrAt(buf, c) = [val |-> x, next |-> c + Len(Str(x))]
  BY <1>2, StrRead
<1> QED BY <1>3 DEF FieldAt

\* What stands at a packet's end goes up to it.
LEMMA EndIs ==
  ASSUME NEW s \in Seq(Octet)
  PROVE  s \o <<>> = s /\ <<>> \o s = s /\ <<>> \in Seq(Octet) /\ Len(s) \in Nat
OBVIOUS

\* The last field.
LEMMA LastStep ==
  ASSUME NEW f, NEW kinds, NEW buf \in Seq(Octet), NEW c, NEW end, Fields(f, kinds, buf, c, end),
         NEW i, NEW j, NEW kind, Field(kinds, i, j, kind), NEW s \in Seq(Octet),
         Remains(f, j, buf, end, s), NEW val, ReadsAs(kind, s, <<>>, val)
  PROVE  f[i].val = val
<1> DEFINE t == <<>>
<1>1. t \in Seq(Octet) /\ s \o t = s
  BY EndIs
<1> HIDE DEF t
<1>2. Remains(f, j, buf, end, s \o t)
  BY <1>1
<1>3. ReadsAs(kind, s, t, val)
  BY DEF t
<1> QED BY <1>1, <1>2, <1>3, FieldStep

\* The rest of the packet as a field.
LEMMA RestField ==
  ASSUME NEW kind \in {"rest", "codes"}, NEW s \in Seq(Octet)
  PROVE  ReadsAs(kind, s, <<>>, s)
<1> SUFFICES ASSUME NEW buf \in Seq(Octet), NEW c \in Nat, Holds(buf, c, s)
             PROVE  FieldAt(kind, buf, c, c + Len(s)) = [val |-> s, next |-> c + Len(s)]
  BY EndIs DEF ReadsAs
<1>1. SubSeq(buf, c + 1, c + Len(s)) = s
  BY HoldsSub
<1>2. (c + Len(s)) - c = Len(s)
  BY EndIs
<1> QED BY <1>1, <1>2 DEF FieldAt, OctetsAt

\* Fields that are not there.
LEMMA NoField ==
  ASSUME NEW t \in Seq(Octet)
  PROVE  /\ ReadsAs("absent", <<>>, t, <<>>) /\ ReadsAs("zero", <<>>, t, 0)
         /\ ReadsAs("props", <<>>, <<>>, <<>>) /\ ReadsAs("reason", <<>>, <<>>, 0)
<1>1. Len(<<>>) = 0 /\ <<>> \o <<>> = <<>>
  OBVIOUS
<1>2. ASSUME NEW c \in Nat PROVE c + 0 = c /\ ~(c < c)
  OBVIOUS
<1>3. ReadsAs("absent", <<>>, t, <<>>) /\ ReadsAs("zero", <<>>, t, 0)
  BY <1>1, <1>2 DEF ReadsAs, FieldAt
<1>4. ReadsAs("props", <<>>, <<>>, <<>>)
  BY <1>1, <1>2 DEF ReadsAs, FieldAt
<1>5. ReadsAs("reason", <<>>, <<>>, 0)
  BY <1>1, <1>2 DEF ReadsAs, FieldAt, ReasonAt
<1> QED BY <1>3, <1>4, <1>5

\* A reason code where one is left.
LEMMA ReasonField ==
  ASSUME NEW x \in Octet, NEW t \in Seq(Octet)
  PROVE  ReadsAs("reason", <<x>>, t, x)
<1> DEFINE s == <<x>>
<1>1. s \in Seq(Octet) /\ Len(s) = 1
  OBVIOUS
<1> SUFFICES ASSUME NEW buf \in Seq(Octet), NEW c \in Nat, Holds(buf, c, s \o t)
             PROVE  FieldAt("reason", buf, c, c + Len(s \o t)) = [val |-> x, next |-> c + Len(s)]
  BY DEF ReadsAs
<1>2. Holds(buf, c, s)
  <2> HIDE DEF s
  <2> QED BY <1>1, HoldsConcat
<1>3. buf[c + 1] = x
  BY <1>2, HoldsOne
<1> HIDE DEF s
<1>4. Len(s \o t) = 1 + Len(t) /\ Len(t) \in Nat
  <2>1. s \in Seq(Octet)
    BY <1>1
  <2>2. Len(s \o t) = Len(s) + Len(t) /\ Len(t) \in Nat
    BY <2>1, ConcatAt
  <2> QED BY <1>1, <2>2
<1>5. c < c + Len(s \o t)
  BY <1>4
<1> QED BY <1>1, <1>3, <1>5 DEF FieldAt, ReasonAt

\* The properties, which only V5 has.
LEMMA PropsField ==
  ASSUME NEW v, NEW ps \in PropertyLists(v), NEW t \in Seq(Octet)
  PROVE  Props(v, ps) \in Seq(Octet) /\ ReadsAs(OnlyV5(v, "props"), Props(v, ps), t, ps)
<1>1. CASE v = "V5"
  <2> DEFINE s == Props(v, ps)
  <2>1. s \in Seq(Octet) /\ Len(s) >= 1 /\ Len(s) \in Nat
    BY <1>1, PropsRead
  <2>2. ReadsAs("props", s, t, ps)
    <3> SUFFICES ASSUME NEW buf \in Seq(Octet), NEW c \in Nat, Holds(buf, c, s \o t)
                 PROVE  FieldAt("props", buf, c, c + Len(s \o t)) = [val |-> ps, next |-> c + Len(s)]
      BY DEF ReadsAs
    <3>1. Holds(buf, c, s)
      <4> HIDE DEF s
      <4> QED BY <2>1, HoldsConcat
    <3>2. PropsAt(buf, c) = [val |-> ps, next |-> c + Len(s)]
      BY <1>1, <3>1, PropsRead
    <3> HIDE DEF s
    <3>3. Len(s \o t) = Len(s) + Len(t) /\ Len(t) \in Nat
      BY <2>1, ConcatAt
    <3>4. c < c + Len(s \o t)
      BY <2>1, <3>3
    <3> QED BY <3>2, <3>4 DEF FieldAt
  <2> QED BY <1>1, <2>1, <2>2 DEF OnlyV5
<1>2. CASE v # "V5"
  <2>1. Props(v, ps) = <<>> /\ ps = <<>> /\ OnlyV5(v, "props") = "absent" /\ <<>> \in Seq(Octet)
    BY <1>2 DEF Props, PropertyLists, OnlyV5
  <2>2. ReadsAs("absent", <<>>, t, <<>>)
    BY NoField
  <2> QED BY <2>1, <2>2
<1> QED BY <1>1, <1>2

\* The topics of UNSUBSCRIBE as a field.
LEMMA TopicsField ==
  ASSUME NEW ts \in Seq(Text)
  PROVE  LET s == FlattenSeq([i \in DOMAIN ts |-> Str(ts[i])])
         IN s \in Seq(Octet) /\ ReadsAs("topics", s, <<>>, ts)
<1> DEFINE s == FlattenSeq([i \in DOMAIN ts |-> Str(ts[i])])
<1>1. s \in Seq(Octet)
  BY TopicsRead
<1>2. ASSUME NEW buf \in Seq(Octet), NEW c \in Nat, Holds(buf, c, s)
      PROVE  FieldAt("topics", buf, c, c + Len(s)) = [val |-> ts, next |-> c + Len(s)]
  <2> DEFINE e == c + Len(s)
  <2>1. e \in Nat
    <3> HIDE DEF s
    <3> QED BY <1>1
  <2>2. ListAt(c, e, [k \in c..(e - 1) |-> StrAt(buf, k)]) = ts
    BY <1>2, <2>1, TopicsRead
  <2> HIDE DEF e
  <2>3. FieldAt("topics", buf, c, e) = [val |-> ts, next |-> e]
    BY <2>2 DEF FieldAt
  <2> QED BY <2>3 DEF e
<1> HIDE DEF s
<1>3. ReadsAs("topics", s, <<>>, ts)
  BY <1>1, <1>2, EndIs DEF ReadsAs
<1> QED BY <1>1, <1>3 DEF s

\* The topic filters of SUBSCRIBE as a field.
LEMMA FiltersField ==
  ASSUME NEW ts \in Seq(Filter)
  PROVE  LET s == FlattenSeq([i \in DOMAIN ts |-> Str(ts[i].topic) \o <<ts[i].qos>>])
         IN s \in Seq(Octet) /\ ReadsAs("filters", s, <<>>, ts)
<1> DEFINE s == FlattenSeq([i \in DOMAIN ts |-> Str(ts[i].topic) \o <<ts[i].qos>>])
<1>1. s \in Seq(Octet)
  BY FiltersRead
<1>2. ASSUME NEW buf \in Seq(Octet), NEW c \in Nat, Holds(buf, c, s)
      PROVE  FieldAt("filters", buf, c, c + Len(s)) = [val |-> ts, next |-> c + Len(s)]
  <2> DEFINE e == c + Len(s)
  <2>1. e \in Nat
    <3> HIDE DEF s
    <3> QED BY <1>1
  <2>2. ListAt(c, e, [k \in c..(e - 1) |-> FilterAt(buf, k)]) = ts
    BY <1>2, <2>1, FiltersRead
  <2> HIDE DEF e
  <2>3. FieldAt("filters", buf, c, e) = [val |-> ts, next |-> e]
    BY <2>2 DEF FieldAt
  <2> QED BY <2>3 DEF e
<1> HIDE DEF s
<1>3. ReadsAs("filters", s, <<>>, ts)
  BY <1>1, <1>2, EndIs DEF ReadsAs
<1> QED BY <1>1, <1>3 DEF s

\* The body is read as fields with these values.
BodyIs(kinds, body, vals) ==
  /\ body \in Seq(Octet)
  /\ \A buf \in Seq(Octet), c \in Nat : Holds(buf, c, body) =>
       FieldsAt(kinds, buf, c, c + Len(body)) = vals

\* At the start all fields remain.
LEMMA FieldsStart ==
  ASSUME NEW S, NEW kinds \in Seq(S), NEW body \in Seq(Octet), NEW buf \in Seq(Octet), NEW c \in Nat,
         Holds(buf, c, body)
  PROVE  \E f : /\ Fields(f, kinds, buf, c, c + Len(body))
                /\ FieldsAt(kinds, buf, c, c + Len(body)) = Values(f, Len(kinds))
                /\ Remains(f, 0, buf, c + Len(body), body)
<1>1. PICK f : /\ Fields(f, kinds, buf, c, c + Len(body))
               /\ FieldsAt(kinds, buf, c, c + Len(body)) = Values(f, Len(kinds))
  BY FieldsIs
<1>2. f[0].next = c
  BY <1>1 DEF Fields
<1>3. Remains(f, 0, buf, c + Len(body), body)
  BY <1>2 DEF Remains
<1> QED BY <1>1, <1>3

\* Bodies of two, of three and of four fields.
LEMMA TwoFields ==
  ASSUME NEW k1, NEW k2, NEW s1 \in Seq(Octet), NEW s2 \in Seq(Octet), NEW x1, NEW x2,
         ReadsAs(k1, s1, s2, x1), ReadsAs(k2, s2, <<>>, x2)
  PROVE  BodyIs(<<k1, k2>>, s1 \o s2, <<x1, x2>>)
<1> DEFINE kinds == <<k1, k2>>
           body == s1 \o s2
<1>1. /\ body \in Seq(Octet) /\ kinds \in Seq({k1, k2}) /\ Len(kinds) = 2
  OBVIOUS
<1>3. Field(kinds, 1, 0, k1) /\ Field(kinds, 2, 1, k2)
  BY DEF Field
<1> HIDE DEF kinds
<1>2. ASSUME NEW buf \in Seq(Octet), NEW c \in Nat, Holds(buf, c, body)
      PROVE  FieldsAt(kinds, buf, c, c + Len(body)) = <<x1, x2>>
  <2> DEFINE end == c + Len(body)
  <2>1. PICK f : /\ Fields(f, kinds, buf, c, end)
                 /\ FieldsAt(kinds, buf, c, end) = Values(f, Len(kinds))
                 /\ Remains(f, 0, buf, end, body)
    <3> HIDE DEF body
    <3> QED BY <1>1, <1>2, FieldsStart
  <2> HIDE DEF end
  <2>2. f[1].val = x1 /\ Remains(f, 1, buf, end, s2)
    BY <1>1, <1>3, <2>1, FieldStep
  <2>4. f[2].val = x2
    BY <1>3, <2>1, <2>2, LastStep
  <2>5. Values(f, 2) = <<x1, x2>>
    BY <2>2, <2>4 DEF Values
  <2> QED BY <1>1, <2>1, <2>5 DEF end
<1> QED BY <1>1, <1>2 DEF BodyIs, kinds

\* A body of three fields.
LEMMA ThreeFields ==
  ASSUME NEW k1, NEW k2, NEW k3, NEW s1 \in Seq(Octet), NEW s2 \in Seq(Octet), NEW s3 \in Seq(Octet),
         NEW x1, NEW x2, NEW x3, ReadsAs(k1, s1, s2 \o s3, x1), ReadsAs(k2, s2, s3, x2),
         ReadsAs(k3, s3, <<>>, x3)
  PROVE  BodyIs(<<k1, k2, k3>>, s1 \o (s2 \o s3), <<x1, x2, x3>>)
<1> DEFINE kinds == <<k1, k2, k3>>
           t == s2 \o s3
           body == s1 \o t
<1>1. /\ body \in Seq(Octet) /\ kinds \in Seq({k1, k2, k3}) /\ Len(kinds) = 3 /\ t \in Seq(Octet)
  OBVIOUS
<1>3. Field(kinds, 1, 0, k1) /\ Field(kinds, 2, 1, k2) /\ Field(kinds, 3, 2, k3)
  BY DEF Field
<1> HIDE DEF kinds
<1>2. ASSUME NEW buf \in Seq(Octet), NEW c \in Nat, Holds(buf, c, body)
      PROVE  FieldsAt(kinds, buf, c, c + Len(body)) = <<x1, x2, x3>>
  <2> DEFINE end == c + Len(body)
  <2>1. PICK f : /\ Fields(f, kinds, buf, c, end)
                 /\ FieldsAt(kinds, buf, c, end) = Values(f, Len(kinds))
                 /\ Remains(f, 0, buf, end, body)
    <3> HIDE DEF body
    <3> QED BY <1>1, <1>2, FieldsStart
  <2> HIDE DEF end
  <2>2. f[1].val = x1 /\ Remains(f, 1, buf, end, t)
    <3> HIDE DEF t
    <3>1. ReadsAs(k1, s1, t, x1)
      BY DEF t
    <3> QED BY <1>1, <1>3, <2>1, <3>1, FieldStep
  <2>3. f[2].val = x2 /\ Remains(f, 2, buf, end, s3)
    BY <1>1, <1>3, <2>1, <2>2, FieldStep
  <2>5. f[3].val = x3
    BY <1>3, <2>1, <2>3, LastStep
  <2>6. Values(f, 3) = <<x1, x2, x3>>
    BY <2>2, <2>3, <2>5 DEF Values
  <2> QED BY <1>1, <2>1, <2>6 DEF end
<1> QED BY <1>1, <1>2 DEF BodyIs, kinds

\* A body of four fields.
LEMMA FourFields ==
  ASSUME NEW k1, NEW k2, NEW k3, NEW k4, NEW s1 \in Seq(Octet), NEW s2 \in Seq(Octet),
         NEW s3 \in Seq(Octet), NEW s4 \in Seq(Octet), NEW x1, NEW x2, NEW x3, NEW x4,
         ReadsAs(k1, s1, s2 \o (s3 \o s4), x1), ReadsAs(k2, s2, s3 \o s4, x2),
         ReadsAs(k3, s3, s4, x3), ReadsAs(k4, s4, <<>>, x4)
  PROVE  BodyIs(<<k1, k2, k3, k4>>, s1 \o (s2 \o (s3 \o s4)), <<x1, x2, x3, x4>>)
<1> DEFINE kinds == <<k1, k2, k3, k4>>
           u == s3 \o s4
           t == s2 \o u
           body == s1 \o t
<1>1. /\ body \in Seq(Octet) /\ kinds \in Seq({k1, k2, k3, k4}) /\ Len(kinds) = 4
      /\ t \in Seq(Octet) /\ u \in Seq(Octet)
  OBVIOUS
<1>3. /\ Field(kinds, 1, 0, k1) /\ Field(kinds, 2, 1, k2) /\ Field(kinds, 3, 2, k3)
      /\ Field(kinds, 4, 3, k4)
  BY DEF Field
<1> HIDE DEF kinds
<1>2. ASSUME NEW buf \in Seq(Octet), NEW c \in Nat, Holds(buf, c, body)
      PROVE  FieldsAt(kinds, buf, c, c + Len(body)) = <<x1, x2, x3, x4>>
  <2> DEFINE end == c + Len(body)
  <2>1. PICK f : /\ Fields(f, kinds, buf, c, end)
                 /\ FieldsAt(kinds, buf, c, end) = Values(f, Len(kinds))
                 /\ Remains(f, 0, buf, end, body)
    <3> HIDE DEF body
    <3> QED BY <1>1, <1>2, FieldsStart
  <2> HIDE DEF end
  <2>2. f[1].val = x1 /\ Remains(f, 1, buf, end, t)
    <3> HIDE DEF t
    <3>1. ReadsAs(k1, s1, t, x1)
      BY DEF t
    <3> QED BY <1>1, <1>3, <2>1, <3>1, FieldStep
  <2>3. f[2].val = x2 /\ Remains(f, 2, buf, end, u)
    <3> HIDE DEF u
    <3>1. ReadsAs(k2, s2, u, x2)
      BY DEF u
    <3> QED BY <1>1, <1>3, <2>1, <2>2, <3>1, FieldStep
  <2>4. f[3].val = x3 /\ Remains(f, 3, buf, end, s4)
    BY <1>1, <1>3, <2>1, <2>3, FieldStep
  <2>6. f[4].val = x4
    BY <1>3, <2>1, <2>4, LastStep
  <2>7. Values(f, 4) = <<x1, x2, x3, x4>>
    BY <2>2, <2>3, <2>4, <2>6 DEF Values
  <2> QED BY <1>1, <2>1, <2>7 DEF end
<1> QED BY <1>1, <1>2 DEF BodyIs, kinds

-------------------------------------------------------------------------------
(* The bodies of the packets. *)

\* Concatenation is associative.
LEMMA Assoc ==
  ASSUME NEW S, NEW a \in Seq(S), NEW b \in Seq(S), NEW c \in Seq(S)
  PROVE  (a \o b) \o c = a \o (b \o c)
OBVIOUS

\* Short tuples as concatenations.
LEMMA Tuples ==
  ASSUME NEW x, NEW y, NEW z
  PROVE  <<x>> \o <<y>> = <<x, y>> /\ <<x>> \o <<y, z>> = <<x, y, z>>
<1> DEFINE S == {x, y, z}
           a == <<x>>
           b == <<y>>
           c == <<y, z>>
<1>1. /\ a \in Seq(S) /\ Len(a) = 1 /\ a[1] = x
      /\ b \in Seq(S) /\ Len(b) = 1 /\ b[1] = y
      /\ c \in Seq(S) /\ Len(c) = 2 /\ c[1] = y /\ c[2] = z
  OBVIOUS
<1>2. ASSUME NEW s \in Seq(S), Len(s) = 2, s[1] = x, s[2] = y PROVE s = <<x, y>>
  BY <1>2
<1>3. ASSUME NEW s \in Seq(S), Len(s) = 3, s[1] = x, s[2] = y, s[3] = z PROVE s = <<x, y, z>>
  BY <1>3
<1> HIDE DEF S, a, b, c
<1>4. a \o b \in Seq(S) /\ Len(a \o b) = 2 /\ (a \o b)[1] = x /\ (a \o b)[2] = y
  <2>1. a \in Seq(S) /\ b \in Seq(S)
    BY <1>1
  <2>2. /\ a \o b \in Seq(S) /\ Len(a \o b) = Len(a) + Len(b)
        /\ \A i \in 1..Len(a) : (a \o b)[i] = a[i]
        /\ \A i \in 1..Len(b) : (a \o b)[Len(a) + i] = b[i]
    BY <2>1, ConcatAt
  <2>3. (a \o b)[1] = a[1]
    BY <1>1, <2>2
  <2>4. (a \o b)[1 + 1] = b[1]
    BY <1>1, <2>2
  <2> QED BY <1>1, <2>2, <2>3, <2>4
<1>5. /\ a \o c \in Seq(S) /\ Len(a \o c) = 3
      /\ (a \o c)[1] = x /\ (a \o c)[2] = y /\ (a \o c)[3] = z
  <2>1. /\ a \o c \in Seq(S) /\ Len(a \o c) = Len(a) + Len(c)
        /\ \A i \in 1..Len(a) : (a \o c)[i] = a[i]
        /\ \A i \in 1..Len(c) : (a \o c)[Len(a) + i] = c[i]
    <3>1. a \in Seq(S) /\ c \in Seq(S)
      BY <1>1
    <3> QED BY <3>1, ConcatAt
  <2> QED BY <1>1, <2>1
<1> QED BY <1>2, <1>3, <1>4, <1>5 DEF a, b, c

\* One octet or none for a reason code, and what follows it.
ReasonIs(p, v, a, b) ==
  /\ a \in Seq(Octet) /\ b \in Seq(Octet) /\ ReasonPart(p, v) = a \o b
  /\ ReadsAs(ReasonKinds(v)[1], a, b, p.reason_code)
  /\ ReadsAs(ReasonKinds(v)[2], b, <<>>, p.properties)

\* The reason code and the properties, left out where the code leaves them out, are
\* read back.
LEMMA ReasonRead ==
  ASSUME NEW v, NEW p, p.reason_code \in Reasons(v), p.properties \in PropertyLists(v)
  PROVE  \E a, b : ReasonIs(p, v, a, b)
<1> DEFINE ps == p.properties
           rc == p.reason_code
           none == <<>>
<1>1. ReasonKinds(v)[1] = (IF v = "V5" THEN "reason" ELSE "zero")
      /\ ReasonKinds(v)[2] = OnlyV5(v, "props")
  BY DEF ReasonKinds
<1>2. none \in Seq(Octet) /\ none \o none = none
  OBVIOUS
<1>3. rc \in Octet
  BY DEF Reasons, Octet
<1>4. CASE v = "V5" /\ (ps # <<>> \/ rc # 0)
  <2>1. ReasonPart(p, v) = <<rc>> \o Props(v, ps)
    BY <1>4 DEF ReasonPart
  <2>2. Props(v, ps) \in Seq(Octet) /\ ReadsAs(OnlyV5(v, "props"), Props(v, ps), none, ps)
    BY <1>2, PropsField
  <2>3. <<rc>> \in Seq(Octet) /\ ReadsAs("reason", <<rc>>, Props(v, ps), rc)
    BY <1>3, <2>2, ReasonField
  <2>4. ReasonIs(p, v, <<rc>>, Props(v, ps))
    BY <1>1, <1>4, <2>1, <2>2, <2>3 DEF ReasonIs
  <2> QED BY <2>4
<1>5. CASE v = "V5" /\ ps = <<>> /\ rc = 0
  <2>1. ReasonPart(p, v) = none
    BY <1>5 DEF ReasonPart
  <2>2. OnlyV5(v, "props") = "props"
    BY <1>5 DEF OnlyV5
  <2>3. ReadsAs("reason", none, none, 0) /\ ReadsAs("props", none, none, none)
    BY <1>2, NoField
  <2>4. ReasonIs(p, v, none, none)
    BY <1>1, <1>2, <1>5, <2>1, <2>2, <2>3 DEF ReasonIs
  <2> QED BY <2>4
<1>6. CASE v # "V5"
  <2>1. ReasonPart(p, v) = none /\ OnlyV5(v, "props") = "absent" /\ rc = 0 /\ ps = none
    BY <1>6 DEF ReasonPart, OnlyV5, Reasons, PropertyLists, Vec
  <2>2. ReadsAs("zero", none, none, 0) /\ ReadsAs("absent", none, none, none)
    BY <1>2, NoField
  <2>3. ReasonIs(p, v, none, none)
    BY <1>1, <1>2, <1>6, <2>1, <2>2 DEF ReasonIs
  <2> QED BY <2>3
<1> QED BY <1>4, <1>5, <1>6

\* An acknowledgement's body is read as it was written.
LEMMA AckRead ==
  ASSUME NEW v, NEW p \in AckPackets(v)
  PROVE  /\ BodyIs(AckKinds(v), AckBody(p, v), <<p.packet_id, p.reason_code, p.properties>>)
         /\ Len(AckBody(p, v)) >= 2
<1>1. /\ p.packet_id \in Word /\ p.reason_code \in Reasons(v) /\ p.properties \in PropertyLists(v)
  BY DEF AckPackets
<1>2. PICK a, b : ReasonIs(p, v, a, b)
  BY <1>1, ReasonRead
<1>3. a \in Seq(Octet) /\ b \in Seq(Octet) /\ a \o b \in Seq(Octet)
  BY <1>2 DEF ReasonIs
<1>4. U16(p.packet_id) \in Seq(Octet) /\ ReadsAs("u16", U16(p.packet_id), a \o b, p.packet_id)
  BY <1>1, <1>3, U16Field
<1>5. AckKinds(v) = <<"u16", ReasonKinds(v)[1], ReasonKinds(v)[2]>>
  <2>1. ReasonKinds(v) = <<ReasonKinds(v)[1], ReasonKinds(v)[2]>>
    BY DEF ReasonKinds
  <2>2. <<"u16">> \o <<ReasonKinds(v)[1], ReasonKinds(v)[2]>>
          = <<"u16", ReasonKinds(v)[1], ReasonKinds(v)[2]>>
    BY Tuples
  <2> QED BY <2>1, <2>2 DEF AckKinds
<1>6. AckBody(p, v) = U16(p.packet_id) \o (a \o b)
  BY <1>2 DEF AckBody, ReasonIs
<1>7. Len(AckBody(p, v)) = Len(U16(p.packet_id)) + Len(a \o b) /\ Len(a \o b) \in Nat
  BY <1>3, <1>4, <1>6, ConcatAt
<1>8. Len(U16(p.packet_id)) = 2
  BY <1>1, U16Read
<1>9. BodyIs(<<"u16", ReasonKinds(v)[1], ReasonKinds(v)[2]>>, U16(p.packet_id) \o (a \o b),
             <<p.packet_id, p.reason_code, p.properties>>)
  BY <1>2, <1>3, <1>4, ThreeFields DEF ReasonIs
<1> QED BY <1>5, <1>6, <1>7, <1>8, <1>9

\* So is a DISCONNECT's.
LEMMA DisconnectRead ==
  ASSUME NEW v, NEW p, p.reason_code \in Reasons(v), p.properties \in PropertyLists(v)
  PROVE  BodyIs(ReasonKinds(v), ReasonPart(p, v), <<p.reason_code, p.properties>>)
<1>1. PICK a, b : ReasonIs(p, v, a, b)
  BY ReasonRead
<1>2. BodyIs(<<ReasonKinds(v)[1], ReasonKinds(v)[2]>>, a \o b, <<p.reason_code, p.properties>>)
  BY <1>1, TwoFields DEF ReasonIs
<1>3. ReasonKinds(v) = <<ReasonKinds(v)[1], ReasonKinds(v)[2]>>
  BY DEF ReasonKinds
<1> QED BY <1>1, <1>2, <1>3 DEF ReasonIs

\* An identifier, properties and octets up to the end.
LEMMA ListedRead ==
  ASSUME NEW v, NEW id \in Word, NEW ps \in PropertyLists(v), NEW kind, NEW s \in Seq(Octet),
         NEW val, ReadsAs(kind, s, <<>>, val)
  PROVE  LET body == U16(id) \o Props(v, ps) \o s
         IN BodyIs(<<"u16", OnlyV5(v, "props"), kind>>, body, <<id, ps, val>>) /\ Len(body) >= 2
<1> DEFINE a == U16(id)
           b == Props(v, ps)
<1>1. b \in Seq(Octet) /\ ReadsAs(OnlyV5(v, "props"), b, s, ps)
  BY PropsField
<1>2. b \o s \in Seq(Octet)
  <2> HIDE DEF b
  <2> QED BY <1>1, ConcatAt
<1>3. a \in Seq(Octet) /\ Len(a) = 2 /\ ReadsAs("u16", a, b \o s, id)
  BY <1>2, U16Field, U16Read
<1> HIDE DEF a, b
<1>4. BodyIs(<<"u16", OnlyV5(v, "props"), kind>>, a \o (b \o s), <<id, ps, val>>)
  BY <1>1, <1>3, ThreeFields
<1>5. (a \o b) \o s = a \o (b \o s)
  <2>1. a \in Seq(Octet) /\ b \in Seq(Octet) /\ s \in Seq(Octet)
    BY <1>1, <1>3
  <2> QED BY <2>1, Assoc
<1>6. Len(a \o (b \o s)) = Len(a) + Len(b \o s) /\ Len(b \o s) \in Nat
  BY <1>2, <1>3, ConcatAt
<1> QED BY <1>3, <1>4, <1>5, <1>6 DEF a, b

\* A CONNACK's body.
LEMMA ConnAckRead ==
  ASSUME NEW v, NEW p, p.session_present \in BOOLEAN, p.reason_code \in Octet,
         p.properties \in PropertyLists(v)
  PROVE  /\ BodyIs(ConnAckKinds(v), ConnAckBody(p, v),
                   <<Bit(p.session_present), p.reason_code, p.properties>>)
         /\ Len(ConnAckBody(p, v)) >= 2
<1> DEFINE b == Props(v, p.properties)
           x == Bit(p.session_present)
           y == p.reason_code
           none == <<>>
<1>0. none \in Seq(Octet)
  OBVIOUS
<1>1. b \in Seq(Octet) /\ ReadsAs(OnlyV5(v, "props"), b, none, p.properties)
  BY <1>0, PropsField
<1>2. x \in Octet
  BY DEF Bit, Octet
<1> HIDE DEF b, x, y
<1>3. <<y>> \in Seq(Octet) /\ ReadsAs("u8", <<y>>, b, y)
  BY <1>1, U8Field DEF y
<1>4. <<y>> \o b \in Seq(Octet)
  BY <1>1, <1>3
<1>5. <<x>> \in Seq(Octet) /\ ReadsAs("u8", <<x>>, <<y>> \o b, x)
  BY <1>2, <1>4, U8Field
<1>6. BodyIs(<<"u8", "u8", OnlyV5(v, "props")>>, <<x>> \o (<<y>> \o b), <<x, y, p.properties>>)
  BY <1>1, <1>3, <1>5, ThreeFields
<1>7. <<x>> \o (<<y>> \o b) = <<x, y>> \o b
  <2>1. <<x, y>> = <<x>> \o <<y>> /\ <<x>> \in Seq(Octet) /\ <<y>> \in Seq(Octet)
    BY <1>3, <1>5, Tuples
  <2>2. (<<x>> \o <<y>>) \o b = <<x>> \o (<<y>> \o b)
    BY <1>1, <2>1, Assoc
  <2> QED BY <2>1, <2>2
<1>8. <<x, y>> \in Seq(Octet) /\ Len(<<x, y>>) = 2
  BY <1>2 DEF y
<1>9. Len(<<x, y>> \o b) = Len(<<x, y>>) + Len(b) /\ Len(b) \in Nat
  BY <1>1, <1>8, ConcatAt
<1>10. ConnAckBody(p, v) = <<x>> \o (<<y>> \o b) /\ Len(ConnAckBody(p, v)) >= 2
  <2>1. ConnAckBody(p, v) = <<x, y>> \o b
    BY DEF ConnAckBody, b, x, y
  <2> QED BY <1>7, <1>8, <1>9, <2>1
<1>11. ConnAckKinds(v) = <<"u8", "u8", OnlyV5(v, "props")>>
  BY DEF ConnAckKinds
<1> QED BY <1>6, <1>10, <1>11 DEF x, y

\* A PUBLISH's body.
LEMMA PublishRead ==
  ASSUME NEW v, NEW p \in PublishPackets(v)
  PROVE  BodyIs(PublishKinds(v, p.qos), PublishBody(p, v),
                <<p.topic, IF p.qos = 0 THEN <<>> ELSE p.packet_id[1], p.properties, p.payload>>)
<1>1. /\ p.topic \in Text /\ p.qos \in 0..2 /\ p.packet_id \in AtMostOne(Word)
      /\ p.properties \in PropertyLists(v) /\ p.payload \in Seq(Octet)
      /\ (p.packet_id = <<>> <=> p.qos = 0)
  BY DEF PublishPackets
<1> DEFINE a == Str(p.topic)
           b == IF p.qos = 0 THEN <<>> ELSE U16(IF p.packet_id = <<>> THEN 1 ELSE p.packet_id[1])
           c == Props(v, p.properties)
           d == p.payload
           kind == IF p.qos = 0 THEN "absent" ELSE "u16"
           id == IF p.qos = 0 THEN <<>> ELSE p.packet_id[1]
<1>2. ReadsAs("rest", d, <<>>, d) /\ d \in Seq(Octet)
  BY <1>1, RestField
<1> HIDE DEF d
<1>3. c \in Seq(Octet) /\ ReadsAs(OnlyV5(v, "props"), c, d, p.properties)
  BY <1>1, <1>2, PropsField
<1> HIDE DEF c
<1>4. c \o d \in Seq(Octet)
  BY <1>2, <1>3
<1>5. b \in Seq(Octet) /\ ReadsAs(kind, b, c \o d, id)
  <2>1. CASE p.qos = 0
    <3>1. ReadsAs("absent", <<>>, c \o d, <<>>)
      BY <1>4, NoField
    <3>2. <<>> \in Seq(Octet)
      OBVIOUS
    <3> QED BY <2>1, <3>1, <3>2
  <2>2. CASE p.qos # 0
    <3>1. p.packet_id # <<>>
      BY <1>1, <2>2
    <3>2. p.packet_id[1] \in Word
      BY <1>1, <3>1 DEF AtMostOne
    <3>3. U16(p.packet_id[1]) \in Seq(Octet)
          /\ ReadsAs("u16", U16(p.packet_id[1]), c \o d, p.packet_id[1])
      BY <1>4, <3>2, U16Field
    <3> QED BY <2>2, <3>1, <3>3
  <2> QED BY <2>1, <2>2
<1> HIDE DEF b, kind, id
<1>6. b \o (c \o d) \in Seq(Octet)
  BY <1>4, <1>5
<1>7. a \in Seq(Octet) /\ ReadsAs("str", a, b \o (c \o d), p.topic)
  BY <1>1, <1>6, StrField
<1> HIDE DEF a
<1>8. BodyIs(<<"str", kind, OnlyV5(v, "props"), "rest">>, a \o (b \o (c \o d)),
             <<p.topic, id, p.properties, d>>)
  BY <1>2, <1>3, <1>5, <1>7, FourFields
<1>9. ((a \o b) \o c) \o d = a \o (b \o (c \o d))
  <2> DEFINE ab == a \o b
             cd == c \o d
  <2>0. a \in Seq(Octet) /\ b \in Seq(Octet) /\ cd \in Seq(Octet)
    BY <1>4, <1>5, <1>7
  <2>2. ab \in Seq(Octet) /\ c \in Seq(Octet) /\ d \in Seq(Octet)
    BY <1>2, <1>3, <1>5, <1>7
  <2>1. ab \o cd = a \o (b \o cd)
    <3> HIDE DEF cd
    <3> QED BY <2>0, Assoc
  <2>3. (ab \o c) \o d = ab \o cd
    <3> HIDE DEF ab
    <3> QED BY <2>2, Assoc
  <2> QED BY <2>1, <2>3
<1>10. PublishBody(p, v) = ((a \o b) \o c) \o d
  BY DEF PublishBody, a, b, c, d
<1>11. PublishKinds(v, p.qos) = <<"str", kind, OnlyV5(v, "props"), "rest">>
  BY DEF PublishKinds, kind
<1> QED BY <1>8, <1>9, <1>10, <1>11 DEF id, d

-------------------------------------------------------------------------------
(* First octets. *)

\* A packet type has one number.
LEMMA TypeNumber ==
  ASSUME NEW p, NEW i \in 1..14, p.type = Types[i]
  PROVE  (CHOOSE j \in DOMAIN Types : Types[j] = p.type) = i
<1>1. DOMAIN Types = 1..14
  BY DEF Types
<1>2. \A j \in 1..14 : Types[j] = Types[i] => j = i
  BY DEF Types
<1> QED BY <1>1, <1>2

\* The flags of a PUBLISH are read as they were written.
LEMMA PublishFlags ==
  ASSUME NEW d \in BOOLEAN, NEW q \in 0..2, NEW r \in BOOLEAN,
         NEW n, n = 48 + (8 * Bit(d) + 2 * q + Bit(r))
  PROVE  /\ n \in Octet /\ n \div 16 = 3 /\ QoS((n \div 2) % 4) = q
         /\ HasBit(n, 8) = d /\ HasBit(n, 1) = r
<1> DEFINE x == Bit(d)
           y == Bit(r)
<1>1. x \in 0..1 /\ y \in 0..1 /\ (x = 1 <=> d) /\ (y = 1 <=> r)
  BY DEF Bit
<1> HIDE DEF x, y
<1>2. n = 48 + (8 * x + 2 * q + y)
  BY DEF x, y
<1>3. n \in 0..255 /\ n \div 16 = 3 /\ (n \div 2) % 4 = q /\ (n \div 8) % 2 = x /\ (n \div 1) % 2 = y
  BY <1>1, <1>2
<1>4. QoS(q) = q
  BY DEF QoS
<1> QED BY <1>1, <1>3, <1>4 DEF HasBit, Octet

\* The first octet holds the type's number.
LEMMA FirstIs ==
  ASSUME NEW p, NEW i \in 1..14, p.type = Types[i], p.type # "Publish"
  PROVE  FirstOctet(p) \in Octet /\ FirstOctet(p) \div 16 = i
<1> DEFINE flags == IF p.type \in {"PubRel", "Subscribe", "Unsubscribe"} THEN 2 ELSE 0
<1> DEFINE type == CHOOSE j \in DOMAIN Types : Types[j] = p.type
<1>0. type = i
  BY TypeNumber
<1>1. FirstOctet(p) = 16 * i + flags
  <2>1. FirstOctet(p) = 16 * type + flags
    BY DEF FirstOctet
  <2> HIDE DEF type
  <2> QED BY <1>0, <2>1
<1>2. flags = 0 \/ flags = 2
  OBVIOUS
<1> HIDE DEF flags
<1>3. 16 * i + flags \in 0..255 /\ (16 * i + flags) \div 16 = i
  BY <1>2
<1> QED BY <1>1, <1>3 DEF Octet

\* A value that its field's vector has room for.
Fits(kind, val) == ~(kind \in {"props", "topics", "filters", "codes"} /\ Len(val) > VecSize)

\* Properties do, and lists of as many items; other fields have no such bound.
LEMMA ListFits ==
  ASSUME NEW S, NEW x \in Vec(S), NEW kind
  PROVE  Fits(kind, x)
<1>1. x \in Seq(S) /\ Len(x) <= 8
  BY DEF Vec, VecSize
<1>2. Len(x) \in Nat
  BY <1>1
<1>3. ~(Len(x) > 8)
  BY <1>1, <1>2
<1> QED BY <1>3 DEF Fits, VecSize

LEMMA PropsFit ==
  ASSUME NEW v, NEW ps \in PropertyLists(v)
  PROVE  Fits(OnlyV5(v, "props"), ps)
<1>1. CASE v = "V5"
  BY <1>1, ListFits DEF PropertyLists
<1>2. CASE v # "V5"
  BY <1>2 DEF OnlyV5, Fits
<1> QED BY <1>1, <1>2

LEMMA OthersFit ==
  ASSUME NEW kind, kind \notin {"props", "topics", "filters", "codes"}
  PROVE  \A val : Fits(kind, val)
BY DEF Fits

\* No list of a packet is too long if each of its values fits.
LEMMA AllFit ==
  ASSUME NEW kinds, NEW vals, \A i \in DOMAIN kinds : Fits(kinds[i], vals[i])
  PROVE  ~TooMany(kinds, vals)
BY DEF TooMany, Fits

LEMMA ThreeFit ==
  ASSUME NEW k1, NEW k2, NEW k3, NEW x1, NEW x2, NEW x3, Fits(k1, x1), Fits(k2, x2), Fits(k3, x3)
  PROVE  ~TooMany(<<k1, k2, k3>>, <<x1, x2, x3>>)
<1> DEFINE kinds == <<k1, k2, k3>>
           vals  == <<x1, x2, x3>>
<1>1. DOMAIN kinds = 1..3
  OBVIOUS
<1>2. kinds[1] = k1 /\ kinds[2] = k2 /\ kinds[3] = k3 /\ vals[1] = x1 /\ vals[2] = x2 /\ vals[3] = x3
  OBVIOUS
<1> HIDE DEF kinds, vals
<1>3. ASSUME NEW i \in 1..3 PROVE Fits(kinds[i], vals[i])
  <2>1. i = 1 \/ i = 2 \/ i = 3
    OBVIOUS
  <2> QED BY <1>2, <2>1
<1>4. ~TooMany(kinds, vals)
  BY <1>1, <1>3, AllFit
<1> QED BY <1>4 DEF kinds, vals

\* Packet p, of type number i, is read by its body as fields of these kinds and
\* values, whatever buffer holds it.
KindsOf(p, v, kinds) ==
  \A buf \in Seq(Octet), c \in Nat : buf[1] = FirstOctet(p) /\ Holds(buf, c, Body(p, v)) =>
    Kinds(p.type, buf, v, c) = kinds

IsRead(p, v, i, kinds, vals) ==
  /\ i \in 1..14 /\ p.type = Types[i]
  /\ FirstOctet(p) \in Octet /\ FirstOctet(p) \div 16 = i
  /\ BodyIs(kinds, Body(p, v), vals) /\ KindsOf(p, v, kinds)
  /\ PacketOf(p.type, FirstOctet(p), vals) = p /\ ~TooMany(kinds, vals)
  /\ Len(Body(p, v)) >= 2 \/ p.type \in {"Connect", "Publish", "Disconnect"}

\* A PUBLISH is.
LEMMA PublishIsRead ==
  ASSUME NEW v, NEW p \in PublishPackets(v)
  PROVE  \E i, kinds, vals : IsRead(p, v, i, kinds, vals)
<1> DEFINE kinds == PublishKinds(v, p.qos)
           vals == <<p.topic, IF p.qos = 0 THEN <<>> ELSE p.packet_id[1], p.properties, p.payload>>
           n == FirstOctet(p)
<1>1. /\ p = [type |-> "Publish", dup |-> p.dup, qos |-> p.qos, retain |-> p.retain,
              topic |-> p.topic, packet_id |-> p.packet_id, properties |-> p.properties,
              payload |-> p.payload]
      /\ p.type = "Publish" /\ p.dup \in BOOLEAN /\ p.retain \in BOOLEAN /\ p.qos \in 0..2
      /\ p.packet_id \in AtMostOne(Word) /\ (p.packet_id = <<>> <=> p.qos = 0)
      /\ p.properties \in PropertyLists(v)
  BY DEF PublishPackets
<1>2. BodyIs(kinds, Body(p, v), vals)
  BY <1>1, PublishRead DEF Body
<1>3. Types[3] = "Publish" /\ 3 \in 1..14
  BY DEF Types
<1>4. n = 48 + (8 * Bit(p.dup) + 2 * p.qos + Bit(p.retain))
  <2> DEFINE type == CHOOSE j \in DOMAIN Types : Types[j] = p.type
  <2>1. type = 3
    BY <1>1, <1>3, TypeNumber
  <2>2. n = 16 * type + (8 * Bit(p.dup) + 2 * p.qos + Bit(p.retain))
    BY <1>1 DEF FirstOctet
  <2> HIDE DEF n, type
  <2>3. 16 * type = 48
    BY <2>1
  <2> QED BY <2>2, <2>3
<1>5. /\ n \in Octet /\ n \div 16 = 3 /\ QoS((n \div 2) % 4) = p.qos
      /\ HasBit(n, 8) = p.dup /\ HasBit(n, 1) = p.retain
  BY <1>1, <1>4, PublishFlags
<1>6. KindsOf(p, v, kinds)
  BY <1>1, <1>5 DEF KindsOf, Kinds
<1> HIDE DEF n
<1>7. p.qos # 0 => p.packet_id = <<p.packet_id[1]>>
  <2> SUFFICES ASSUME p.qos # 0 PROVE p.packet_id = <<p.packet_id[1]>>
    OBVIOUS
  <2>1. p.packet_id \in Seq(Word) /\ Len(p.packet_id) <= 1 /\ p.packet_id # <<>>
    BY <1>1 DEF AtMostOne
  <2>2. ASSUME NEW s \in Seq(Word), Len(s) <= 1, s # <<>> PROVE s = <<s[1]>>
    BY <2>2
  <2> QED BY <2>1, <2>2
<1>8. PacketOf("Publish", n, vals) = PublishOf(vals, n, p.qos)
  BY <1>5 DEF PacketOf
<1>9. /\ vals[1] = p.topic /\ vals[2] = (IF p.qos = 0 THEN <<>> ELSE p.packet_id[1])
      /\ vals[3] = p.properties /\ vals[4] = p.payload
  OBVIOUS
<1> HIDE DEF vals, kinds
<1>10. (IF p.qos = 0 THEN <<>> ELSE <<vals[2]>>) = p.packet_id
  BY <1>1, <1>7, <1>9
<1>11. PublishOf(vals, n, p.qos) = p
  BY <1>1, <1>5, <1>9, <1>10 DEF PublishOf
<1>12. ~TooMany(kinds, vals)
  <2>1. /\ DOMAIN kinds = 1..4 /\ kinds[1] = "str" /\ kinds[2] \in {"u16", "absent"}
        /\ kinds[3] = OnlyV5(v, "props") /\ kinds[4] = "rest"
    BY DEF kinds, PublishKinds
  <2>2. Fits(kinds[3], vals[3])
    BY <1>1, <1>9, <2>1, PropsFit
  <2>3. Fits(kinds[1], vals[1]) /\ Fits(kinds[2], vals[2]) /\ Fits(kinds[4], vals[4])
    BY <2>1, OthersFit
  <2>4. ASSUME NEW i \in 1..4 PROVE Fits(kinds[i], vals[i])
    <3>1. i = 1 \/ i = 2 \/ i = 3 \/ i = 4
      OBVIOUS
    <3> QED BY <2>2, <2>3, <3>1
  <2> QED BY <2>1, <2>4, AllFit
<1>13. IsRead(p, v, 3, kinds, vals)
  BY <1>1, <1>2, <1>3, <1>5, <1>6, <1>8, <1>11, <1>12 DEF IsRead, n
<1> QED BY <1>13

\* So are acknowledgements.
LEMMA AckIsRead ==
  ASSUME NEW v, NEW p \in AckPackets(v)
  PROVE  \E i, kinds, vals : IsRead(p, v, i, kinds, vals)
<1> DEFINE kinds == AckKinds(v)
           vals == <<p.packet_id, p.reason_code, p.properties>>
<1>1. /\ p = [type |-> p.type, packet_id |-> p.packet_id, reason_code |-> p.reason_code,
              properties |-> p.properties]
      /\ p.type \in {"PubAck", "PubRec", "PubRel", "PubComp"}
      /\ p.properties \in PropertyLists(v)
  BY DEF AckPackets
<1>2. BodyIs(kinds, Body(p, v), vals) /\ Len(Body(p, v)) >= 2
  BY <1>1, AckRead DEF Body
<1>3. KindsOf(p, v, kinds)
  BY <1>1 DEF KindsOf, Kinds
<1>4. PacketOf(p.type, FirstOctet(p), vals) = AckOf(vals, p.type)
  BY <1>1 DEF PacketOf
<1>5. AckOf(vals, p.type) = p
  BY <1>1 DEF AckOf
<1>6. PICK i \in 1..14 : p.type = Types[i]
  <2>1. 4 \in 1..14 /\ 5 \in 1..14 /\ 6 \in 1..14 /\ 7 \in 1..14
    OBVIOUS
  <2>2. Types[4] = "PubAck" /\ Types[5] = "PubRec" /\ Types[6] = "PubRel" /\ Types[7] = "PubComp"
    BY DEF Types
  <2> QED BY <1>1, <2>1, <2>2
<1>7. FirstOctet(p) \in Octet /\ FirstOctet(p) \div 16 = i
  BY <1>1, <1>6, FirstIs
<1> HIDE DEF kinds, vals
<1>8. ~TooMany(kinds, vals)
  <2>1. kinds = <<"u16", ReasonKinds(v)[1], ReasonKinds(v)[2]>>
    <3>1. ReasonKinds(v) = <<ReasonKinds(v)[1], ReasonKinds(v)[2]>>
      BY DEF ReasonKinds
    <3>2. <<"u16">> \o <<ReasonKinds(v)[1], ReasonKinds(v)[2]>>
            = <<"u16", ReasonKinds(v)[1], ReasonKinds(v)[2]>>
      BY Tuples
    <3> QED BY <3>1, <3>2 DEF AckKinds, kinds
  <2>2. ReasonKinds(v)[1] \in {"reason", "zero"} /\ ReasonKinds(v)[2] = OnlyV5(v, "props")
    BY DEF ReasonKinds
  <2>3. Fits(ReasonKinds(v)[2], p.properties)
    BY <1>1, <2>2, PropsFit
  <2>4. Fits("u16", p.packet_id) /\ Fits(ReasonKinds(v)[1], p.reason_code)
    BY <2>2, OthersFit
  <2> QED BY <2>1, <2>3, <2>4, ThreeFit DEF vals
<1>9. IsRead(p, v, i, kinds, vals)
  BY <1>2, <1>3, <1>4, <1>5, <1>6, <1>7, <1>8 DEF IsRead
<1> QED BY <1>9

\* And so are the others, the pings apart.
ConnAckPackets(v) ==
  [type : {"ConnAck"}, session_present : BOOLEAN, reason_code : Octet, properties : PropertyLists(v)]
SubscribePackets(v) ==
  [type : {"Subscribe"}, packet_id : Word, properties : PropertyLists(v), topics : Vec(Filter)]
UnsubscribePackets(v) ==
  [type : {"Unsubscribe"}, packet_id : Word, properties : PropertyLists(v), topics : Vec(Text)]
CodesPackets(v) ==
  [type : {"SubAck", "UnsubAck"}, packet_id : Word, properties : PropertyLists(v),
   reason_codes : Vec(Octet)]
DisconnectPackets(v) ==
  [type : {"Disconnect"}, reason_code : Reasons(v), properties : PropertyLists(v)]

\* CONNACK is read back.
LEMMA ConnAckIsRead ==
  ASSUME NEW v, NEW p \in ConnAckPackets(v)
  PROVE  \E i, kinds, vals : IsRead(p, v, i, kinds, vals)
<1> DEFINE kinds == ConnAckKinds(v)
           vals == <<Bit(p.session_present), p.reason_code, p.properties>>
<1>1. /\ p = [type |-> "ConnAck", session_present |-> p.session_present,
              reason_code |-> p.reason_code, properties |-> p.properties]
      /\ p.type = "ConnAck" /\ p.session_present \in BOOLEAN /\ p.reason_code \in Octet
      /\ p.properties \in PropertyLists(v)
  BY DEF ConnAckPackets
<1>2. BodyIs(kinds, Body(p, v), vals) /\ Len(Body(p, v)) >= 2
  BY <1>1, ConnAckRead DEF Body
<1>3. KindsOf(p, v, kinds)
  BY <1>1 DEF KindsOf, Kinds
<1>4. PacketOf(p.type, FirstOctet(p), vals) = ConnAckOf(vals)
  BY <1>1 DEF PacketOf
<1>5. HasBit(Bit(p.session_present), 1) = p.session_present
  <2>1. (1 \div 1) % 2 = 1 /\ (0 \div 1) % 2 # 1
    OBVIOUS
  <2> QED BY <1>1, <2>1 DEF HasBit, Bit
<1>6. vals[1] = Bit(p.session_present) /\ vals[2] = p.reason_code /\ vals[3] = p.properties
  OBVIOUS
<1> HIDE DEF kinds, vals
<1>7. ConnAckOf(vals) = p
  BY <1>1, <1>5, <1>6 DEF ConnAckOf
<1>8. p.type = Types[2] /\ 2 \in 1..14
  BY <1>1 DEF Types
<1>9. FirstOctet(p) \in Octet /\ FirstOctet(p) \div 16 = 2
  BY <1>1, <1>8, FirstIs
<1>10. ~TooMany(kinds, vals)
  BY <1>1, PropsFit, OthersFit, ThreeFit DEF kinds, vals, ConnAckKinds
<1>11. IsRead(p, v, 2, kinds, vals)
  BY <1>2, <1>3, <1>4, <1>7, <1>8, <1>9, <1>10 DEF IsRead
<1> QED BY <1>11

\* SUBSCRIBE is read back.
LEMMA SubscribeIsRead ==
  ASSUME NEW v, NEW p \in SubscribePackets(v)
  PROVE  \E i, kinds, vals : IsRead(p, v, i, kinds, vals)
<1> DEFINE kinds == SubscribeKinds(v)
           vals == <<p.packet_id, p.properties, p.topics>>
           s == FlattenSeq([i \in DOMAIN p.topics |-> Str(p.topics[i].topic) \o <<p.topics[i].qos>>])
<1>1. /\ p = [type |-> "Subscribe", packet_id |-> p.packet_id, properties |-> p.properties,
              topics |-> p.topics]
      /\ p.type = "Subscribe" /\ p.packet_id \in Word /\ p.topics \in Seq(Filter)
      /\ p.properties \in PropertyLists(v) /\ p.topics \in Vec(Filter)
  BY DEF SubscribePackets, Vec
<1>2. Body(p, v) = U16(p.packet_id) \o Props(v, p.properties) \o s
  BY <1>1 DEF Body, SubscribeBody
<1>3. kinds = <<"u16", OnlyV5(v, "props"), "filters">>
  BY DEF SubscribeKinds
<1>4. s \in Seq(Octet) /\ ReadsAs("filters", s, <<>>, p.topics)
  BY <1>1, FiltersField
<1> HIDE DEF s, kinds
<1>5. BodyIs(kinds, Body(p, v), vals) /\ Len(Body(p, v)) >= 2
  BY <1>1, <1>2, <1>3, <1>4, ListedRead
<1>6. KindsOf(p, v, kinds)
  BY <1>1 DEF KindsOf, Kinds, kinds
<1>7. PacketOf(p.type, FirstOctet(p), vals) = TopicsOf(vals, p.type)
  BY <1>1 DEF PacketOf
<1>8. TopicsOf(vals, p.type) = p
  BY <1>1 DEF TopicsOf
<1>9. p.type = Types[8] /\ 8 \in 1..14
  BY <1>1 DEF Types
<1> HIDE DEF vals
<1>10. FirstOctet(p) \in Octet /\ FirstOctet(p) \div 16 = 8
  BY <1>1, <1>9, FirstIs
<1>12. ~TooMany(kinds, vals)
  BY <1>1, <1>3, PropsFit, OthersFit, ListFits, ThreeFit DEF vals
<1>11. IsRead(p, v, 8, kinds, vals)
  BY <1>5, <1>6, <1>7, <1>8, <1>9, <1>10, <1>12 DEF IsRead
<1> QED BY <1>11

\* UNSUBSCRIBE is read back.
LEMMA UnsubscribeIsRead ==
  ASSUME NEW v, NEW p \in UnsubscribePackets(v)
  PROVE  \E i, kinds, vals : IsRead(p, v, i, kinds, vals)
<1> DEFINE kinds == UnsubscribeKinds(v)
           vals == <<p.packet_id, p.properties, p.topics>>
           s == FlattenSeq([i \in DOMAIN p.topics |-> Str(p.topics[i])])
<1>1. /\ p = [type |-> "Unsubscribe", packet_id |-> p.packet_id, properties |-> p.properties,
              topics |-> p.topics]
      /\ p.type = "Unsubscribe" /\ p.packet_id \in Word /\ p.topics \in Seq(Text)
      /\ p.properties \in PropertyLists(v) /\ p.topics \in Vec(Text)
  BY DEF UnsubscribePackets, Vec
<1>2. Body(p, v) = U16(p.packet_id) \o Props(v, p.properties) \o s
  BY <1>1 DEF Body, UnsubscribeBody
<1>3. kinds = <<"u16", OnlyV5(v, "props"), "topics">>
  BY DEF UnsubscribeKinds
<1>4. s \in Seq(Octet) /\ ReadsAs("topics", s, <<>>, p.topics)
  BY <1>1, TopicsField
<1> HIDE DEF s, kinds
<1>5. BodyIs(kinds, Body(p, v), vals) /\ Len(Body(p, v)) >= 2
  BY <1>1, <1>2, <1>3, <1>4, ListedRead
<1>6. KindsOf(p, v, kinds)
  BY <1>1 DEF KindsOf, Kinds, kinds
<1>7. PacketOf(p.type, FirstOctet(p), vals) = TopicsOf(vals, p.type)
  BY <1>1 DEF PacketOf
<1>8. TopicsOf(vals, p.type) = p
  BY <1>1 DEF TopicsOf
<1>9. p.type = Types[10] /\ 10 \in 1..14
  BY <1>1 DEF Types
<1> HIDE DEF vals
<1>10. FirstOctet(p) \in Octet /\ FirstOctet(p) \div 16 = 10
  BY <1>1, <1>9, FirstIs
<1>12. ~TooMany(kinds, vals)
  BY <1>1, <1>3, PropsFit, OthersFit, ListFits, ThreeFit DEF vals
<1>11. IsRead(p, v, 10, kinds, vals)
  BY <1>5, <1>6, <1>7, <1>8, <1>9, <1>10, <1>12 DEF IsRead
<1> QED BY <1>11

\* SUBACK and UNSUBACK are read back.
LEMMA CodesIsRead ==
  ASSUME NEW v, NEW p \in CodesPackets(v)
  PROVE  \E i, kinds, vals : IsRead(p, v, i, kinds, vals)
<1> DEFINE kinds == CodesKinds(v)
           vals == <<p.packet_id, p.properties, p.reason_codes>>
           s == p.reason_codes
<1>1. /\ p = [type |-> p.type, packet_id |-> p.packet_id, properties |-> p.properties,
              reason_codes |-> p.reason_codes]
      /\ p.type \in {"SubAck", "UnsubAck"} /\ p.packet_id \in Word /\ s \in Seq(Octet)
      /\ p.properties \in PropertyLists(v) /\ s \in Vec(Octet)
  BY DEF CodesPackets, Vec
<1>2. Body(p, v) = U16(p.packet_id) \o Props(v, p.properties) \o s
  BY <1>1 DEF Body, CodesBody
<1>3. kinds = <<"u16", OnlyV5(v, "props"), "codes">>
  BY DEF CodesKinds
<1>4. ReadsAs("codes", s, <<>>, s)
  BY <1>1, RestField
<1> HIDE DEF kinds
<1>5. BodyIs(kinds, Body(p, v), vals) /\ Len(Body(p, v)) >= 2
  BY <1>1, <1>2, <1>3, <1>4, ListedRead
<1>6. KindsOf(p, v, kinds)
  BY <1>1 DEF KindsOf, Kinds, kinds
<1>7. PacketOf(p.type, FirstOctet(p), vals) = CodesOf(vals, p.type)
  BY <1>1 DEF PacketOf
<1>8. CodesOf(vals, p.type) = p
  BY <1>1 DEF CodesOf
<1>9. PICK i \in 1..14 : p.type = Types[i]
  <2>1. 9 \in 1..14 /\ 11 \in 1..14 /\ Types[9] = "SubAck" /\ Types[11] = "UnsubAck"
    BY DEF Types
  <2> QED BY <1>1, <2>1
<1> HIDE DEF vals
<1>10. FirstOctet(p) \in Octet /\ FirstOctet(p) \div 16 = i
  BY <1>1, <1>9, FirstIs
<1>12. ~TooMany(kinds, vals)
  BY <1>1, <1>3, PropsFit, OthersFit, ListFits, ThreeFit DEF vals
<1>11. IsRead(p, v, i, kinds, vals)
  BY <1>5, <1>6, <1>7, <1>8, <1>9, <1>10, <1>12 DEF IsRead
<1> QED BY <1>11

\* DISCONNECT is read back.
LEMMA DisconnectIsRead ==
  ASSUME NEW v, NEW p \in DisconnectPackets(v)
  PROVE  \E i, kinds, vals : IsRead(p, v, i, kinds, vals)
<1> DEFINE kinds == ReasonKinds(v)
           vals == <<p.reason_code, p.properties>>
<1>1. /\ p = [type |-> "Disconnect", reason_code |-> p.reason_code, properties |-> p.properties]
      /\ p.type = "Disconnect" /\ p.reason_code \in Reasons(v) /\ p.properties \in PropertyLists(v)
  BY DEF DisconnectPackets
<1>2. BodyIs(kinds, Body(p, v), vals)
  BY <1>1, DisconnectRead DEF Body
<1>3. KindsOf(p, v, kinds)
  BY <1>1 DEF KindsOf, Kinds
<1>4. PacketOf(p.type, FirstOctet(p), vals) = DisconnectOf(vals)
  BY <1>1 DEF PacketOf
<1>5. DisconnectOf(vals) = p
  BY <1>1 DEF DisconnectOf
<1> HIDE DEF kinds, vals
<1>6. p.type = Types[14] /\ 14 \in 1..14
  BY <1>1 DEF Types
<1>7. FirstOctet(p) \in Octet /\ FirstOctet(p) \div 16 = 14
  BY <1>1, <1>6, FirstIs
<1>8. ~TooMany(kinds, vals)
  <2>1. Fits(OnlyV5(v, "props"), p.properties)
    BY <1>1, PropsFit
  <2>2. /\ DOMAIN kinds = 1..2 /\ kinds[1] \in {"reason", "zero"} /\ kinds[2] = OnlyV5(v, "props")
        /\ vals[2] = p.properties
    BY DEF kinds, ReasonKinds, vals
  <2>3. ASSUME NEW i \in 1..2 PROVE Fits(kinds[i], vals[i])
    <3>1. i = 1 \/ i = 2
      OBVIOUS
    <3> QED BY <2>1, <2>2, <3>1, OthersFit
  <2> QED BY <2>2, <2>3, AllFit
<1>9. IsRead(p, v, 14, kinds, vals)
  BY <1>1, <1>2, <1>3, <1>4, <1>5, <1>6, <1>7, <1>8 DEF IsRead
<1> QED BY <1>9

-------------------------------------------------------------------------------
(* CONNECT. *)

\* The flags of a CONNECT without a will, and with one, are read as they were
\* written.
LEMMA FlagsOctet ==
  ASSUME NEW x \in 0..1, NEW w \in 0..1, NEW q \in 0..2, NEW r \in 0..1, NEW y \in 0..1, NEW z \in 0..1,
         w = 0 => q = 0 /\ r = 0, NEW n, n = 2 * x + (4 * w + 8 * q + 32 * r) + 64 * y + 128 * z
  PROVE  /\ n \in 0..255 /\ (n \div 2) % 2 = x /\ (n \div 4) % 2 = w /\ (n \div 8) % 4 = q
         /\ (n \div 32) % 2 = r /\ (n \div 64) % 2 = y /\ (n \div 128) % 2 = z
<1>1. n \in 0..255
  OBVIOUS
<1>2. (n \div 2) % 2 = x
  OBVIOUS
<1>3. (n \div 4) % 2 = w
  OBVIOUS
<1>4. (n \div 8) % 4 = q
  OBVIOUS
<1>5. (n \div 32) % 2 = r
  OBVIOUS
<1>6. (n \div 64) % 2 = y
  OBVIOUS
<1>7. (n \div 128) % 2 = z
  OBVIOUS
<1> QED BY <1>1, <1>2, <1>3, <1>4, <1>5, <1>6, <1>7

\* The flags of a packet, by its parts.
LEMMA ConnectFlagsRead ==
  ASSUME NEW v, NEW p \in ConnectPackets(v)
  PROVE  LET n == ConnectFlags(p)
         IN /\ n \in Octet /\ HasBit(n, 2) = p.clean_session
            /\ HasBit(n, 4) = (p.will # <<>>)
            /\ p.will # <<>> => /\ QoS((n \div 8) % 4) = p.will[1].qos
                                /\ HasBit(n, 32) = p.will[1].retain
            /\ HasBit(n, 64) = (p.password # <<>>) /\ HasBit(n, 128) = (p.username # <<>>)
<1> DEFINE n == ConnectFlags(p)
           x == Bit(p.clean_session)
           w == Bit(p.will # <<>>)
           q == IF p.will = <<>> THEN 0 ELSE p.will[1].qos
           r == IF p.will = <<>> THEN 0 ELSE Bit(p.will[1].retain)
           y == Bit(p.password # <<>>)
           z == Bit(p.username # <<>>)
<1>1. p.clean_session \in BOOLEAN /\ p.will \in AtMostOne(Wills(v))
  BY DEF ConnectPackets
<1>2. p.will # <<>> => p.will[1].qos \in 0..2 /\ p.will[1].retain \in BOOLEAN
  <2> SUFFICES ASSUME p.will # <<>> PROVE p.will[1].qos \in 0..2 /\ p.will[1].retain \in BOOLEAN
    OBVIOUS
  <2>1. p.will[1] \in Wills(v)
    BY <1>1 DEF AtMostOne
  <2> QED BY <2>1 DEF Wills
<1>3. /\ x \in 0..1 /\ w \in 0..1 /\ q \in 0..2 /\ r \in 0..1 /\ y \in 0..1 /\ z \in 0..1
      /\ (w = 0 => q = 0 /\ r = 0)
  BY <1>2 DEF Bit
<1>4. n = 2 * x + (4 * w + 8 * q + 32 * r) + 64 * y + 128 * z
  <2>1. n = 2 * x + (IF p.will = <<>> THEN 0 ELSE 4 + 8 * q + 32 * r) + 64 * y + 128 * z
    BY DEF ConnectFlags
  <2>2. (IF p.will = <<>> THEN 0 ELSE 4 + 8 * q + 32 * r) = 4 * w + 8 * q + 32 * r
    <3>1. CASE p.will = <<>>
      <4>1. w = 0 /\ q = 0 /\ r = 0
        BY <3>1 DEF Bit
      <4> HIDE DEF w, q, r
      <4> QED BY <3>1, <4>1
    <3>2. CASE p.will # <<>>
      <4>1. w = 1
        BY <3>2 DEF Bit
      <4> HIDE DEF w, q, r
      <4> QED BY <1>3, <3>2, <4>1
    <3> QED BY <3>1, <3>2
  <2> QED BY <2>1, <2>2
<1>5. (x = 1) = p.clean_session /\ (w = 1) = (p.will # <<>>) /\ (y = 1) = (p.password # <<>>)
      /\ (z = 1) = (p.username # <<>>)
  BY <1>1 DEF Bit
<1>6. p.will # <<>> => q = p.will[1].qos /\ (r = 1) = p.will[1].retain /\ QoS(q) = q
  BY <1>2 DEF Bit, QoS
<1> HIDE DEF n, x, w, q, r, y, z
<1>7. /\ n \in 0..255 /\ (n \div 2) % 2 = x /\ (n \div 4) % 2 = w /\ (n \div 8) % 4 = q
      /\ (n \div 32) % 2 = r /\ (n \div 64) % 2 = y /\ (n \div 128) % 2 = z
  BY <1>3, <1>4, FlagsOctet
<1>8. n \in Octet /\ HasBit(n, 2) = (x = 1) /\ HasBit(n, 4) = (w = 1) /\ HasBit(n, 32) = (r = 1)
      /\ HasBit(n, 64) = (y = 1) /\ HasBit(n, 128) = (z = 1)
  BY <1>7 DEF HasBit, Octet
<1> HIDE DEF HasBit, QoS
<1>9. /\ n \in Octet /\ HasBit(n, 2) = p.clean_session
      /\ HasBit(n, 4) = (p.will # <<>>)
      /\ HasBit(n, 64) = (p.password # <<>>) /\ HasBit(n, 128) = (p.username # <<>>)
  BY <1>5, <1>8
<1>10. p.will # <<>> => /\ QoS((n \div 8) % 4) = p.will[1].qos
                        /\ HasBit(n, 32) = p.will[1].retain
  BY <1>6, <1>7, <1>8
<1> QED BY <1>9, <1>10 DEF n

\* A list of at most one is empty or holds its first.
LEMMA OneIs ==
  ASSUME NEW S, NEW s \in AtMostOne(S), s # <<>>
  PROVE  s[1] \in S /\ s = <<s[1]>>
<1>1. s \in Seq(S) /\ Len(s) <= 1
  BY DEF AtMostOne
<1>2. Len(s) \in Nat /\ (Len(s) = 0 => s = <<>>)
  BY <1>1
<1>3. Len(s) = 1
  <2> DEFINE n == Len(s)
  <2>1. n \in Nat /\ n <= 1 /\ n # 0
    BY <1>1, <1>2
  <2> HIDE DEF n
  <2>2. n = 1
    BY <2>1
  <2> QED BY <2>2 DEF n
<1>4. s[1] \in S
  BY <1>1, <1>3
<1>5. ASSUME NEW x \in S, s[1] = x PROVE s = <<x>>
  BY <1>1, <1>3, <1>5
<1> QED BY <1>4, <1>5

\* Flattening at most one sequence.
LEMMA FlattenOne ==
  ASSUME NEW S, NEW a \in Seq(S)
  PROVE  FlattenSeq(<<a>>) = a /\ FlattenSeq(<<>>) = <<>>
<1> DEFINE one == <<a>>
           none == <<>>
<1>1. one \in Seq(Seq(S)) /\ Len(one) = 1 /\ one[1] = a /\ none \in Seq(Seq(S)) /\ Len(none) = 0
  OBVIOUS
<1>2. <<>> \o a = a
  OBVIOUS
<1> HIDE DEF one, none
<1>3. PICK f \in [0..1 -> Seq(S)] : f[0] = <<>> /\ f[1] = FlattenSeq(one) /\ f[1] = f[0] \o one[1]
  <2>0. one \in Seq(Seq(S))
    BY <1>1
  <2>1. PICK f \in [0..Len(one) -> Seq(S)] :
          /\ f[0] = <<>> /\ f[Len(one)] = FlattenSeq(one)
          /\ \A i \in 1..Len(one) : f[i] = f[i - 1] \o one[i]
    BY <2>0, FlattenTo
  <2>2. f[1] = f[1 - 1] \o one[1]
    BY <1>1, <2>1
  <2> QED BY <1>1, <2>1, <2>2
<1>4. FlattenSeq(none) = <<>>
  <2>1. PICK g \in [0..Len(none) -> Seq(S)] : g[0] = <<>> /\ g[Len(none)] = FlattenSeq(none)
    BY <1>1, FlattenTo
  <2> QED BY <1>1, <2>1
<1> QED BY <1>1, <1>2, <1>3, <1>4 DEF one, none

\* An optional string.
IfThere(opt, kind) == IF opt # <<>> THEN kind ELSE "absent"
Value(opt) == IF opt # <<>> THEN opt[1] ELSE <<>>

\* A username or a password, if there is one.
LEMMA OptionField ==
  ASSUME NEW opt \in AtMostOne(Text), NEW t \in Seq(Octet),
         NEW s, s = FlattenSeq([i \in DOMAIN opt |-> Str(opt[i])])
  PROVE  s \in Seq(Octet) /\ ReadsAs(IfThere(opt, "str"), s, t, Value(opt))
<1> DEFINE octs == [i \in DOMAIN opt |-> Str(opt[i])]
<1>1. CASE opt = <<>>
  <2>1. octs = <<>>
    BY <1>1
  <2>2. s = <<>>
    <3>1. <<>> \in Seq(Octet)
      OBVIOUS
    <3> QED BY <2>1, <3>1, FlattenOne
  <2>3. <<>> \in Seq(Octet)
    OBVIOUS
  <2>4. ReadsAs("absent", <<>>, t, <<>>)
    BY NoField
  <2> QED BY <1>1, <2>2, <2>3, <2>4 DEF IfThere, Value
<1>2. CASE opt # <<>>
  <2> DEFINE x == opt[1]
  <2>1. x \in Text /\ opt = <<x>>
    BY <1>2, OneIs
  <2>2. octs = <<Str(x)>>
    BY <2>1
  <2> HIDE DEF x
  <2>3. Str(x) \in Seq(Octet) /\ ReadsAs("str", Str(x), t, x)
    BY <2>1, StrField
  <2>4. s = Str(x)
    BY <2>2, <2>3, FlattenOne
  <2> QED BY <1>2, <2>3, <2>4 DEF IfThere, Value, x
<1> QED BY <1>1, <1>2

\* The three fields of a will, or none.
WillIs(p, v, a, b, c) ==
  /\ a \in Seq(Octet) /\ b \in Seq(Octet) /\ c \in Seq(Octet)
  /\ LET Will(w) == Props(v, w.properties) \o Str(w.topic) \o Str(w.payload)
     IN FlattenSeq([i \in DOMAIN p.will |-> Will(p.will[i])]) = (a \o b) \o c

WillValue(p, field(_)) == IF p.will # <<>> THEN field(p.will[1]) ELSE <<>>

WillFields(p, v, a, b, c, t) ==
  LET Properties(w) == w.properties
      Topic(w) == w.topic
      Payload(w) == w.payload
  IN /\ ReadsAs(IfThere(p.will, OnlyV5(v, "props")), a, b \o (c \o t), WillValue(p, Properties))
     /\ ReadsAs(IfThere(p.will, "str"), b, c \o t, WillValue(p, Topic))
     /\ ReadsAs(IfThere(p.will, "str"), c, t, WillValue(p, Payload))

\* The will, if there is one.
LEMMA WillRead ==
  ASSUME NEW v, NEW p, p.will \in AtMostOne(Wills(v)), NEW t \in Seq(Octet)
  PROVE  \E a, b, c : WillIs(p, v, a, b, c) /\ WillFields(p, v, a, b, c, t)
<1> DEFINE none == <<>>
<1>1. CASE p.will = <<>>
  <2>1. none \in Seq(Octet) /\ none \o none = none /\ none \o t = t
    OBVIOUS
  <2>2. FlattenSeq(none) = none
    BY <2>1, FlattenOne
  <2>3. WillIs(p, v, none, none, none)
    BY <1>1, <2>1, <2>2 DEF WillIs
  <2>4. ReadsAs("absent", none, t, none)
    BY NoField
  <2> HIDE DEF none
  <2>5. WillFields(p, v, none, none, none, t)
    BY <1>1, <2>1, <2>4 DEF WillFields, WillValue, IfThere, none
  <2> QED BY <2>3, <2>5
<1>2. CASE p.will # <<>>
  <2> DEFINE w == p.will[1]
             a == Props(v, w.properties)
             b == Str(w.topic)
             c == Str(w.payload)
  <2>1. w \in Wills(v) /\ p.will = <<w>>
    BY <1>2, OneIs
  <2>2. w.topic \in Text /\ w.payload \in Text /\ w.properties \in PropertyLists(v)
    BY <2>1 DEF Wills
  <2>3. c \in Seq(Octet) /\ ReadsAs("str", c, t, w.payload)
    BY <2>2, StrField
  <2>4. b \in Seq(Octet) /\ ReadsAs("str", b, c \o t, w.topic)
    <3>1. c \o t \in Seq(Octet)
      <4> HIDE DEF c
      <4> QED BY <2>3
    <3> HIDE DEF c
    <3> QED BY <2>2, <3>1, StrField
  <2>5. a \in Seq(Octet) /\ ReadsAs(OnlyV5(v, "props"), a, b \o (c \o t), w.properties)
    <3>1. b \o (c \o t) \in Seq(Octet)
      <4> HIDE DEF b, c
      <4>1. c \o t \in Seq(Octet)
        BY <2>3
      <4> QED BY <2>4, <4>1
    <3> HIDE DEF b, c
    <3> QED BY <2>2, <3>1, PropsField
  <2>6. (a \o b) \o c \in Seq(Octet)
    <3> HIDE DEF a, b, c
    <3>1. a \o b \in Seq(Octet)
      BY <2>4, <2>5
    <3> QED BY <2>3, <3>1
  <2>7. WillIs(p, v, a, b, c)
    <3> DEFINE octs == [i \in DOMAIN p.will |->
                          Props(v, p.will[i].properties) \o Str(p.will[i].topic) \o Str(p.will[i].payload)]
    <3>1. octs = <<(a \o b) \o c>>
      BY <2>1
    <3>2. FlattenSeq(octs) = (a \o b) \o c
      <4> HIDE DEF octs, a, b, c
      <4> QED BY <2>6, <3>1, FlattenOne
    <3>3. a \in Seq(Octet) /\ b \in Seq(Octet) /\ c \in Seq(Octet)
      BY <2>3, <2>4, <2>5
    <3> QED BY <3>2, <3>3 DEF WillIs
  <2>8. WillFields(p, v, a, b, c, t)
    <3> HIDE DEF a, b, c
    <3> QED BY <1>2, <2>3, <2>4, <2>5 DEF WillFields, WillValue, IfThere
  <2> HIDE DEF a, b, c
  <2> QED BY <2>7, <2>8
<1> QED BY <1>1, <1>2

\* Octets r are field i, read as x from s, and then t.
Part(kinds, i, r, s, t, x) ==
  /\ i \in 1..Len(kinds) /\ s \in Seq(Octet) /\ t \in Seq(Octet) /\ r = s \o t
  /\ ReadsAs(kinds[i], s, t, x)

\* A field of CONNECT that is read leaves the ones after it.
LEMMA PartRead ==
  ASSUME NEW f, NEW kinds, NEW buf \in Seq(Octet), NEW c, NEW end, Fields(f, kinds, buf, c, end),
         NEW i, NEW j, j = i - 1, NEW r, NEW s, NEW t, NEW x, Part(kinds, i, r, s, t, x),
         Remains(f, j, buf, end, r)
  PROVE  f[i].val = x /\ Remains(f, i, buf, end, t)
<1>1. Field(kinds, i, j, kinds[i])
  BY DEF Part, Field
<1>2. s \in Seq(Octet) /\ t \in Seq(Octet) /\ r = s \o t /\ ReadsAs(kinds[i], s, t, x)
  BY DEF Part
<1> QED BY <1>1, <1>2, FieldStep

\* A body of eleven fields.
LEMMA ElevenFields ==
  ASSUME NEW S, NEW kinds \in Seq(S), Len(kinds) = 11,
         NEW r0, NEW r1, NEW r2, NEW r3, NEW r4, NEW r5, NEW r6, NEW r7, NEW r8, NEW r9, NEW r10,
         NEW r11, NEW s1, NEW s2, NEW s3, NEW s4, NEW s5, NEW s6, NEW s7, NEW s8, NEW s9, NEW s10,
         NEW s11, NEW x1, NEW x2, NEW x3, NEW x4, NEW x5, NEW x6, NEW x7, NEW x8, NEW x9, NEW x10,
         NEW x11, Part(kinds, 1, r0, s1, r1, x1), Part(kinds, 2, r1, s2, r2, x2),
         Part(kinds, 3, r2, s3, r3, x3), Part(kinds, 4, r3, s4, r4, x4),
         Part(kinds, 5, r4, s5, r5, x5), Part(kinds, 6, r5, s6, r6, x6),
         Part(kinds, 7, r6, s7, r7, x7), Part(kinds, 8, r7, s8, r8, x8),
         Part(kinds, 9, r8, s9, r9, x9), Part(kinds, 10, r9, s10, r10, x10),
         Part(kinds, 11, r10, s11, r11, x11)
  PROVE  BodyIs(kinds, r0, <<x1, x2, x3, x4, x5, x6, x7, x8, x9, x10, x11>>)
<1>1. r0 \in Seq(Octet)
  <2>1. s1 \in Seq(Octet) /\ r1 \in Seq(Octet) /\ r0 = s1 \o r1
    BY DEF Part
  <2> QED BY <2>1
<1>2. ASSUME NEW buf \in Seq(Octet), NEW c \in Nat, Holds(buf, c, r0)
      PROVE  FieldsAt(kinds, buf, c, c + Len(r0)) = <<x1, x2, x3, x4, x5, x6, x7, x8, x9, x10, x11>>
  <2> DEFINE end == c + Len(r0)
  <2>0. PICK f : /\ Fields(f, kinds, buf, c, end)
                 /\ FieldsAt(kinds, buf, c, end) = Values(f, Len(kinds))
                 /\ Remains(f, 0, buf, end, r0)
    BY <1>1, <1>2, FieldsStart
  <2> HIDE DEF end
  <2>1. f[1].val = x1 /\ Remains(f, 1, buf, end, r1)
    BY <2>0, PartRead
  <2>2. f[2].val = x2 /\ Remains(f, 2, buf, end, r2)
    BY <2>0, <2>1, PartRead
  <2>3. f[3].val = x3 /\ Remains(f, 3, buf, end, r3)
    BY <2>0, <2>2, PartRead
  <2>4. f[4].val = x4 /\ Remains(f, 4, buf, end, r4)
    BY <2>0, <2>3, PartRead
  <2>5. f[5].val = x5 /\ Remains(f, 5, buf, end, r5)
    BY <2>0, <2>4, PartRead
  <2>6. f[6].val = x6 /\ Remains(f, 6, buf, end, r6)
    BY <2>0, <2>5, PartRead
  <2>7. f[7].val = x7 /\ Remains(f, 7, buf, end, r7)
    BY <2>0, <2>6, PartRead
  <2>8. f[8].val = x8 /\ Remains(f, 8, buf, end, r8)
    BY <2>0, <2>7, PartRead
  <2>9. f[9].val = x9 /\ Remains(f, 9, buf, end, r9)
    BY <2>0, <2>8, PartRead
  <2>10. f[10].val = x10 /\ Remains(f, 10, buf, end, r10)
    BY <2>0, <2>9, PartRead
  <2>11. f[11].val = x11
    BY <2>0, <2>10, PartRead
  <2>12. Values(f, 11) = <<x1, x2, x3, x4, x5, x6, x7, x8, x9, x10, x11>>
    BY <2>1, <2>2, <2>3, <2>4, <2>5, <2>6, <2>7, <2>8, <2>9, <2>10, <2>11 DEF Values
  <2> QED BY <2>0, <2>12 DEF end
<1> QED BY <1>1, <1>2 DEF BodyIs

\* The kinds of field in a CONNECT, and their values.
Level(v) == IF v = "V5" THEN 5 ELSE 4

KindsIn(p, v) ==
  <<"str", "u8", "u8", "u16", OnlyV5(v, "props"), "str", IfThere(p.will, OnlyV5(v, "props")),
    IfThere(p.will, "str"), IfThere(p.will, "str"), IfThere(p.username, "str"),
    IfThere(p.password, "str")>>

ValuesIn(p, v) ==
  LET Properties(w) == w.properties
      Topic(w) == w.topic
      Payload(w) == w.payload
  IN <<MQTT, Level(v), ConnectFlags(p), p.keep_alive, p.properties, p.client_id,
       WillValue(p, Properties), WillValue(p, Topic), WillValue(p, Payload),
       Value(p.username), Value(p.password)>>

\* The level and the flags are where they are looked for.
HasLevel(p, v) ==
  \A buf \in Seq(Octet), c \in Nat : Holds(buf, c, ConnectBody(p, v)) =>
    U16At(buf, c) = 4 /\ buf[c + 7] = Level(v) /\ buf[c + 8] = ConnectFlags(p)

\* Sequences of octets, in steps that have many of them.
Octs(s) == s \in Seq(Octet)

Regroups(a, b, c) == (a \o b) \o c = a \o (b \o c)

\* Octets after octets.
LEMMA OctsConcat ==
  ASSUME NEW a, NEW b, Octs(a), Octs(b)
  PROVE  Octs(a \o b)
BY DEF Octs

\* Concatenations group either way.
LEMMA OctsAssoc ==
  ASSUME NEW a, NEW b, NEW c, Octs(a), Octs(b), Octs(c)
  PROVE  Regroups(a, b, c)
BY Assoc DEF Octs, Regroups

AllOcts(a, l, n, k, p, i, w1, w2, w3, u, q) ==
  /\ Octs(a) /\ Octs(l) /\ Octs(n) /\ Octs(k) /\ Octs(p) /\ Octs(i) /\ Octs(w1) /\ Octs(w2)
  /\ Octs(w3) /\ Octs(u) /\ Octs(q)

AllRegroup(a, l, n, k, p, i, w1, w2, w3, u, q) ==
  ((((((a \o (l \o n)) \o k) \o p) \o i) \o ((w1 \o w2) \o w3)) \o u) \o q
    = a \o (l \o (n \o (k \o (p \o (i \o (w1 \o (w2 \o (w3 \o (u \o q)))))))))

\* Regrouping the parts of a CONNECT, from the last to the first.
LEMMA Regroup ==
  ASSUME NEW a, NEW l, NEW n, NEW k, NEW p, NEW i, NEW w1, NEW w2, NEW w3, NEW u, NEW q,
         AllOcts(a, l, n, k, p, i, w1, w2, w3, u, q)
  PROVE  AllRegroup(a, l, n, k, p, i, w1, w2, w3, u, q)
<1> DEFINE r9 == u \o q
           r8 == w3 \o r9
           r7 == w2 \o r8
           r6 == w1 \o r7
           r5 == i \o r6
           r4 == p \o r5
           r3 == k \o r4
           b1 == a \o (l \o n)
           b2 == b1 \o k
           b3 == b2 \o p
           b4 == b3 \o i
           w == (w1 \o w2) \o w3
           b5 == b4 \o w
<1>1. /\ Octs(r9) /\ Octs(r8) /\ Octs(r7) /\ Octs(r6) /\ Octs(r5) /\ Octs(r4) /\ Octs(r3)
      /\ Octs(w1 \o w2) /\ Octs(w) /\ Octs(l \o n)
      /\ Octs(b1) /\ Octs(b2) /\ Octs(b3) /\ Octs(b4) /\ Octs(b5)
  BY OctsConcat DEF AllOcts
<1> HIDE DEF r9, r8, r7, r6, r5, r4, r3, b1, b2, b3, b4, w, b5
<1> HIDE DEF r9, r8, r7, r6, r5, r4, r3, b1, b2, b3, b4, w, b5
<1>2. /\ Regroups(b5, u, q) /\ Regroups(b4, w, r9) /\ Regroups(w1 \o w2, w3, r9)
      /\ Regroups(w1, w2, r8) /\ Regroups(b3, i, r6) /\ Regroups(b2, p, r5)
      /\ Regroups(b1, k, r4) /\ Regroups(a, l \o n, r3) /\ Regroups(l, n, r3)
  BY <1>1, OctsAssoc DEF AllOcts
<1>3. (b5 \o u) \o q = b5 \o r9 /\ b5 \o r9 = b4 \o (w \o r9)
  BY <1>2 DEF Regroups, r9, b5
<1>4. w \o r9 = (w1 \o w2) \o r8 /\ (w1 \o w2) \o r8 = r6
  BY <1>2 DEF Regroups, w, r8, r7, r6
<1>5. b4 \o r6 = b3 \o r5 /\ b3 \o r5 = b2 \o r4
  BY <1>2 DEF Regroups, b4, r5, b3, r4
<1>6. b2 \o r4 = b1 \o r3 /\ b1 \o r3 = a \o ((l \o n) \o r3)
  BY <1>2 DEF Regroups, b2, r3, b1
<1>7. (l \o n) \o r3 = l \o (n \o r3)
  BY <1>2 DEF Regroups
<1>8. (b5 \o u) \o q = a \o (l \o (n \o r3))
  BY <1>3, <1>4, <1>5, <1>6, <1>7
<1> QED BY <1>8 DEF AllRegroup, r9, r8, r7, r6, r5, r4, r3, b1, b2, b3, b4, w, b5

\* A CONNECT's body is read as it was written.
LEMMA ConnectRead ==
  ASSUME NEW v, NEW p \in ConnectPackets(v)
  PROVE  BodyIs(KindsIn(p, v), ConnectBody(p, v), ValuesIn(p, v)) /\ HasLevel(p, v)
<1> DEFINE kinds == KindsIn(p, v)
           ps == OnlyV5(v, "props")
           a == Str(MQTT)
           l == <<Level(v)>>
           n == <<ConnectFlags(p)>>
           k == U16(p.keep_alive)
           o == Props(v, p.properties)
           i == Str(p.client_id)
           u == FlattenSeq([j \in DOMAIN p.username |-> Str(p.username[j])])
           q == FlattenSeq([j \in DOMAIN p.password |-> Str(p.password[j])])
           none == <<>>
           Properties(w) == w.properties
           Topic(w) == w.topic
           Payload(w) == w.payload
<1>1. /\ p.keep_alive \in Word /\ p.properties \in PropertyLists(v) /\ p.client_id \in Text
      /\ p.will \in AtMostOne(Wills(v)) /\ p.username \in AtMostOne(Text)
      /\ p.password \in AtMostOne(Text)
  BY DEF ConnectPackets
<1>2. none \in Seq(Octet) /\ MQTT \in Text /\ Len(MQTT) = 4
  <2>1. MQTT \in Seq(Octet) /\ Len(MQTT) = 4
    BY DEF MQTT, Octet
  <2>2. 4 \in Word
    BY DEF Word
  <2>3. none \in Seq(Octet)
    OBVIOUS
  <2> QED BY <2>1, <2>2, <2>3 DEF Text
<1>3. Level(v) \in Octet /\ ConnectFlags(p) \in Octet
  BY ConnectFlagsRead DEF Level, Octet
<1> HIDE DEF none
<1>11. q \in Seq(Octet) /\ ReadsAs(IfThere(p.password, "str"), q, none, Value(p.password))
  BY <1>1, <1>2, OptionField
<1> HIDE DEF q
<1> DEFINE r10 == q \o none
<1>12. r10 = q /\ r10 \in Seq(Octet)
  BY <1>11, EndIs DEF none
<1> HIDE DEF r10
<1>10. u \in Seq(Octet) /\ ReadsAs(IfThere(p.username, "str"), u, r10, Value(p.username))
  BY <1>1, <1>12, OptionField
<1> HIDE DEF u
<1> DEFINE r9 == u \o r10
<1>13. r9 \in Seq(Octet)
  BY <1>10, <1>12
<1> HIDE DEF r9
<1>14. PICK w1, w2, w3 : WillIs(p, v, w1, w2, w3) /\ WillFields(p, v, w1, w2, w3, r9)
  BY <1>1, <1>13, WillRead
<1>15. /\ w1 \in Seq(Octet) /\ w2 \in Seq(Octet) /\ w3 \in Seq(Octet)
       /\ ReadsAs(IfThere(p.will, ps), w1, w2 \o (w3 \o r9), WillValue(p, Properties))
       /\ ReadsAs(IfThere(p.will, "str"), w2, w3 \o r9, WillValue(p, Topic))
       /\ ReadsAs(IfThere(p.will, "str"), w3, r9, WillValue(p, Payload))
  BY <1>14 DEF WillIs, WillFields
<1> DEFINE r8 == w3 \o r9
<1>16. r8 \in Seq(Octet)
  BY <1>13, <1>15
<1> HIDE DEF r8
<1> DEFINE r7 == w2 \o r8
<1>17. r7 \in Seq(Octet)
  BY <1>15, <1>16
<1> HIDE DEF r7
<1> DEFINE r6 == w1 \o r7
<1>18. r6 \in Seq(Octet)
  BY <1>15, <1>17
<1> HIDE DEF r6
<1>6. i \in Seq(Octet) /\ ReadsAs("str", i, r6, p.client_id)
  BY <1>1, <1>18, StrField
<1> HIDE DEF i
<1> DEFINE r5 == i \o r6
<1>19. r5 \in Seq(Octet)
  BY <1>6, <1>18
<1> HIDE DEF r5
<1>5. o \in Seq(Octet) /\ ReadsAs(ps, o, r5, p.properties)
  BY <1>1, <1>19, PropsField
<1> HIDE DEF o
<1> DEFINE r4 == o \o r5
<1>20. r4 \in Seq(Octet)
  BY <1>5, <1>19
<1> HIDE DEF r4
<1>4. k \in Seq(Octet) /\ ReadsAs("u16", k, r4, p.keep_alive)
  BY <1>1, <1>20, U16Field
<1> HIDE DEF k
<1> DEFINE r3 == k \o r4
<1>21. r3 \in Seq(Octet)
  BY <1>4, <1>20
<1> HIDE DEF r3
<1>22. n \in Seq(Octet) /\ ReadsAs("u8", n, r3, ConnectFlags(p))
  BY <1>3, <1>21, U8Field
<1> HIDE DEF n
<1> DEFINE r2 == n \o r3
<1>23. r2 \in Seq(Octet)
  BY <1>21, <1>22
<1> HIDE DEF r2
<1>24. l \in Seq(Octet) /\ ReadsAs("u8", l, r2, Level(v))
  BY <1>3, <1>23, U8Field
<1> HIDE DEF l
<1> DEFINE r1 == l \o r2
<1>25. r1 \in Seq(Octet)
  BY <1>23, <1>24
<1> HIDE DEF r1
<1>26. a \in Seq(Octet) /\ ReadsAs("str", a, r1, MQTT)
  BY <1>2, <1>25, StrField
<1> HIDE DEF a
<1> DEFINE r0 == a \o r1
<1>27. r0 \in Seq(Octet)
  BY <1>25, <1>26
<1> HIDE DEF r0
<1>28. /\ Len(kinds) = 11 /\ kinds[1] = "str" /\ kinds[2] = "u8" /\ kinds[3] = "u8"
       /\ kinds[4] = "u16" /\ kinds[5] = ps /\ kinds[6] = "str" /\ kinds[7] = IfThere(p.will, ps)
       /\ kinds[8] = IfThere(p.will, "str") /\ kinds[9] = IfThere(p.will, "str")
       /\ kinds[10] = IfThere(p.username, "str") /\ kinds[11] = IfThere(p.password, "str")
  BY DEF KindsIn
<1>29. \E S : kinds \in Seq(S)
  <2> DEFINE S == {kinds[j] : j \in 1..11}
  <2>1. kinds = [j \in 1..11 |-> kinds[j]]
    BY DEF KindsIn
  <2> HIDE DEF kinds
  <2>2. \A j \in 1..11 : kinds[j] \in S
    OBVIOUS
  <2> HIDE DEF S
  <2>3. kinds \in Seq(S)
    <3>1. 11 \in Nat
      OBVIOUS
    <3> QED BY <2>1, <2>2, <3>1, ValuesSeq
  <2> QED BY <2>3
<1> HIDE DEF kinds, ps
<1>30. Part(kinds, 1, r0, a, r1, MQTT)
  BY <1>25, <1>26, <1>28 DEF Part, r0
<1>31. Part(kinds, 2, r1, l, r2, Level(v))
  BY <1>23, <1>24, <1>28 DEF Part, r1
<1>32. Part(kinds, 3, r2, n, r3, ConnectFlags(p))
  BY <1>21, <1>22, <1>28 DEF Part, r2
<1>33. Part(kinds, 4, r3, k, r4, p.keep_alive)
  BY <1>4, <1>20, <1>28 DEF Part, r3
<1>34. Part(kinds, 5, r4, o, r5, p.properties)
  BY <1>5, <1>19, <1>28 DEF Part, r4
<1>35. Part(kinds, 6, r5, i, r6, p.client_id)
  BY <1>6, <1>18, <1>28 DEF Part, r5
<1>36. Part(kinds, 7, r6, w1, r7, WillValue(p, Properties))
  BY <1>15, <1>17, <1>28 DEF Part, r6, r7, r8
<1>37. Part(kinds, 8, r7, w2, r8, WillValue(p, Topic))
  BY <1>15, <1>16, <1>28 DEF Part, r7, r8
<1>38. Part(kinds, 9, r8, w3, r9, WillValue(p, Payload))
  BY <1>13, <1>15, <1>28 DEF Part, r8
<1>39. Part(kinds, 10, r9, u, r10, Value(p.username))
  BY <1>10, <1>12, <1>28 DEF Part, r9
<1>40. Part(kinds, 11, r10, q, none, Value(p.password))
  BY <1>2, <1>11, <1>28 DEF Part, r10
<1>41. BodyIs(kinds, r0, ValuesIn(p, v))
  BY <1>28, <1>29, <1>30, <1>31, <1>32, <1>33, <1>34, <1>35, <1>36, <1>37, <1>38, <1>39, <1>40,
     ElevenFields DEF ValuesIn
<1>42. ConnectBody(p, v) = r0
  <2> DEFINE w == FlattenSeq([j \in DOMAIN p.will |->
                    Props(v, p.will[j].properties) \o Str(p.will[j].topic) \o Str(p.will[j].payload)])
  <2>1. w = (w1 \o w2) \o w3
    BY <1>14 DEF WillIs
  <2>2. ConnectBody(p, v)
          = ((((((Str(MQTT) \o <<Level(v), ConnectFlags(p)>>) \o k) \o o) \o i) \o w) \o u) \o q
    BY DEF ConnectBody, Level, k, o, i, u, q
  <2>3. <<Level(v), ConnectFlags(p)>> = l \o n
    BY Tuples DEF l, n
  <2> HIDE DEF w
  <2>4. ConnectBody(p, v) = ((((((a \o (l \o n)) \o k) \o o) \o i) \o ((w1 \o w2) \o w3)) \o u) \o q
    BY <2>1, <2>2, <2>3 DEF a
  <2>5. AllOcts(a, l, n, k, o, i, w1, w2, w3, u, q)
    BY <1>4, <1>5, <1>6, <1>10, <1>11, <1>15, <1>22, <1>24, <1>26 DEF AllOcts, Octs
  <2>6. ConnectBody(p, v)
          = a \o (l \o (n \o (k \o (o \o (i \o (w1 \o (w2 \o (w3 \o (u \o q)))))))))
    <3>1. AllRegroup(a, l, n, k, o, i, w1, w2, w3, u, q)
      BY <2>5, Regroup
    <3> QED BY <2>4, <3>1 DEF AllRegroup
  <2>7. q = r10
    BY <1>12
  <2> QED BY <2>6, <2>7 DEF r0, r1, r2, r3, r4, r5, r6, r7, r8, r9
<1>43. HasLevel(p, v)
  <2> SUFFICES ASSUME NEW buf \in Seq(Octet), NEW c \in Nat, Holds(buf, c, r0)
               PROVE  U16At(buf, c) = 4 /\ buf[c + 7] = Level(v) /\ buf[c + 8] = ConnectFlags(p)
    BY <1>42 DEF HasLevel
  <2>1. Len(a) = 6 /\ Len(l) = 1
    <3>1. Len(a) = 2 + Len(MQTT)
      BY <1>2, StrRead DEF a
    <3>2. Len(l) = 1
      BY DEF l
    <3> QED BY <1>2, <3>1, <3>2
  <2>2. Holds(buf, c, a \o r1)
    BY DEF r0
  <2>3. Holds(buf, c, a) /\ Holds(buf, c + Len(a), r1)
    BY <1>25, <1>26, <2>2, HoldsConcat
  <2>4. U16At(buf, c) = 4
    BY <1>2, <2>3, StrRead DEF a
  <2>5. PICK d \in Nat : d = c + 6
    OBVIOUS
  <2>6. Holds(buf, d, l \o r2)
    BY <2>1, <2>3, <2>5 DEF r1
  <2>7. Holds(buf, d, l) /\ Holds(buf, d + Len(l), r2)
    BY <1>23, <1>24, <2>6, HoldsConcat
  <2>8. buf[d + 1] = Level(v)
    BY <1>3, <2>7, HoldsOne DEF l
  <2>9. PICK e \in Nat : e = d + 1
    OBVIOUS
  <2>10. Holds(buf, e, n \o r3)
    BY <2>1, <2>7, <2>9 DEF r2
  <2>11. Holds(buf, e, n)
    BY <1>21, <1>22, <2>10, HoldsConcat
  <2>12. buf[e + 1] = ConnectFlags(p)
    BY <1>3, <2>11, HoldsOne DEF n
  <2>13. d + 1 = c + 7 /\ e + 1 = c + 8
    BY <2>5, <2>9
  <2> QED BY <2>4, <2>8, <2>12, <2>13
<1> QED BY <1>41, <1>42, <1>43 DEF kinds

\* CONNECT is read back.
LEMMA ConnectIsRead ==
  ASSUME NEW v, NEW p \in ConnectPackets(v)
  PROVE  \E i, kinds, vals : IsRead(p, v, i, kinds, vals)
<1> DEFINE kinds == KindsIn(p, v)
           vals == ValuesIn(p, v)
           n == ConnectFlags(p)
           will == [topic |-> vals[8], payload |-> vals[9], qos |-> QoS((n \div 8) % 4),
                    retain |-> HasBit(n, 32), properties |-> vals[7]]
<1>1. /\ p = [type |-> "Connect", clean_session |-> p.clean_session, keep_alive |-> p.keep_alive,
              properties |-> p.properties, client_id |-> p.client_id, will |-> p.will,
              username |-> p.username, password |-> p.password]
      /\ p.type = "Connect" /\ p.will \in AtMostOne(Wills(v)) /\ p.username \in AtMostOne(Text)
      /\ p.password \in AtMostOne(Text) /\ p.properties \in PropertyLists(v)
  BY DEF ConnectPackets
<1>2. BodyIs(kinds, Body(p, v), vals) /\ HasLevel(p, v) /\ Body(p, v) = ConnectBody(p, v)
  BY <1>1, ConnectRead DEF Body
<1>3. /\ n \in Octet /\ HasBit(n, 2) = p.clean_session
      /\ HasBit(n, 4) = (p.will # <<>>)
      /\ p.will # <<>> => /\ QoS((n \div 8) % 4) = p.will[1].qos
                          /\ HasBit(n, 32) = p.will[1].retain
      /\ HasBit(n, 64) = (p.password # <<>>) /\ HasBit(n, 128) = (p.username # <<>>)
  BY ConnectFlagsRead
<1>4. /\ vals[3] = n /\ vals[4] = p.keep_alive /\ vals[5] = p.properties /\ vals[6] = p.client_id
      /\ p.will # <<>> => /\ vals[7] = p.will[1].properties /\ vals[8] = p.will[1].topic
                          /\ vals[9] = p.will[1].payload
      /\ vals[10] = Value(p.username) /\ vals[11] = Value(p.password)
  BY DEF ValuesIn, WillValue
<1> HIDE DEF n, vals, HasBit, QoS
<1>5. ConnectKinds(Level(v), n, v) = kinds
  <2> DEFINE props == IF Level(v) = 5 THEN "props" ELSE OnlyV5(v, "props")
  <2>1. ConnectKinds(Level(v), n, v)
          = <<"str", "u8", "u8", "u16", props, "str", IF HasBit(n, 4) THEN props ELSE "absent",
              IF HasBit(n, 4) THEN "str" ELSE "absent", IF HasBit(n, 4) THEN "str" ELSE "absent",
              IF HasBit(n, 128) THEN "str" ELSE "absent", IF HasBit(n, 64) THEN "str" ELSE "absent">>
    BY DEF ConnectKinds
  <2>2. props = OnlyV5(v, "props")
    BY DEF Level, OnlyV5
  <2>3. /\ \A kind : (IF HasBit(n, 4) THEN kind ELSE "absent") = IfThere(p.will, kind)
        /\ \A kind : (IF HasBit(n, 128) THEN kind ELSE "absent") = IfThere(p.username, kind)
        /\ \A kind : (IF HasBit(n, 64) THEN kind ELSE "absent") = IfThere(p.password, kind)
    BY <1>3 DEF IfThere
  <2> HIDE DEF props
  <2>4. ConnectKinds(Level(v), n, v)
          = <<"str", "u8", "u8", "u16", props, "str", IfThere(p.will, props),
              IfThere(p.will, "str"), IfThere(p.will, "str"), IfThere(p.username, "str"),
              IfThere(p.password, "str")>>
    BY <2>1, <2>3
  <2> QED BY <2>2, <2>4 DEF KindsIn
<1>6. KindsOf(p, v, kinds)
  <2> SUFFICES ASSUME NEW buf \in Seq(Octet), NEW c \in Nat, Holds(buf, c, ConnectBody(p, v))
               PROVE  Kinds("Connect", buf, v, c) = kinds
    BY <1>1, <1>2 DEF KindsOf
  <2>1. U16At(buf, c) = 4 /\ buf[c + 7] = Level(v) /\ buf[c + 8] = n
    BY <1>2 DEF HasLevel, n
  <2>2. (c + 2 + 4) + 1 = c + 7 /\ (c + 2 + 4) + 2 = c + 8
    OBVIOUS
  <2>3. Kinds("Connect", buf, v, c) = ConnectKinds(buf[c + 7], buf[c + 8], v)
    BY <2>1, <2>2 DEF Kinds
  <2> QED BY <1>5, <2>1, <2>3
<1>7. p.will # <<>> => will \in Wills(v) /\ p.will = <<will>>
  <2> SUFFICES ASSUME p.will # <<>> PROVE will \in Wills(v) /\ p.will = <<will>>
    OBVIOUS
  <2>1. p.will[1] \in Wills(v) /\ p.will = <<p.will[1]>>
    BY <1>1, OneIs
  <2>2. p.will[1] = [topic |-> p.will[1].topic, payload |-> p.will[1].payload,
                     qos |-> p.will[1].qos, retain |-> p.will[1].retain,
                     properties |-> p.will[1].properties]
    BY <2>1 DEF Wills
  <2>3. will = p.will[1]
    BY <1>3, <1>4, <2>2
  <2> QED BY <2>1, <2>3
<1>8. (IF HasBit(n, 4) THEN <<will>> ELSE <<>>) = p.will
  BY <1>3, <1>7
<1>9. /\ (IF HasBit(n, 128) THEN <<vals[10]>> ELSE <<>>) = p.username
      /\ (IF HasBit(n, 64) THEN <<vals[11]>> ELSE <<>>) = p.password
  <2>1. p.username # <<>> => p.username = <<p.username[1]>>
    BY <1>1, OneIs
  <2>2. p.password # <<>> => p.password = <<p.password[1]>>
    BY <1>1, OneIs
  <2>3. /\ (IF HasBit(n, 128) THEN <<Value(p.username)>> ELSE <<>>) = p.username
        /\ (IF HasBit(n, 64) THEN <<Value(p.password)>> ELSE <<>>) = p.password
    <3>1. (IF HasBit(n, 128) THEN <<Value(p.username)>> ELSE <<>>) = p.username
      <4>1. CASE p.username = <<>>
        BY <1>3, <4>1
      <4>2. CASE p.username # <<>>
        BY <1>3, <2>1, <4>2 DEF Value
      <4> QED BY <4>1, <4>2
    <3>2. (IF HasBit(n, 64) THEN <<Value(p.password)>> ELSE <<>>) = p.password
      <4>1. CASE p.password = <<>>
        BY <1>3, <4>1
      <4>2. CASE p.password # <<>>
        BY <1>3, <2>2, <4>2 DEF Value
      <4> QED BY <4>1, <4>2
    <3> QED BY <3>1, <3>2
  <2> QED BY <1>4, <2>3
<1>10. ConnectOf(vals, n) = p
  BY <1>1, <1>3, <1>4, <1>8, <1>9 DEF ConnectOf
<1>11. PacketOf("Connect", FirstOctet(p), vals) = p
  BY <1>4, <1>10 DEF PacketOf
<1>12. p.type = Types[1] /\ 1 \in 1..14
  BY <1>1 DEF Types
<1>13. FirstOctet(p) \in Octet /\ FirstOctet(p) \div 16 = 1
  BY <1>1, <1>12, FirstIs
<1>14. ~TooMany(kinds, vals)
  <2> DEFINE none == {"str", "u8", "u16", "absent"}
  <2>1. /\ DOMAIN kinds = 1..11
        /\ kinds[5] = OnlyV5(v, "props") /\ kinds[7] = IfThere(p.will, OnlyV5(v, "props"))
        /\ \A i \in {1, 2, 3, 4, 6, 8, 9, 10, 11} : kinds[i] \in none
    BY DEF kinds, KindsIn, IfThere
  <2> HIDE DEF kinds
  <2>2. Fits(kinds[5], vals[5])
    BY <1>1, <1>4, <2>1, PropsFit
  <2>3. Fits(kinds[7], vals[7])
    <3>1. CASE p.will = <<>>
      BY <2>1, <3>1, OthersFit DEF IfThere
    <3>2. CASE p.will # <<>>
      <4>1. p.will[1].properties \in PropertyLists(v)
        BY <1>1, <3>2, OneIs DEF Wills
      <4> QED BY <1>4, <2>1, <3>2, <4>1, PropsFit DEF IfThere
    <3> QED BY <3>1, <3>2
  <2>4. ASSUME NEW i \in 1..11 PROVE Fits(kinds[i], vals[i])
    <3>1. i = 5 \/ i = 7 \/ i \in {1, 2, 3, 4, 6, 8, 9, 10, 11}
      OBVIOUS
    <3>2. i \in {1, 2, 3, 4, 6, 8, 9, 10, 11} => Fits(kinds[i], vals[i])
      BY <2>1, OthersFit
    <3> QED BY <2>2, <2>3, <3>1, <3>2
  <2> QED BY <2>1, <2>4, AllFit
<1>15. IsRead(p, v, 1, kinds, vals)
  BY <1>1, <1>2, <1>6, <1>11, <1>12, <1>13, <1>14 DEF IsRead
<1> QED BY <1>15

-------------------------------------------------------------------------------
(* Whole packets. *)

\* Every packet is a ping or is read by its body.
LEMMA PacketIsRead ==
  ASSUME NEW v, NEW p \in Packets(v)
  PROVE  p \in [type : {"PingReq", "PingResp"}] \/ \E i, kinds, vals : IsRead(p, v, i, kinds, vals)
<1>1. /\ p \in ConnectPackets(v) \/ p \in PublishPackets(v) \/ p \in AckPackets(v)
         \/ p \in OtherPackets(v)
  BY DEF Packets
<1>2. p \in OtherPackets(v) =>
        \/ p \in ConnAckPackets(v) \/ p \in SubscribePackets(v) \/ p \in UnsubscribePackets(v)
        \/ p \in CodesPackets(v) \/ p \in [type : {"PingReq", "PingResp"}] \/ p \in DisconnectPackets(v)
  BY DEF OtherPackets, ConnAckPackets, SubscribePackets, UnsubscribePackets, CodesPackets,
         DisconnectPackets, Filter
<1> QED BY <1>1, <1>2, ConnectIsRead, PublishIsRead, AckIsRead, ConnAckIsRead, SubscribeIsRead,
           UnsubscribeIsRead, CodesIsRead, DisconnectIsRead

\* A packet's octets: the first, the length of the body, and the body.
LEMMA FramedIs ==
  ASSUME NEW first \in Octet, NEW body \in Seq(Octet), Len(body) \in Lengths,
         NEW n, n = Len(body), NEW d, d = Digits(n), NEW e, e = Framed(first, body)
  PROVE  /\ e \in Seq(Octet) /\ Len(e) = 1 + d + n /\ d \in 1..4 /\ n \in Nat
         /\ \A buf \in Seq(Octet), o \in Nat : o < Len(buf) /\ Starts(buf, o, e) =>
              buf[o + 1] = first /\ Starts(buf, o + 1, VarInt(n))
         /\ \A buf \in Seq(Octet), o \in Nat : Holds(buf, o, e) => Holds(buf, o + 1 + d, body)
<1> DEFINE f == <<first>>
           l == VarInt(n)
           h == f \o l
<1>1. f \in Seq(Octet) /\ Len(f) = 1 /\ f[1] = first
  OBVIOUS
<1>2. l \in Seq(Octet) /\ Len(l) = d /\ d \in 1..4 /\ n \in Nat
  BY VarIntIs, EndIs
<1>3. e = h \o body
  BY DEF Framed
<1> HIDE DEF f, l
<1>4. /\ h \in Seq(Octet) /\ Len(h) = 1 + d
      /\ \A i \in 1..1 : h[i] = f[i] /\ \A j \in 1..d : h[1 + j] = l[j]
  <2>1. f \in Seq(Octet) /\ l \in Seq(Octet)
    BY <1>1, <1>2
  <2>2. /\ h \in Seq(Octet) /\ Len(h) = Len(f) + Len(l)
        /\ \A i \in 1..Len(f) : h[i] = f[i] /\ \A j \in 1..Len(l) : h[Len(f) + j] = l[j]
    BY <2>1, ConcatAt
  <2> QED BY <1>1, <1>2, <2>2
<1> HIDE DEF h
<1>5. /\ e \in Seq(Octet) /\ Len(e) = 1 + d + n
      /\ \A i \in 1..(1 + d) : e[i] = h[i]
  <2>1. h \in Seq(Octet) /\ body \in Seq(Octet)
    BY <1>4
  <2>2. /\ e \in Seq(Octet) /\ Len(e) = Len(h) + Len(body)
        /\ \A i \in 1..Len(h) : e[i] = h[i]
    BY <1>3, <2>1, ConcatAt
  <2> QED BY <1>4, <2>2
<1>6. ASSUME NEW buf \in Seq(Octet), NEW o \in Nat, o < Len(buf), Starts(buf, o, e)
      PROVE  buf[o + 1] = first /\ Starts(buf, o + 1, l)
  <2>1. 1 \in 1..Len(e) /\ e[1] = first
    BY <1>1, <1>2, <1>4, <1>5
  <2>2. buf[o + 1] = first
    BY <1>6, <2>1 DEF Starts
  <2>3. ASSUME NEW j \in 1..d, (o + 1) + j <= Len(buf) PROVE buf[(o + 1) + j] = l[j]
    <3>1. 1 + j \in 1..Len(e) /\ e[1 + j] = l[j] /\ o + (1 + j) = (o + 1) + j
      BY <1>2, <1>4, <1>5
    <3> QED BY <1>6, <2>3, <3>1 DEF Starts
  <2>4. Starts(buf, o + 1, l)
    BY <1>2, <2>3 DEF Starts
  <2> QED BY <2>2, <2>4
<1>7. ASSUME NEW buf \in Seq(Octet), NEW o \in Nat, Holds(buf, o, e)
      PROVE  Holds(buf, o + 1 + d, body)
  <2>1. Holds(buf, o + Len(h), body)
    BY <1>3, <1>4, <1>7, HoldsConcat
  <2>2. o + Len(h) = o + 1 + d
    BY <1>2, <1>4
  <2> QED BY <2>1, <2>2
<1> QED BY <1>2, <1>5, <1>6, <1>7 DEF l

\* A buffer with all of s begins with it.
LEMMA StartsHolds ==
  ASSUME NEW buf, NEW c \in Nat, NEW s \in Seq(Octet), Starts(buf, c, s), Len(buf) \in Nat,
         c + Len(s) <= Len(buf)
  PROVE  Holds(buf, c, s)
<1>1. \A i \in 1..Len(s) : c + i <= Len(buf)
  BY EndIs
<1> QED BY <1>1 DEF Starts, Holds

\* The parts of a packet.
IsPacket(p, v, i) ==
  /\ i \in 1..14 /\ p.type = Types[i] /\ FirstOctet(p) \in Octet /\ FirstOctet(p) \div 16 = i
  /\ Body(p, v) \in Seq(Octet)

\* Every packet has a type and is read back from its body.
LEMMA PacketIs ==
  ASSUME NEW v, NEW p \in Packets(v)
  PROVE  \E i : IsPacket(p, v, i)
<1>1. CASE p \in [type : {"PingReq", "PingResp"}]
  <2>1. p.type \in {"PingReq", "PingResp"}
    BY <1>1
  <2>2. Body(p, v) = <<>>
    BY <2>1 DEF Body
  <2>3. <<>> \in Seq(Octet)
    OBVIOUS
  <2>4. PICK i \in 1..14 : p.type = Types[i]
    <3>1. 12 \in 1..14 /\ 13 \in 1..14 /\ Types[12] = "PingReq" /\ Types[13] = "PingResp"
      BY DEF Types
    <3> QED BY <2>1, <3>1
  <2>5. FirstOctet(p) \in Octet /\ FirstOctet(p) \div 16 = i
    BY <2>1, <2>4, FirstIs
  <2>6. IsPacket(p, v, i)
    BY <2>2, <2>3, <2>4, <2>5 DEF IsPacket
  <2> QED BY <2>6
<1>2. CASE \E i, kinds, vals : IsRead(p, v, i, kinds, vals)
  <2>1. PICK i, kinds, vals : IsRead(p, v, i, kinds, vals)
    BY <1>2
  <2>2. IsPacket(p, v, i)
    BY <2>1 DEF IsRead, IsPacket, BodyIs
  <2> QED BY <2>2
<1> QED BY <1>1, <1>2, PacketIsRead

\* The octets of a packet.
LEMMA EncodeIs ==
  ASSUME NEW v, NEW p \in Packets(v), Len(Body(p, v)) \in Lengths
  PROVE  /\ Encode(p, v) \in Seq(Octet) /\ Len(Encode(p, v)) \in Nat /\ Len(Encode(p, v)) >= 2
         /\ Len(Encode(p, v)) = 1 + Digits(Len(Body(p, v))) + Len(Body(p, v))
<1> DEFINE n == Len(Body(p, v))
           d == Digits(n)
           e == Encode(p, v)
<1>1. PICK i : IsPacket(p, v, i)
  BY PacketIs
<1>2. FirstOctet(p) \in Octet /\ Body(p, v) \in Seq(Octet) /\ e = Framed(FirstOctet(p), Body(p, v))
  BY <1>1 DEF IsPacket, Encode
<1>3. e \in Seq(Octet) /\ Len(e) = 1 + d + n /\ d \in 1..4 /\ n \in Nat
  BY <1>2, FramedIs
<1> HIDE DEF n, d, e
<1>4. Len(e) \in Nat /\ Len(e) >= 2
  BY <1>3
<1> QED BY <1>3, <1>4 DEF n, d, e

\* Octets that begin with a packet's are decoded to it, and are incomplete as
\* long as one of its octets is missing.
LEMMA DecodeIs ==
  ASSUME NEW v, NEW p \in Packets(v), Len(Body(p, v)) \in Lengths, NEW e, e = Encode(p, v),
         NEW buf \in Seq(Octet), Len(buf) >= 2, Starts(buf, 0, e)
  PROVE  Decode(buf, v) = IF Len(buf) < Len(e) THEN Failed("incomplete") ELSE Decoded(p)
<1> DEFINE n == Len(Body(p, v))
           d == Digits(n)
           first == FirstOctet(p)
           body == Body(p, v)
<1>1. PICK i : IsPacket(p, v, i)
  BY PacketIs
<1>2. /\ first \in Octet /\ body \in Seq(Octet) /\ e = Framed(first, body) /\ i \in 1..14
      /\ p.type = Types[i] /\ first \div 16 = i
  BY <1>1 DEF IsPacket, Encode
<1>3. PICK z \in Nat : z = 0
  OBVIOUS
<1>4. /\ e \in Seq(Octet) /\ Len(e) = 1 + d + n /\ d \in 1..4 /\ n \in Nat
      /\ z < Len(buf) /\ Starts(buf, z, e) =>
              buf[z + 1] = first /\ Starts(buf, z + 1, VarInt(n))
      /\ Holds(buf, z, e) => Holds(buf, z + 1 + d, body)
  BY <1>2, <1>3, FramedIs
<1>5. buf[1] = first /\ Starts(buf, 1, VarInt(n))
  BY <1>3, <1>4
<1>6. DOMAIN Types = 1..14
  BY DEF Types
<1>7. Decode(buf, v) = DecodeAs(p.type, buf, v)
  BY <1>2, <1>5, <1>6 DEF Decode
<1>8. CASE p \in [type : {"PingReq", "PingResp"}]
  <2>1. p = [type |-> p.type] /\ p.type \in {"PingReq", "PingResp"}
    BY <1>8
  <2>2. n = 0
    BY <2>1 DEF Body
  <2>3. d = 1
    BY <2>2 DEF Digits
  <2> HIDE DEF n, d
  <2>4. ~(Len(buf) < Len(e))
    BY <1>4, <2>2, <2>3
  <2>5. DecodeAs(p.type, buf, v) = Decoded([type |-> p.type])
    BY <2>1 DEF DecodeAs
  <2> QED BY <1>7, <2>1, <2>4, <2>5
<1>9. CASE \E j, kinds, vals : IsRead(p, v, j, kinds, vals)
  <2>1. PICK j, kinds, vals : IsRead(p, v, j, kinds, vals)
    BY <1>9
  <2> DEFINE len == VarIntAt(buf, 1)
  <2>2. p.type \notin {"PingReq", "PingResp"}
    BY <2>1 DEF IsRead, Body
  <2>3. DecodeAs(p.type, buf, v) = DecodeBody(p.type, buf, v, len)
    <3>1. ~(Len(buf) = 1)
      OBVIOUS
    <3> QED BY <2>2, <3>1 DEF DecodeAs
  <2>4. /\ 1 + d <= Len(buf) => len = [err |-> "none", next |-> 1 + d, val |-> n]
        /\ 1 + d > Len(buf) => len = [err |-> "incomplete", next |-> 1, val |-> 0]
    BY <1>5, VarIntRead
  <2> HIDE DEF len, d, n, body, first
  <2>5. CASE Len(buf) < 1 + d
    <3>1. DecodeBody(p.type, buf, v, len) = Failed("incomplete")
      BY <1>4, <2>4, <2>5 DEF DecodeBody
    <3>2. Len(buf) < Len(e)
      BY <1>4, <2>5
    <3> QED BY <1>7, <2>3, <3>1, <3>2
  <2>6. CASE Len(buf) >= 1 + d /\ Len(buf) < 1 + d + n
    <3>1. DecodeBody(p.type, buf, v, len) = Failed("incomplete")
      BY <1>4, <2>4, <2>6 DEF DecodeBody
    <3> QED BY <1>4, <1>7, <2>3, <2>6, <3>1
  <2>7. CASE Len(buf) >= 1 + d + n
    <3>1. len = [err |-> "none", next |-> 1 + d, val |-> n] /\ 1 + d \in Nat
      BY <1>4, <2>4, <2>7
    <3>2. Holds(buf, z, e)
      BY <1>3, <1>4, <2>7, StartsHolds
    <3>3. Holds(buf, 1 + d, body)
      <4>1. z + 1 + d = 1 + d
        BY <1>3, <1>4
      <4> QED BY <1>4, <3>2, <4>1
    <3>4. Kinds(p.type, buf, v, 1 + d) = kinds
      BY <1>5, <2>1, <3>1, <3>3 DEF IsRead, KindsOf, first, body
    <3>5. FieldsAt(kinds, buf, 1 + d, 1 + d + n) = vals
      BY <2>1, <3>1, <3>3 DEF IsRead, BodyIs, body, n
    <3>6. PacketOf(p.type, buf[1], vals) = p
      BY <1>5, <2>1 DEF IsRead, first
    <3>7. ~(n < 2 /\ p.type \notin {"Connect", "Publish", "Disconnect"})
      <4>1. n >= 2 \/ p.type \in {"Connect", "Publish", "Disconnect"}
        BY <2>1 DEF IsRead, n
      <4> QED BY <1>4, <4>1
    <3>8. DecodeBody(p.type, buf, v, len) = Decoded(p)
      <4>1. ~(Len(buf) < len.next + len.val) /\ len.err = "none"
            /\ len.next = 1 + d /\ len.val = n
        BY <1>4, <2>7, <3>1
      <4>2. ~TooMany(kinds, vals)
        BY <2>1 DEF IsRead
      <4> QED BY <3>4, <3>5, <3>6, <3>7, <4>1, <4>2 DEF DecodeBody
    <3>9. ~(Len(buf) < Len(e))
      BY <1>4, <2>7
    <3> QED BY <1>7, <2>3, <3>8, <3>9
  <2>8. Len(buf) \in Nat /\ d \in Nat /\ n \in Nat
    BY <1>4
  <2> QED BY <2>5, <2>6, <2>7, <2>8
<1> QED BY <1>8, <1>9, PacketIsRead

-------------------------------------------------------------------------------
(* Frames. *)

\* A frame lies in the buffer.
LEMMA FrameType ==
  ASSUME NEW buf \in Seq(Octet), NEW o \in 0..Len(buf)
  PROVE  /\ FrameLength(buf, o) \in Nat
         /\ FrameLength(buf, o) # 0 => FrameLength(buf, o) >= 2 /\ o + FrameLength(buf, o) <= Len(buf)
<1> DEFINE len == VarIntAt(buf, o + 1)
           next == len.next
           val == len.val
<1>1. Len(buf) \in Nat /\ o \in Nat /\ o + 1 \in Nat
  OBVIOUS
<1>2. next \in Nat /\ val \in Nat /\ (len.err = "none" => next \in (o + 2)..Len(buf))
  <2>1. (o + 1) + 1 = o + 2
    BY <1>1
  <2> QED BY <1>1, <2>1, VarIntType
<1>3. FrameLength(buf, o) = IF Len(buf) - o < 2 \/ len.err # "none" \/ Len(buf) - o < next - o + val
                              THEN 0 ELSE next - o + val
  BY DEF FrameLength
<1> HIDE DEF len, next, val
<1> QED BY <1>1, <1>2, <1>3

\* The whole of a packet is its frame.
LEMMA FrameOf ==
  ASSUME NEW v, NEW p \in Packets(v), Len(Body(p, v)) \in Lengths, NEW e, e = Encode(p, v),
         NEW buf \in Seq(Octet), NEW o \in 0..Len(buf), Starts(buf, o, e)
  PROVE  FrameLength(buf, o) = IF Len(buf) - o >= Len(e) THEN Len(e) ELSE 0
<1> DEFINE n == Len(Body(p, v))
           d == Digits(n)
           len == VarIntAt(buf, o + 1)
<1>1. PICK i : IsPacket(p, v, i)
  BY PacketIs
<1>2. FirstOctet(p) \in Octet /\ Body(p, v) \in Seq(Octet) /\ e = Framed(FirstOctet(p), Body(p, v))
  BY <1>1 DEF IsPacket, Encode
<1>3. Len(buf) \in Nat /\ o \in Nat /\ o + 1 \in Nat /\ o <= Len(buf)
  OBVIOUS
<1>4. /\ Len(e) = 1 + d + n /\ d \in 1..4 /\ n \in Nat
      /\ o < Len(buf) => Starts(buf, o + 1, VarInt(n))
  BY <1>2, <1>3, FramedIs
<1>5. FrameLength(buf, o)
        = IF Len(buf) - o < 2 \/ len.err # "none" \/ Len(buf) - o < len.next - o + len.val
            THEN 0 ELSE len.next - o + len.val
  BY DEF FrameLength
<1>6. o < Len(buf) =>
        /\ o + 1 + d <= Len(buf) => len = [err |-> "none", next |-> o + 1 + d, val |-> n]
        /\ o + 1 + d > Len(buf) => len = [err |-> "incomplete", next |-> o + 1, val |-> 0]
  BY <1>3, <1>4, VarIntRead
<1> HIDE DEF len, d, n
<1>7. CASE Len(buf) - o < 2
  BY <1>3, <1>4, <1>5, <1>7
<1>8. CASE Len(buf) - o >= 2 /\ o + 1 + d > Len(buf)
  <2>1. len.err # "none"
    BY <1>3, <1>6, <1>8
  <2>2. ~(Len(buf) - o >= Len(e))
    BY <1>3, <1>4, <1>8
  <2> QED BY <1>5, <2>1, <2>2
<1>9. CASE Len(buf) - o >= 2 /\ o + 1 + d <= Len(buf)
  <2>1. len.err = "none" /\ len.next = o + 1 + d /\ len.val = n
    BY <1>3, <1>6, <1>9
  <2>2. len.next - o + len.val = Len(e)
    BY <1>3, <1>4, <2>1
  <2>3. FrameLength(buf, o) = IF Len(buf) - o < Len(e) THEN 0 ELSE Len(e)
    BY <1>3, <1>5, <1>9, <2>1, <2>2
  <2>4. Len(buf) - o < Len(e) <=> ~(Len(buf) - o >= Len(e))
    BY <1>3, <1>4
  <2> QED BY <2>3, <2>4
<1> QED BY <1>3, <1>4, <1>7, <1>8, <1>9

\* A field without an end is an error.
LEMMA VarIntError ==
  ASSUME NEW buf \in Seq(Octet), NEW c \in Nat,
         \A i \in 0..3 : ~(c + i < Len(buf) /\ buf[c + i + 1] < 128)
  PROVE  VarIntAt(buf, c).err # "none"
<1> DEFINE e == IF c + 4 <= Len(buf) THEN "malformed" ELSE "incomplete"
           r == VarIntAt(buf, c)
<1>1. r = [err |-> e, next |-> c, val |-> 0]
  <2>1. r = VarIntUpTo(buf, c, 4)
    BY VarIntOpen
  <2>2. VarIntUpTo(buf, c, 4) = [err |-> e, next |-> c, val |-> 0]
    BY VarIntNone
  <2> QED BY <2>1, <2>2
<1>2. e # "none"
  OBVIOUS
<1> HIDE DEF e, r
<1> QED BY <1>1, <1>2 DEF r

\* A frame is the same in what is left of the buffer.
Left(b, buf, o) == Len(b) = Len(buf) - o /\ \A i \in 1..Len(b) : b[i] = buf[o + i]

\* The frame at an offset is the first of the octets from there on.
LEMMA FrameShift ==
  ASSUME NEW buf \in Seq(Octet), NEW o \in 0..Len(buf), NEW b \in Seq(Octet), Left(b, buf, o)
  PROVE  FrameLength(buf, o) = FrameLength(b, 0)
<1>1. Len(buf) \in Nat /\ o \in Nat /\ o <= Len(buf)
  OBVIOUS
<1>2. Len(b) = Len(buf) - o /\ \A i \in 1..Len(b) : b[i] = buf[o + i]
  BY DEF Left
<1>3. PICK q \in Nat : q = o + 1
  BY <1>1
<1>4. PICK w \in Nat : w = 1
  OBVIOUS
<1> DEFINE c == VarIntAt(buf, q)
           d == VarIntAt(b, w)
<1>5. /\ FrameLength(buf, o) = IF Len(buf) - o < 2 \/ c.err # "none" \/ Len(buf) - o < c.next - o + c.val
                                 THEN 0 ELSE c.next - o + c.val
      /\ FrameLength(b, 0) = IF Len(b) - 0 < 2 \/ d.err # "none" \/ Len(b) - 0 < d.next - 0 + d.val
                               THEN 0 ELSE d.next - 0 + d.val
  <2>1. 0 + 1 = 1
    OBVIOUS
  <2> QED BY <1>3, <1>4, <2>1 DEF FrameLength
<1>6. ASSUME NEW i \in Nat
      PROVE  (w + i < Len(b) <=> q + i < Len(buf)) /\ (w + i < Len(b) => b[w + i + 1] = buf[q + i + 1])
  <2>1. w + i < Len(b) <=> q + i < Len(buf)
    BY <1>1, <1>2, <1>3, <1>4
  <2>2. o + (w + i + 1) = q + i + 1
    BY <1>1, <1>3, <1>4
  <2>3. w + i < Len(b) => w + i + 1 \in 1..Len(b)
    BY <1>1, <1>2, <1>4
  <2>4. w + i < Len(b) => b[w + i + 1] = buf[o + (w + i + 1)]
    BY <1>2, <2>3
  <2> QED BY <2>1, <2>2, <2>4
<1>7. CASE \A i \in 0..3 : ~(q + i < Len(buf) /\ buf[q + i + 1] < 128)
  <2>1. \A i \in 0..3 : ~(w + i < Len(b) /\ b[w + i + 1] < 128)
    <3> SUFFICES ASSUME NEW i \in 0..3, w + i < Len(b), b[w + i + 1] < 128 PROVE FALSE
      OBVIOUS
    <3>1. q + i < Len(buf) /\ b[w + i + 1] = buf[q + i + 1]
      BY <1>6
    <3> QED BY <1>7, <3>1
  <2>2. c.err # "none"
    BY <1>7, VarIntError
  <2>3. d.err # "none"
    BY <2>1, VarIntError
  <2> HIDE DEF c, d
  <2> QED BY <1>5, <2>2, <2>3
<1>8. CASE \E k \in 0..3 : EndsAt(buf, q, k)
  <2>1. PICK k \in 0..3 : EndsAt(buf, q, k)
    BY <1>8
  <2>2. q + k < Len(buf)
    BY <2>1 DEF EndsAt
  <2>3. ASSUME NEW i \in 0..k PROVE w + i < Len(b) /\ b[w + i + 1] = buf[q + i + 1]
    <3>1. i \in Nat /\ q + i < Len(buf)
      BY <1>1, <2>2
    <3> QED BY <1>6, <3>1
  <2>4. Alike(buf, q, b, w, k)
    BY <2>3 DEF Alike
  <2>5. /\ c.err = "none" /\ d.err = "none" /\ c.next = q + k + 1 /\ d.next = w + k + 1
        /\ c.val = d.val
    <3> HIDE DEF c, d
    <3>1. /\ VarIntAt(buf, q).err = "none" /\ VarIntAt(b, w).err = "none"
          /\ VarIntAt(buf, q).next = q + k + 1 /\ VarIntAt(b, w).next = w + k + 1
          /\ VarIntAt(buf, q).val = VarIntAt(b, w).val
      BY <2>1, <2>4, VarIntSame
    <3> QED BY <3>1 DEF c, d
  <2>6. c.val \in Nat
    BY VarIntType
  <2> HIDE DEF c, d
  <2>7. c.next - o + c.val = d.next - 0 + d.val /\ Len(b) - 0 = Len(buf) - o
    BY <1>1, <1>2, <1>3, <1>4, <2>5, <2>6
  <2> QED BY <1>5, <2>5, <2>7
<1> QED BY <1>7, <1>8, VarIntCases

\* The octets from an offset on.
LEMMA LeftIs ==
  ASSUME NEW buf \in Seq(Octet), NEW o \in 0..Len(buf)
  PROVE  LET b == SubSeq(buf, o + 1, Len(buf)) IN b \in Seq(Octet) /\ Left(b, buf, o)
<1> DEFINE b == SubSeq(buf, o + 1, Len(buf))
<1>1. Len(buf) \in Nat /\ o \in Nat /\ o <= Len(buf)
  OBVIOUS
<1>2. b \in Seq(Octet) /\ Len(b) = Len(buf) - o
  BY <1>1, SeqSplit
<1>3. ASSUME NEW i \in 1..Len(b) PROVE b[i] = buf[o + i]
  BY <1>1, <1>2, <1>3
<1> QED BY <1>2, <1>3 DEF Left

\* What FrameStarts computes.
IsStarts(L, buf) ==
  \A k \in 0..Len(buf) :
    L[k] = IF FrameLength(buf, k) = 0 THEN <<k>> ELSE <<k>> \o L[k + FrameLength(buf, k)]

\* FrameStarts is that recursion.
LEMMA StartsIs ==
  ASSUME NEW buf \in Seq(Octet)
  PROVE  \E L : FrameStarts(buf) = L[0] /\ IsStarts(L, buf)
<1> DEFINE e == Len(buf)
           on == [k \in 0..e |-> k + FrameLength(buf, k)]
           y == [k \in 0..e |-> <<k>>]
           Stop == {k \in 0..e : FrameLength(buf, k) = 0}
<1>1. e \in Nat
  OBVIOUS
<1>2. \A k \in 0..e : FrameLength(buf, k) # 0 => k + FrameLength(buf, k) \in (k + 1)..e
  <2> SUFFICES ASSUME NEW k \in 0..e, FrameLength(buf, k) # 0
               PROVE  k + FrameLength(buf, k) \in (k + 1)..e
    OBVIOUS
  <2> DEFINE n == FrameLength(buf, k)
  <2>1. n \in Nat /\ n >= 2 /\ k + n <= e
    BY FrameType
  <2> HIDE DEF n, e
  <2>2. k + n \in (k + 1)..e
    BY <1>1, <2>1
  <2> QED BY <2>2 DEF n
<1>3. GoesOn(on, Stop, 0, e)
  BY <1>2 DEF GoesOn
<1> HIDE DEF on, y, Stop, e
<1>4. PICK M : IsBackwards(M, 0, e, Stop, y, y, on)
  <2>1. 0 \in Nat /\ 0 <= e
    BY <1>1
  <2> QED BY <1>1, <1>3, <2>1, Backwards
<1>5. M = [k \in 0..e |-> IF k \in Stop THEN y[k] ELSE y[k] \o M[on[k]]]
  BY <1>4 DEF IsBackwards
<1>6. M = [k \in 0..e |-> IF FrameLength(buf, k) = 0 THEN <<k>>
                          ELSE <<k>> \o M[k + FrameLength(buf, k)]]
  <2>1. ASSUME NEW k \in 0..e
        PROVE  (IF k \in Stop THEN y[k] ELSE y[k] \o M[on[k]])
                 = IF FrameLength(buf, k) = 0 THEN <<k>> ELSE <<k>> \o M[k + FrameLength(buf, k)]
    <3>1. /\ y[k] = <<k>> /\ (k \in Stop <=> FrameLength(buf, k) = 0)
          /\ on[k] = k + FrameLength(buf, k)
      BY Zenon DEF on, y, Stop
    <3> QED BY <3>1, Zenon
  <2> QED BY <1>5, <2>1, Zenon
<1> DEFINE Is(L) == L = [k \in 0..e |-> IF FrameLength(buf, k) = 0 THEN <<k>>
                                        ELSE <<k>> \o L[k + FrameLength(buf, k)]]
           starts == CHOOSE L : Is(L)
<1>7. Is(starts)
  BY <1>6
<1>8. FrameStarts(buf) = starts[0]
  BY DEF FrameStarts, e
<1> HIDE DEF starts
<1>9. IsStarts(starts, buf)
  BY <1>7, Zenon DEF IsStarts, e
<1> QED BY <1>8, <1>9

\* From k on, the iterator stops at these offsets.
Stops(s, buf, k) ==
  /\ s \in Seq(0..Len(buf)) /\ Len(s) >= 1 /\ s[1] = k /\ FrameLength(buf, s[Len(s)]) = 0
  /\ \A i \in 1..(Len(s) - 1) :
       FrameLength(buf, s[i]) # 0 /\ s[i + 1] = s[i] + FrameLength(buf, s[i])

\* Where there is no frame the iterator stops.
LEMMA OneStop ==
  ASSUME NEW buf, NEW k \in 0..Len(buf), FrameLength(buf, k) = 0
  PROVE  Stops(<<k>>, buf, k)
<1> DEFINE s == <<k>>
<1>1. s \in Seq(0..Len(buf)) /\ Len(s) = 1 /\ s[1] = k
  OBVIOUS
<1> HIDE DEF s
<1>2. 1..(Len(s) - 1) = {}
  BY <1>1
<1>3. Stops(s, buf, k)
  BY <1>1, <1>2 DEF Stops
<1> QED BY <1>3 DEF s

\* Behind a frame it goes on.
LEMMA MoreStops ==
  ASSUME NEW buf, NEW k \in 0..Len(buf), FrameLength(buf, k) # 0, NEW t,
         Stops(t, buf, k + FrameLength(buf, k))
  PROVE  Stops(<<k>> \o t, buf, k)
<1> DEFINE f == <<k>>
           s == f \o t
           n == Len(t)
<1>1. /\ t \in Seq(0..Len(buf)) /\ n >= 1 /\ t[1] = k + FrameLength(buf, k)
      /\ FrameLength(buf, t[n]) = 0
      /\ \A i \in 1..(n - 1) : FrameLength(buf, t[i]) # 0 /\ t[i + 1] = t[i] + FrameLength(buf, t[i])
  BY DEF Stops
<1>2. f \in Seq(0..Len(buf)) /\ Len(f) = 1 /\ f[1] = k /\ n \in Nat
  BY <1>1
<1> HIDE DEF f
<1>3. /\ s \in Seq(0..Len(buf)) /\ Len(s) = 1 + n /\ s[1] = k
      /\ \A i \in 1..n : s[1 + i] = t[i]
  <2>1. f \in Seq(0..Len(buf)) /\ t \in Seq(0..Len(buf))
    BY <1>1, <1>2
  <2>2. /\ s \in Seq(0..Len(buf)) /\ Len(s) = Len(f) + Len(t)
        /\ \A i \in 1..Len(f) : s[i] = f[i]
        /\ \A i \in 1..Len(t) : s[Len(f) + i] = t[i]
    BY <2>1, ConcatAt
  <2> HIDE DEF s
  <2> QED BY <1>2, <2>2
<1> HIDE DEF s, n
<1>4. FrameLength(buf, s[Len(s)]) = 0 /\ Len(s) >= 1
  <2>1. n \in 1..n /\ Len(s) = 1 + n
    BY <1>1, <1>2, <1>3
  <2>2. s[1 + n] = t[n]
    BY <1>3, <2>1
  <2> QED BY <1>1, <1>2, <2>1, <2>2
<1>5. ASSUME NEW i \in 1..(Len(s) - 1)
      PROVE  FrameLength(buf, s[i]) # 0 /\ s[i + 1] = s[i] + FrameLength(buf, s[i])
  <2>1. CASE i = 1
    <3>1. 1 \in 1..n
      BY <1>1, <1>2
    <3>2. s[1 + 1] = t[1]
      BY <1>3, <3>1
    <3> QED BY <1>1, <1>3, <2>1, <3>2
  <2>2. CASE i # 1
    <3>1. PICK j \in Nat : i = 1 + j /\ j \in 1..(n - 1) /\ j \in 1..n /\ j + 1 \in 1..n /\ i + 1 = 1 + (j + 1)
      <4>1. i - 1 \in Nat /\ i = 1 + (i - 1) /\ i - 1 \in 1..(n - 1) /\ i - 1 \in 1..n
            /\ (i - 1) + 1 \in 1..n /\ i + 1 = 1 + ((i - 1) + 1)
        BY <1>2, <1>3, <2>2
      <4> QED BY <4>1
    <3>2. s[i] = t[j] /\ s[i + 1] = t[j + 1]
      BY <1>3, <3>1
    <3> QED BY <1>1, <3>1, <3>2
  <2> QED BY <2>1, <2>2
<1>6. Stops(s, buf, k)
  BY <1>3, <1>4, <1>5 DEF Stops
<1> QED BY <1>6 DEF s, f

\* FrameStarts are the offsets the iterator stops at.
LEMMA StopsAre ==
  ASSUME NEW buf \in Seq(Octet)
  PROVE  Stops(FrameStarts(buf), buf, 0)
<1> DEFINE e == Len(buf)
<1>1. PICK L : FrameStarts(buf) = L[0] /\ IsStarts(L, buf)
  BY StartsIs
<1>2. e \in Nat
  OBVIOUS
<1> DEFINE T == {m \in Nat : \A k \in 0..e : e - k <= m => Stops(L[k], buf, k)}
<1>3. ASSUME NEW k \in 0..e, FrameLength(buf, k) = 0 PROVE Stops(L[k], buf, k)
  <2>1. L[k] = <<k>>
    BY <1>1, <1>3 DEF IsStarts
  <2> QED BY <1>3, <2>1, OneStop
<1>4. ASSUME NEW k \in 0..e, FrameLength(buf, k) # 0, Stops(L[k + FrameLength(buf, k)], buf, k + FrameLength(buf, k))
      PROVE  Stops(L[k], buf, k)
  <2>1. L[k] = <<k>> \o L[k + FrameLength(buf, k)]
    BY <1>1, <1>4 DEF IsStarts
  <2> QED BY <1>4, <2>1, MoreStops
<1>5. ASSUME NEW k \in 0..e, FrameLength(buf, k) # 0
      PROVE  k + FrameLength(buf, k) \in 0..e /\ k + FrameLength(buf, k) >= k + 2
  <2> DEFINE n == FrameLength(buf, k)
  <2>1. n \in Nat /\ n >= 2 /\ k + n <= e
    BY <1>5, FrameType
  <2> HIDE DEF n, e
  <2>2. k + n \in 0..e /\ k + n >= k + 2
    BY <1>2, <2>1
  <2> QED BY <2>2 DEF n
<1>6. 0 \in T
  <2> SUFFICES ASSUME NEW k \in 0..e, e - k <= 0 PROVE Stops(L[k], buf, k)
    OBVIOUS
  <2>1. FrameLength(buf, k) = 0
    <3> SUFFICES ASSUME FrameLength(buf, k) # 0 PROVE FALSE
      OBVIOUS
    <3> DEFINE j == k + FrameLength(buf, k)
    <3>1. j \in 0..e /\ j >= k + 2
      BY <1>5
    <3> HIDE DEF j, e
    <3> QED BY <1>2, <3>1
  <2> QED BY <1>3, <2>1
<1>7. ASSUME NEW m \in Nat, m \in T PROVE m + 1 \in T
  <2> SUFFICES ASSUME NEW k \in 0..e, e - k <= m + 1 PROVE Stops(L[k], buf, k)
    OBVIOUS
  <2>1. CASE FrameLength(buf, k) # 0
    <3> DEFINE j == k + FrameLength(buf, k)
    <3>1. j \in 0..e /\ j >= k + 2
      BY <1>5, <2>1
    <3>2. e - j <= m
      <4> HIDE DEF j, e
      <4> QED BY <1>2, <3>1
    <3>3. Stops(L[j], buf, j)
      BY <1>7, <3>1, <3>2
    <3> QED BY <1>4, <2>1, <3>3
  <2> QED BY <1>3, <2>1
<1>8. e \in T
  <2> HIDE DEF T, e
  <2> QED BY <1>2, <1>6, <1>7, NatInduct
<1>9. 0 \in 0..e /\ e - 0 <= e
  BY <1>2
<1>10. Stops(L[0], buf, 0)
  BY <1>8, <1>9
<1> QED BY <1>1, <1>10

-------------------------------------------------------------------------------
(* The broker's stream. *)

\* Octets that are no packet, as TailsAssumption has them.
NoPacket(tl, v) ==
  \A n \in 0..Len(tl) :
    LET come == SubSeq(tl, 1, n)
        len  == FrameLength(come, 0)
    IN len = 0 \/ Decode(SubSeq(come, 1, len), v).err # "none"

\* Packet i stands in all after position at[i - 1], and the tail after the last.
Stands(ps, v, all, at, i) ==
  at[i] = at[i - 1] + Len(Encode(ps[i], v)) /\ Holds(all, at[i - 1], Encode(ps[i], v))

Stream(ps, v, tl, all, at) ==
  /\ ps \in Seq(Packets(v)) /\ \A i \in 1..Len(ps) : Len(Body(ps[i], v)) \in Lengths
  /\ all \in Seq(Octet) /\ tl \in Seq(Octet) /\ NoPacket(tl, v)
  /\ at \in [0..Len(ps) -> Nat] /\ at[0] = 0
  /\ \A i \in 1..Len(ps) : Stands(ps, v, all, at, i)
  /\ Holds(all, at[Len(ps)], tl) /\ Len(all) = at[Len(ps)] + Len(tl)

\* What the broker sends is such a stream.
LEMMA StreamIs ==
  ASSUME NEW v \in DOMAIN Traffic, NEW ps \in Traffic[v], NEW tl \in Tails
  PROVE  \E at : Stream(ps, v, tl, Octets(ps, v) \o tl, at)
<1> DEFINE encs == [i \in DOMAIN ps |-> Encode(ps[i], v)]
           flat == FlattenSeq(encs)
           all == flat \o tl
<1>1. ps \in Seq(Packets(v)) /\ \A i \in 1..Len(ps) : Len(Body(ps[i], v)) \in Lengths
  BY TrafficAssumption
<1>2. tl \in Seq(Octet) /\ NoPacket(tl, v)
  <2>1. tl \in Seq(Octet)
    BY TailsAssumption
  <2>2. NoPacket(tl, v)
    BY TailsAssumption DEF NoPacket
  <2> QED BY <2>1, <2>2
<1>3. DOMAIN ps = 1..Len(ps) /\ Len(ps) \in Nat /\ \A i \in 1..Len(ps) : ps[i] \in Packets(v)
  BY <1>1
<1>4. ASSUME NEW i \in 1..Len(ps) PROVE encs[i] = Encode(ps[i], v) /\ encs[i] \in Seq(Octet)
  <2>1. encs[i] = Encode(ps[i], v)
    BY <1>3
  <2> HIDE DEF encs
  <2> QED BY <1>1, <1>3, <2>1, EncodeIs
<1>5. encs \in Seq(Seq(Octet)) /\ Len(encs) = Len(ps)
  <2>1. encs = [i \in 1..Len(ps) |-> encs[i]]
    BY <1>3
  <2> HIDE DEF encs
  <2>2. \A i \in 1..Len(ps) : encs[i] \in Seq(Octet)
    BY <1>4
  <2> QED BY <1>3, <2>1, <2>2, ValuesSeq
<1> HIDE DEF encs
<1>6. flat \in Seq(Octet)
  BY <1>5, FlattenParts
<1>7. PICK at \in [0..Len(encs) -> Nat] :
        /\ at[0] = 0 /\ at[Len(encs)] = Len(flat)
        /\ \A i \in 1..Len(encs) :
             /\ at[i] = at[i - 1] + Len(encs[i]) /\ at[i] <= Len(flat)
             /\ \A j \in 1..Len(encs[i]) : flat[at[i - 1] + j] = encs[i][j]
  BY <1>5, FlattenParts
<1> HIDE DEF flat
<1>8. /\ all \in Seq(Octet) /\ Len(all) = Len(flat) + Len(tl) /\ Len(flat) \in Nat /\ Len(tl) \in Nat
      /\ \A i \in 1..Len(flat) : all[i] = flat[i]
      /\ \A i \in 1..Len(tl) : all[Len(flat) + i] = tl[i]
  BY <1>2, <1>6, ConcatAt
<1> HIDE DEF all
<1>9. ASSUME NEW i \in 1..Len(ps) PROVE Stands(ps, v, all, at, i)
  <2> DEFINE e == encs[i]
             a == at[i - 1]
  <2>1. e = Encode(ps[i], v) /\ e \in Seq(Octet) /\ Len(e) \in Nat
    BY <1>4
  <2>2. at[i] = a + Len(e) /\ a \in Nat /\ at[i] <= Len(flat)
    <3>1. i - 1 \in 0..Len(ps)
      BY <1>3
    <3> QED BY <1>5, <1>7, <3>1
  <2>3. \A j \in 1..Len(e) : flat[a + j] = e[j]
    BY <1>5, <1>7
  <2> HIDE DEF e, a
  <2>4. ASSUME NEW j \in 1..Len(e) PROVE all[a + j] = e[j]
    <3>1. a + j \in 1..Len(flat)
      BY <1>8, <2>1, <2>2
    <3> QED BY <1>8, <2>3, <3>1
  <2>5. a + Len(e) <= Len(all)
    BY <1>8, <2>1, <2>2
  <2>6. Holds(all, a, e)
    BY <2>4, <2>5 DEF Holds
  <2> QED BY <2>1, <2>2, <2>6 DEF Stands, a
<1>10. Holds(all, at[Len(ps)], tl) /\ Len(all) = at[Len(ps)] + Len(tl)
  <2>1. at[Len(ps)] = Len(flat)
    BY <1>5, <1>7
  <2>2. Holds(all, Len(flat), tl)
    BY <1>8 DEF Holds
  <2> QED BY <1>8, <2>1, <2>2
<1>11. at \in [0..Len(ps) -> Nat] /\ at[0] = 0
  BY <1>5, <1>7
<1>12. Stream(ps, v, tl, all, at)
  BY <1>1, <1>2, <1>8, <1>9, <1>10, <1>11 DEF Stream
<1>13. all = Octets(ps, v) \o tl
  BY DEF all, flat, encs, Octets
<1> QED BY <1>12, <1>13

\* The buffer is what the stream has after packet r.
Window(ps, all, at, r, buf) ==
  r \in 0..Len(ps) /\ buf \in Seq(Octet) /\ Holds(all, at[r], buf)

\* Packet r + m + 1, or what there is of it, is found where the ones before it
\* end.
LEMMA PacketStarts ==
  ASSUME NEW ps, NEW v, NEW tl, NEW all, NEW at, Stream(ps, v, tl, all, at),
         NEW r, NEW buf, Window(ps, all, at, r, buf), NEW i \in 1..Len(ps), NEW e, e = Encode(ps[i], v),
         NEW o \in 0..Len(buf), at[i - 1] = at[r] + o
  PROVE  /\ e \in Seq(Octet) /\ Len(e) \in Nat /\ Len(e) >= 2 /\ at[i] = at[r] + o + Len(e)
         /\ Starts(buf, o, e)
         /\ FrameLength(buf, o) = IF Len(buf) - o >= Len(e) THEN Len(e) ELSE 0
         /\ Decode(e, v) = Decoded(ps[i])
<1>1. /\ ps[i] \in Packets(v) /\ Len(Body(ps[i], v)) \in Lengths /\ at[r] \in Nat
      /\ buf \in Seq(Octet) /\ Len(buf) \in Nat /\ o \in Nat /\ o <= Len(buf)
      /\ all \in Seq(Octet)
  <2>1. ps \in Seq(Packets(v)) /\ \A j \in 1..Len(ps) : Len(Body(ps[j], v)) \in Lengths
    BY DEF Stream
  <2>2. at \in [0..Len(ps) -> Nat] /\ all \in Seq(Octet) /\ r \in 0..Len(ps) /\ buf \in Seq(Octet)
    BY DEF Stream, Window
  <2>3. ps[i] \in Packets(v) /\ Len(Body(ps[i], v)) \in Lengths
    BY <2>1
  <2> QED BY <2>2, <2>3
<1>2. e \in Seq(Octet) /\ Len(e) \in Nat /\ Len(e) >= 2
  BY <1>1, EncodeIs
<1>3. at[i] = at[i - 1] + Len(e) /\ Holds(all, at[i - 1], e)
  BY DEF Stream, Stands
<1>4. Starts(buf, o, e)
  <2> SUFFICES ASSUME NEW j \in 1..Len(e), o + j <= Len(buf) PROVE buf[o + j] = e[j]
    BY DEF Starts
  <2> DEFINE a == at[r]
  <2>1. o + j \in 1..Len(buf)
    BY <1>1, <1>2
  <2>2. buf[o + j] = all[a + (o + j)]
    BY <2>1 DEF Window, Holds
  <2>3. e[j] = all[at[i - 1] + j]
    BY <1>3 DEF Holds
  <2>4. a \in Nat /\ at[i - 1] = a + o
    BY <1>1
  <2> HIDE DEF a
  <2>5. at[i - 1] + j = a + (o + j)
    BY <1>1, <1>2, <2>4
  <2> QED BY <2>2, <2>3, <2>5
<1>5. FrameLength(buf, o) = IF Len(buf) - o >= Len(e) THEN Len(e) ELSE 0
  BY <1>1, <1>4, FrameOf
<1>6. Decode(e, v) = Decoded(ps[i])
  <2>1. Starts(e, 0, e)
    <3>1. ASSUME NEW j \in 1..Len(e) PROVE 0 + j = j
      BY <1>2
    <3> QED BY <3>1 DEF Starts
  <2>2. ~(Len(e) < Len(e))
    BY <1>2
  <2> QED BY <1>1, <1>2, <2>1, <2>2, DecodeIs
<1> QED BY <1>1, <1>2, <1>3, <1>4, <1>5, <1>6

\* The iterator stops where packets end, as long as there are packets.
AtPackets(ps, at, r, st, m) ==
  m + 1 <= Len(st) /\ r + m <= Len(ps) => at[r + m] = at[r] + st[m + 1]

\* While there are packets it stops where they end.
LEMMA StopsAtPackets ==
  ASSUME NEW ps, NEW v, NEW tl, NEW all, NEW at, Stream(ps, v, tl, all, at),
         NEW r, NEW buf, Window(ps, all, at, r, buf), NEW st, st = FrameStarts(buf)
  PROVE  \A m \in Nat : AtPackets(ps, at, r, st, m)
<1> DEFINE T == {m \in Nat : AtPackets(ps, at, r, st, m)}
<1>1. /\ buf \in Seq(Octet) /\ r \in 0..Len(ps) /\ r \in Nat /\ Len(ps) \in Nat
      /\ at \in [0..Len(ps) -> Nat]
  BY DEF Window, Stream
<1>2. Stops(st, buf, 0)
  BY <1>1, StopsAre
<1>3. /\ st \in Seq(0..Len(buf)) /\ Len(st) \in Nat /\ Len(st) >= 1 /\ st[1] = 0
      /\ \A i \in 1..(Len(st) - 1) :
           FrameLength(buf, st[i]) # 0 /\ st[i + 1] = st[i] + FrameLength(buf, st[i])
  BY <1>2 DEF Stops
<1>4. 0 \in T
  <2>1. at[r] \in Nat
    BY <1>1
  <2>2. r + 0 = r /\ 0 + 1 = 1 /\ at[r] + 0 = at[r]
    BY <1>1, <2>1
  <2> QED BY <1>3, <2>2 DEF AtPackets
<1>5. ASSUME NEW m \in Nat, m \in T PROVE m + 1 \in T
  <2> SUFFICES ASSUME (m + 1) + 1 <= Len(st), r + (m + 1) <= Len(ps)
               PROVE  at[r + (m + 1)] = at[r] + st[(m + 1) + 1]
    BY DEF AtPackets
  <2> DEFINE o == st[m + 1]
             i == r + (m + 1)
             e == Encode(ps[i], v)
  <2>1. m + 1 \in 1..(Len(st) - 1) /\ m + 1 \in 1..Len(st) /\ i \in 1..Len(ps) /\ i - 1 = r + m
        /\ m + 1 <= Len(st) /\ r + m <= Len(ps)
    BY <1>1, <1>3
  <2>2. at[r + m] = at[r] + o
    BY <1>5, <2>1 DEF AtPackets
  <2>3. o \in 0..Len(buf)
    BY <1>3, <2>1
  <2>4. FrameLength(buf, o) # 0 /\ st[(m + 1) + 1] = o + FrameLength(buf, o)
    BY <1>3, <2>1
  <2>5. at[i - 1] = at[r] + o
    BY <2>1, <2>2
  <2> HIDE DEF o, i, e
  <2>6. /\ Len(e) \in Nat /\ at[i] = at[r] + o + Len(e)
        /\ FrameLength(buf, o) = IF Len(buf) - o >= Len(e) THEN Len(e) ELSE 0
    BY <2>1, <2>3, <2>5, PacketStarts DEF e
  <2>7. st[(m + 1) + 1] = o + Len(e)
    BY <2>4, <2>6
  <2>8. at[r] \in Nat /\ o \in Nat
    BY <1>1, <2>3
  <2>9. at[r] + o + Len(e) = at[r] + (o + Len(e))
    BY <2>6, <2>8
  <2> QED BY <2>6, <2>7, <2>9 DEF i
<1>6. Nat \subseteq T
  <2> HIDE DEF T
  <2> QED BY <1>4, <1>5, NatInduct
<1> QED BY <1>6

\* If the iterator does not go beyond the packets, its frames are packets and it
\* ends where one of them does.
OnlyPackets(ps, v, at, r, buf, n) ==
  /\ n \in Nat /\ r + n <= Len(ps) /\ Consumed(buf) \in 0..Len(buf)
  /\ at[r + n] = at[r] + Consumed(buf) /\ FrameLength(buf, Consumed(buf)) = 0
  /\ DOMAIN Frames(buf) = 1..n
  /\ \A i \in 1..n : Decode(Frames(buf)[i], v) = Decoded(ps[r + i])

\* A read that does not go beyond the packets has only packets.
LEMMA FramesArePackets ==
  ASSUME NEW ps, NEW v, NEW tl, NEW all, NEW at, Stream(ps, v, tl, all, at),
         NEW r, NEW buf, Window(ps, all, at, r, buf), NEW n, n = Len(FrameStarts(buf)) - 1,
         r + n <= Len(ps)
  PROVE  OnlyPackets(ps, v, at, r, buf, n)
<1> DEFINE st == FrameStarts(buf)
<1>1. /\ buf \in Seq(Octet) /\ Len(buf) \in Nat /\ r \in 0..Len(ps) /\ r \in Nat /\ Len(ps) \in Nat
      /\ at \in [0..Len(ps) -> Nat]
  BY DEF Window, Stream
<1>2. Stops(st, buf, 0)
  BY <1>1, StopsAre
<1>3. /\ st \in Seq(0..Len(buf)) /\ Len(st) \in Nat /\ Len(st) >= 1
      /\ FrameLength(buf, st[Len(st)]) = 0
      /\ \A i \in 1..(Len(st) - 1) :
           FrameLength(buf, st[i]) # 0 /\ st[i + 1] = st[i] + FrameLength(buf, st[i])
  BY <1>2 DEF Stops
<1>4. Consumed(buf) = st[Len(st)] /\ Frames(buf) = [i \in 1..(Len(st) - 1) |-> SubSeq(buf, st[i] + 1, st[i + 1])]
  BY DEF Consumed, Frames, Last
<1>5. \A m \in Nat : AtPackets(ps, at, r, st, m)
  BY StopsAtPackets
<1> HIDE DEF st
<1>6. n \in Nat /\ n = Len(st) - 1 /\ n + 1 = Len(st) /\ n + 1 <= Len(st)
  BY <1>3 DEF st
<1>7. Consumed(buf) \in 0..Len(buf) /\ FrameLength(buf, Consumed(buf)) = 0
  <2>1. Len(st) \in 1..Len(st)
    BY <1>3
  <2>2. st[Len(st)] \in 0..Len(buf)
    BY <1>3, <2>1
  <2> QED BY <1>3, <1>4, <2>2
<1>8. at[r + n] = at[r] + Consumed(buf)
  BY <1>4, <1>5, <1>6 DEF AtPackets
<1>9. ASSUME NEW i \in 1..n PROVE Decode(Frames(buf)[i], v) = Decoded(ps[r + i])
  <2> DEFINE o == st[i]
             k == r + i
             e == Encode(ps[k], v)
  <2>1. PICK m \in Nat : i = m + 1
    BY <1>6
  <2>2. m + 1 <= Len(st) /\ r + m <= Len(ps) /\ k \in 1..Len(ps) /\ k - 1 = r + m
        /\ i \in 1..(Len(st) - 1) /\ i \in 1..Len(st)
    BY <1>1, <1>6, <2>1
  <2>3. at[k - 1] = at[r] + o
    BY <1>5, <2>1, <2>2 DEF AtPackets
  <2>4. o \in 0..Len(buf)
    <3>1. \A j \in 1..Len(st) : st[j] \in 0..Len(buf)
      BY <1>3
    <3> QED BY <2>2, <3>1
  <2>5. FrameLength(buf, o) # 0 /\ st[i + 1] = o + FrameLength(buf, o)
    BY <1>3, <2>2
  <2>6. Frames(buf)[i] = SubSeq(buf, o + 1, st[i + 1])
    BY <1>4, <2>2
  <2> HIDE DEF o, k, e
  <2>7. /\ e \in Seq(Octet) /\ Len(e) \in Nat /\ Starts(buf, o, e)
        /\ FrameLength(buf, o) = IF Len(buf) - o >= Len(e) THEN Len(e) ELSE 0
        /\ Decode(e, v) = Decoded(ps[k])
    BY <2>2, <2>3, <2>4, PacketStarts DEF e
  <2>8. FrameLength(buf, o) = Len(e) /\ o + Len(e) <= Len(buf) /\ o \in Nat
    BY <1>1, <2>4, <2>5, <2>7
  <2>9. Holds(buf, o, e)
    BY <1>1, <2>7, <2>8, StartsHolds
  <2>10. SubSeq(buf, o + 1, o + Len(e)) = e
    BY <1>1, <2>7, <2>8, <2>9, HoldsSub
  <2> QED BY <2>5, <2>6, <2>7, <2>8, <2>10 DEF k
<1>10. DOMAIN Frames(buf) = 1..n
  BY <1>4, <1>6
<1> QED BY <1>6, <1>7, <1>8, <1>9, <1>10 DEF OnlyPackets

\* If it goes beyond them, a frame of the tail is not decoded.
LEMMA FrameOfTail ==
  ASSUME NEW ps, NEW v, NEW tl, NEW all, NEW at, Stream(ps, v, tl, all, at),
         NEW r, NEW buf, Window(ps, all, at, r, buf), r + (Len(FrameStarts(buf)) - 1) > Len(ps)
  PROVE  tl # <<>> /\ \E i \in DOMAIN Frames(buf) : Decode(Frames(buf)[i], v).err # "none"
<1> DEFINE st == FrameStarts(buf)
           m == Len(ps) - r
           i == m + 1
           o == st[i]
           b == SubSeq(buf, o + 1, Len(buf))
           len == FrameLength(buf, o)
<1>1. /\ buf \in Seq(Octet) /\ Len(buf) \in Nat /\ r \in 0..Len(ps) /\ r \in Nat /\ Len(ps) \in Nat
      /\ at \in [0..Len(ps) -> Nat] /\ all \in Seq(Octet) /\ tl \in Seq(Octet) /\ Len(tl) \in Nat
  BY DEF Window, Stream
<1>2. Stops(st, buf, 0)
  BY <1>1, StopsAre
<1>3. /\ st \in Seq(0..Len(buf)) /\ Len(st) \in Nat
      /\ \A j \in 1..(Len(st) - 1) :
           FrameLength(buf, st[j]) # 0 /\ st[j + 1] = st[j] + FrameLength(buf, st[j])
  BY <1>2 DEF Stops
<1>4. Frames(buf) = [j \in 1..(Len(st) - 1) |-> SubSeq(buf, st[j] + 1, st[j + 1])]
  BY DEF Frames
<1>5. AtPackets(ps, at, r, st, m)
  <2>1. m \in Nat
    BY <1>1
  <2> QED BY <2>1, StopsAtPackets
<1>6. r + (Len(st) - 1) > Len(ps)
  OBVIOUS
<1> HIDE DEF st
<1>7. /\ m \in Nat /\ m + 1 <= Len(st) /\ r + m = Len(ps) /\ i \in 1..(Len(st) - 1)
      /\ i \in 1..Len(st) /\ r + m <= Len(ps)
  BY <1>1, <1>3, <1>6
<1>8. at[Len(ps)] = at[r] + o
  BY <1>5, <1>7 DEF AtPackets
<1>9. o \in 0..Len(buf) /\ o \in Nat /\ o <= Len(buf)
  <2>1. o \in 0..Len(buf)
    BY <1>3, <1>7
  <2> HIDE DEF o
  <2> QED BY <1>1, <2>1
<1>10. len # 0 /\ st[i + 1] = o + len
  BY <1>3, <1>7
<1>11. Frames(buf)[i] = SubSeq(buf, o + 1, st[i + 1]) /\ i \in DOMAIN Frames(buf)
  BY <1>4, <1>7
<1> HIDE DEF o, i, m
<1>12. b \in Seq(Octet) /\ Left(b, buf, o)
  BY <1>1, <1>9, LeftIs
<1>13. len = FrameLength(b, 0)
  BY <1>1, <1>9, <1>12, FrameShift
<1>14. Len(b) = Len(buf) - o /\ \A j \in 1..Len(b) : b[j] = buf[o + j]
  BY <1>12 DEF Left
<1>15. len \in Nat /\ len >= 2 /\ o + len <= Len(buf)
  BY <1>1, <1>9, <1>10, FrameType
<1> HIDE DEF b, len
<1>16. at[r] \in Nat /\ at[Len(ps)] \in Nat
  <2>1. Len(ps) \in 0..Len(ps)
    BY <1>1
  <2> QED BY <1>1, <2>1
<1>17. Len(all) = at[Len(ps)] + Len(tl) /\ Holds(all, at[Len(ps)], tl) /\ Holds(all, at[r], buf)
  BY DEF Stream, Window
<1>18. Len(b) \in 0..Len(tl)
  <2>1. at[r] + Len(buf) <= Len(all)
    BY <1>17 DEF Holds
  <2> QED BY <1>1, <1>8, <1>9, <1>14, <1>16, <1>17, <2>1
<1>19. ASSUME NEW j \in 1..Len(b) PROVE b[j] = tl[j]
  <2>1. o + j \in 1..Len(buf) /\ j \in 1..Len(tl)
    BY <1>1, <1>9, <1>14, <1>18
  <2>2. buf[o + j] = all[at[r] + (o + j)]
    BY <1>17, <2>1 DEF Holds
  <2>3. tl[j] = all[at[Len(ps)] + j]
    BY <1>17, <2>1 DEF Holds
  <2>4. at[r] + (o + j) = at[Len(ps)] + j
    BY <1>1, <1>8, <1>9, <1>16, <2>1
  <2> QED BY <1>14, <2>2, <2>3, <2>4
<1>20. b = SubSeq(tl, 1, Len(b))
  <2> DEFINE c == SubSeq(tl, 1, Len(b))
  <2>1. c \in Seq(Octet) /\ Len(c) = Len(b)
    BY <1>1, <1>18, SeqSplit
  <2>2. ASSUME NEW j \in 1..Len(b) PROVE c[j] = tl[j]
    BY <1>1, <1>12, <1>18, <2>2
  <2> HIDE DEF c
  <2>3. b = c
    BY <1>12, <1>19, <2>1, <2>2
  <2> QED BY <2>3 DEF c
<1>21. Decode(SubSeq(b, 1, len), v).err # "none"
  <2>1. NoPacket(tl, v)
    BY DEF Stream
  <2>2. FrameLength(b, 0) = 0 \/ Decode(SubSeq(b, 1, FrameLength(b, 0)), v).err # "none"
    BY <1>18, <1>20, <2>1 DEF NoPacket
  <2> QED BY <1>10, <1>13, <2>2
<1>22. SubSeq(b, 1, len) = SubSeq(buf, o + 1, o + len)
  <2> DEFINE c == SubSeq(b, 1, len)
             d == SubSeq(buf, o + 1, o + len)
  <2>1. len \in 0..Len(b)
    BY <1>1, <1>9, <1>14, <1>15
  <2>2. c \in Seq(Octet) /\ Len(c) = len
    BY <1>12, <2>1, SeqSplit
  <2>3. d \in Seq(Octet) /\ Len(d) = len
    BY <1>1, <1>9, <1>15
  <2>4. ASSUME NEW j \in 1..len PROVE c[j] = b[j]
    BY <1>12, <2>1, <2>4
  <2>5. ASSUME NEW j \in 1..len PROVE d[j] = buf[o + j]
    BY <1>1, <1>9, <1>15, <2>5
  <2> HIDE DEF c, d
  <2>6. \A j \in 1..len : j \in 1..Len(b)
    BY <1>15, <2>1
  <2>7. c = d
    BY <1>14, <2>2, <2>3, <2>4, <2>5, <2>6
  <2> QED BY <2>7 DEF c, d
<1>23. tl # <<>>
  <2>1. Len(tl) >= 2
    BY <1>1, <1>9, <1>14, <1>15, <1>18
  <2> QED BY <2>1
<1> QED BY <1>10, <1>11, <1>21, <1>22, <1>23

-------------------------------------------------------------------------------
\* The connection: wire is the end of the stream, and while the link is open the
\* buffer is what was read after the last packet received, with no whole frame.
Rest(rest, all) ==
  /\ rest \in Seq(Octet) /\ Len(rest) <= Len(all)
  /\ \A i \in 1..Len(rest) : rest[i] = all[(Len(all) - Len(rest)) + i]

\* After packet r, buf is what was read and rest is not read yet.
Reading(ps, all, at, r, buf, rest) ==
  /\ Window(ps, all, at, r, buf)
  /\ at[r] + Len(buf) + Len(rest) = Len(all)

FirstOf(t, s, n) == t = SubSeq(s, 1, n)

\* Octets taken from the wire.
LEMMA Taken ==
  ASSUME NEW all \in Seq(Octet), NEW rest, Rest(rest, all), NEW n \in 0..Len(rest)
  PROVE  LET t == SubSeq(rest, n + 1, Len(rest)) IN Rest(t, all) /\ Len(t) = Len(rest) - n
<1> DEFINE t == SubSeq(rest, n + 1, Len(rest))
<1>1. /\ rest \in Seq(Octet) /\ Len(rest) \in Nat /\ Len(all) \in Nat /\ n \in Nat /\ n <= Len(rest)
      /\ Len(rest) <= Len(all)
  BY DEF Rest
<1>2. t \in Seq(Octet) /\ Len(t) = Len(rest) - n
  BY <1>1, SeqSplit
<1>3. ASSUME NEW i \in 1..Len(t) PROVE t[i] = rest[n + i]
  BY <1>1, <1>2, <1>3
<1> HIDE DEF t
<1>4. ASSUME NEW i \in 1..Len(t) PROVE t[i] = all[(Len(all) - Len(t)) + i]
  <2>1. n + i \in 1..Len(rest)
    BY <1>1, <1>2
  <2>2. rest[n + i] = all[(Len(all) - Len(rest)) + (n + i)]
    BY <2>1 DEF Rest
  <2>3. (Len(all) - Len(rest)) + (n + i) = (Len(all) - Len(t)) + i
    BY <1>1, <1>2
  <2> QED BY <1>3, <2>2, <2>3
<1>5. Len(t) <= Len(all)
  BY <1>1, <1>2
<1>6. Rest(t, all)
  BY <1>2, <1>4, <1>5 DEF Rest
<1> QED BY <1>2, <1>6 DEF t

\* They are put after what the buffer has.
LEMMA ReadMore ==
  ASSUME NEW ps, NEW v, NEW tl, NEW all, NEW at, Stream(ps, v, tl, all, at),
         NEW r, NEW buf, NEW rest, Rest(rest, all), Reading(ps, all, at, r, buf, rest),
         NEW n \in 0..Len(rest), NEW more, FirstOf(more, rest, n)
  PROVE  /\ Window(ps, all, at, r, buf \o more)
         /\ Len(buf \o more) = Len(buf) + n
<1> DEFINE w == buf \o more
<1>1. /\ rest \in Seq(Octet) /\ Len(rest) \in Nat /\ n \in Nat /\ n <= Len(rest)
      /\ Len(rest) <= Len(all)
  BY DEF Rest
<1>2. /\ buf \in Seq(Octet) /\ Len(buf) \in Nat /\ all \in Seq(Octet) /\ Len(all) \in Nat
      /\ r \in 0..Len(ps) /\ at \in [0..Len(ps) -> Nat]
  BY DEF Reading, Window, Stream
<1>3. at[r] \in Nat /\ at[r] + Len(buf) + Len(rest) = Len(all)
  BY <1>2 DEF Reading
<1>4. more \in Seq(Octet) /\ Len(more) = n
  BY <1>1, SeqSplit DEF FirstOf
<1>5. ASSUME NEW i \in 1..n PROVE more[i] = rest[i]
  BY <1>1, <1>5 DEF FirstOf
<1>6. /\ w \in Seq(Octet) /\ Len(w) = Len(buf) + n
      /\ \A i \in 1..Len(buf) : w[i] = buf[i]
      /\ \A i \in 1..n : w[Len(buf) + i] = more[i]
  <2>1. /\ w \in Seq(Octet) /\ Len(w) = Len(buf) + Len(more)
        /\ \A i \in 1..Len(buf) : w[i] = buf[i]
        /\ \A i \in 1..Len(more) : w[Len(buf) + i] = more[i]
    <3>1. buf \in Seq(Octet) /\ more \in Seq(Octet)
      BY <1>2, <1>4
    <3> QED BY <3>1, ConcatAt
  <2> HIDE DEF w
  <2> QED BY <1>4, <2>1
<1> HIDE DEF w
<1>7. ASSUME NEW i \in 1..Len(w) PROVE all[at[r] + i] = w[i]
  <2>1. CASE i <= Len(buf)
    <3>1. i \in 1..Len(buf)
      BY <1>2, <1>6, <2>1
    <3>2. all[at[r] + i] = buf[i]
      BY <3>1 DEF Reading, Window, Holds
    <3> QED BY <1>6, <3>1, <3>2
  <2>2. CASE ~(i <= Len(buf))
    <3>1. PICK j \in Nat : i = Len(buf) + j /\ j \in 1..n /\ j \in 1..Len(rest)
      <4>1. i - Len(buf) \in Nat /\ i = Len(buf) + (i - Len(buf))
            /\ i - Len(buf) \in 1..n /\ i - Len(buf) \in 1..Len(rest)
        BY <1>1, <1>2, <1>6, <2>2
      <4> QED BY <4>1
    <3>2. w[i] = rest[j]
      BY <1>5, <1>6, <3>1
    <3>3. rest[j] = all[(Len(all) - Len(rest)) + j]
      BY <3>1 DEF Rest
    <3>4. (Len(all) - Len(rest)) + j = at[r] + i
      <4> DEFINE x == at[r]
                 y == Len(all)
                 z == Len(rest)
                 k == Len(buf)
      <4>1. x \in Nat /\ y \in Nat /\ z \in Nat /\ k \in Nat /\ x + k + z = y /\ i = k + j
        BY <1>1, <1>2, <1>3, <3>1
      <4> HIDE DEF x, y, z, k
      <4>2. (y - z) + j = x + i
        BY <3>1, <4>1
      <4> QED BY <4>2 DEF x, y, z
    <3> QED BY <3>2, <3>3, <3>4
  <2> QED BY <2>1, <2>2
<1>8. at[r] + Len(w) <= Len(all)
  BY <1>1, <1>2, <1>3, <1>6
<1>9. Holds(all, at[r], w)
  BY <1>7, <1>8 DEF Holds
<1>10. Window(ps, all, at, r, w)
  BY <1>2, <1>6, <1>9 DEF Window
<1> QED BY <1>6, <1>10 DEF w

\* What stays in the buffer is what was read after the last packet.
LEMMA KeepRest ==
  ASSUME NEW ps, NEW v, NEW tl, NEW all, NEW at, Stream(ps, v, tl, all, at),
         NEW r, NEW buf, Window(ps, all, at, r, buf), NEW n, OnlyPackets(ps, v, at, r, buf, n),
         NEW kept \in Seq(Octet), Left(kept, buf, Consumed(buf))
  PROVE  /\ Window(ps, all, at, r + n, kept) /\ FrameLength(kept, 0) = 0
         /\ at[r + n] + Len(kept) = at[r] + Len(buf)
<1> DEFINE c == Consumed(buf)
<1>1. /\ buf \in Seq(Octet) /\ Len(buf) \in Nat /\ all \in Seq(Octet) /\ Len(ps) \in Nat
      /\ r \in 0..Len(ps) /\ at \in [0..Len(ps) -> Nat] /\ Holds(all, at[r], buf)
  BY DEF Window, Stream
<1>2. /\ n \in Nat /\ r + n <= Len(ps) /\ c \in 0..Len(buf)
      /\ at[r + n] = at[r] + c /\ FrameLength(buf, c) = 0
  BY DEF OnlyPackets
<1> HIDE DEF c
<1>3. r + n \in 0..Len(ps) /\ at[r] \in Nat
  <2>1. at[r] \in Nat
    BY <1>1
  <2>2. r \in Nat /\ n \in Nat /\ Len(ps) \in Nat /\ r + n <= Len(ps)
    BY <1>1, <1>2
  <2> QED BY <2>1, <2>2
<1>4. Left(kept, buf, c)
  BY DEF c
<1>5. FrameLength(kept, 0) = 0
  BY <1>1, <1>2, <1>4, FrameShift
<1>6. Len(kept) = Len(buf) - c /\ \A i \in 1..Len(kept) : kept[i] = buf[c + i]
  BY <1>4 DEF Left
<1>7. at[r + n] + Len(kept) = at[r] + Len(buf)
  <2>1. Len(kept) = Len(buf) - c
    BY <1>6
  <2>2. c \in Nat /\ Len(buf) \in Nat
    BY <1>1, <1>2
  <2> QED BY <1>2, <1>3, <2>1, <2>2
<1>8. ASSUME NEW i \in 1..Len(kept) PROVE all[at[r + n] + i] = kept[i]
  <2>1. c + i \in 1..Len(buf)
    <3>1. c \in Nat /\ c <= Len(buf) /\ Len(buf) \in Nat /\ Len(kept) = Len(buf) - c
      BY <1>1, <1>2, <1>6
    <3> QED BY <3>1
  <2>2. all[at[r] + (c + i)] = buf[c + i]
    BY <1>1, <2>1 DEF Holds
  <2>3. at[r] + (c + i) = at[r + n] + i
    BY <1>2, <1>3, <1>1
  <2> QED BY <1>6, <2>2, <2>3
<1>9. at[r + n] + Len(kept) <= Len(all)
  <2>1. at[r] + Len(buf) <= Len(all)
    BY <1>1 DEF Holds
  <2> QED BY <1>7, <2>1
<1>10. Holds(all, at[r + n], kept)
  BY <1>8, <1>9 DEF Holds
<1> QED BY <1>3, <1>4, <1>5, <1>7, <1>10 DEF Window

\* The n packets after packet r are received after the first r.
AreNext(more, ps, r, n) == more = [i \in 1..n |-> ps[r + i]]

\* Packets received after packets received.
LEMMA ReceiveMore ==
  ASSUME NEW S, NEW ps \in Seq(S), NEW r \in 0..Len(ps), NEW got, FirstOf(got, ps, r),
         NEW n \in Nat, r + n <= Len(ps), NEW more, AreNext(more, ps, r, n)
  PROVE  FirstOf(got \o more, ps, r + n) /\ Len(got \o more) = r + n
<1> DEFINE a == got \o more
           b == SubSeq(ps, 1, r + n)
<1>1. r \in Nat /\ r <= Len(ps) /\ r + n \in 0..Len(ps) /\ Len(ps) \in Nat
  OBVIOUS
<1>2. got \in Seq(S) /\ Len(got) = r
  BY <1>1, SeqSplit DEF FirstOf
<1>3. ASSUME NEW i \in 1..r PROVE got[i] = ps[i]
  BY <1>1, <1>3 DEF FirstOf
<1>4. more \in Seq(S) /\ Len(more) = n
  <2>1. \A i \in 1..n : ps[r + i] \in S
    BY <1>1
  <2> QED BY <2>1 DEF AreNext
<1>5. b \in Seq(S) /\ Len(b) = r + n
  BY <1>1, SeqSplit
<1>6. ASSUME NEW i \in 1..(r + n) PROVE b[i] = ps[i]
  BY <1>1, <1>6
<1>7. /\ a \in Seq(S) /\ Len(a) = r + n
      /\ \A i \in 1..r : a[i] = got[i]
      /\ \A i \in 1..n : a[r + i] = more[i]
  <2>1. /\ a \in Seq(S) /\ Len(a) = Len(got) + Len(more)
        /\ \A i \in 1..Len(got) : a[i] = got[i]
        /\ \A i \in 1..Len(more) : a[Len(got) + i] = more[i]
    <3>1. got \in Seq(S) /\ more \in Seq(S)
      BY <1>2, <1>4
    <3> QED BY <3>1, ConcatAt
  <2> HIDE DEF a
  <2> QED BY <1>2, <1>4, <2>1
<1> HIDE DEF a, b
<1>8. ASSUME NEW i \in 1..(r + n) PROVE a[i] = b[i]
  <2>1. CASE i <= r
    <3>1. i \in 1..r
      BY <1>1, <2>1
    <3> QED BY <1>3, <1>6, <1>7, <3>1
  <2>2. CASE ~(i <= r)
    <3>1. PICK j \in 1..n : i = r + j
      <4>1. i - r \in 1..n /\ i = r + (i - r)
        BY <1>1, <2>2
      <4> QED BY <4>1
    <3>2. more[j] = ps[r + j]
      BY DEF AreNext
    <3> QED BY <1>6, <1>7, <3>1, <3>2
  <2> QED BY <2>1, <2>2
<1>9. a = b
  BY <1>5, <1>7, <1>8
<1> QED BY <1>7, <1>9 DEF a, b, FirstOf

\* The next packet is not whole in a buffer without a frame, and some of it is
\* still on the wire.
LEMMA NextPacket ==
  ASSUME NEW ps, NEW v, NEW tl, NEW all, NEW at, Stream(ps, v, tl, all, at),
         NEW r, NEW buf, NEW rest, Reading(ps, all, at, r, buf, rest), rest \in Seq(Octet),
         FrameLength(buf, 0) = 0, r < Len(ps)
  PROVE  Len(buf) < Len(Encode(ps[r + 1], v)) /\ Len(rest) > 0
<1> DEFINE i == r + 1
           e == Encode(ps[i], v)
           x == at[r]
           k == Len(buf)
<1>1. /\ buf \in Seq(Octet) /\ k \in Nat /\ all \in Seq(Octet) /\ Len(all) \in Nat
      /\ r \in Nat /\ Len(ps) \in Nat /\ r \in 0..Len(ps) /\ at \in [0..Len(ps) -> Nat]
  BY DEF Reading, Window, Stream
<1>2. i \in 1..Len(ps) /\ i - 1 = r /\ x \in Nat /\ Len(rest) \in Nat
  BY <1>1
<1>3. x + k + Len(rest) = Len(all)
  BY DEF Reading
<1> HIDE DEF i, e, x, k
<1>4. PICK z \in Nat : z = 0
  OBVIOUS
<1>5. z \in 0..Len(buf) /\ at[i - 1] = at[r] + z
  BY <1>1, <1>2, <1>4 DEF x, k
<1>6. Window(ps, all, at, r, buf)
  BY DEF Reading
<1>7. /\ Len(e) \in Nat /\ at[i] = at[r] + z + Len(e)
      /\ FrameLength(buf, z) = IF Len(buf) - z >= Len(e) THEN Len(e) ELSE 0
      /\ Len(e) >= 2
  BY <1>2, <1>5, <1>6, PacketStarts DEF e
<1>8. k < Len(e)
  <2>1. ~(k - z >= Len(e))
    BY <1>4, <1>7 DEF k
  <2> QED BY <1>1, <1>4, <1>7, <2>1
<1>9. x + Len(e) <= Len(all)
  <2>1. Holds(all, at[i - 1], e)
    BY <1>2 DEF Stream, Stands, e
  <2>2. at[i - 1] + Len(e) <= Len(all)
    BY <2>1 DEF Holds
  <2> QED BY <1>2, <2>2 DEF x
<1>10. Len(rest) > 0
  BY <1>1, <1>2, <1>3, <1>7, <1>8, <1>9
<1> QED BY <1>8, <1>10 DEF e, i, k

\* After the last packet the buffer has only octets of the tail.
LEMMA NoPacketLeft ==
  ASSUME NEW ps, NEW v, NEW tl, NEW all, NEW at, Stream(ps, v, tl, all, at),
         NEW buf, NEW rest, Reading(ps, all, at, Len(ps), buf, rest), rest \in Seq(Octet),
         Len(buf) > 0
  PROVE  tl # <<>>
<1> DEFINE x == at[Len(ps)]
<1>1. /\ Len(buf) \in Nat /\ Len(rest) \in Nat /\ x \in Nat /\ tl \in Seq(Octet)
      /\ Len(tl) \in Nat
  <2>1. /\ buf \in Seq(Octet) /\ tl \in Seq(Octet) /\ at \in [0..Len(ps) -> Nat]
        /\ Len(ps) \in 0..Len(ps)
    BY DEF Reading, Window, Stream
  <2>2. x \in Nat
    <3> DEFINE n == Len(ps)
    <3>1. n \in 0..n /\ at \in [0..n -> Nat]
      BY <2>1
    <3> HIDE DEF n
    <3>2. at[n] \in Nat
      BY <3>1
    <3> QED BY <3>2 DEF n
  <2> HIDE DEF x
  <2> QED BY <2>1, <2>2
<1>2. x + Len(buf) + Len(rest) = Len(all) /\ Len(all) = x + Len(tl)
  BY DEF Reading, Stream
<1> HIDE DEF x
<1>3. Len(tl) > 0
  BY <1>1, <1>2
<1> QED BY <1>3

\* Of a packet that begins at at[j], x octets of the stream have from two to all but
\* one of those before its body.
Within(ps, v, at, j, x) == x - at[j] \in 2..Len(VarInt(Len(Body(ps[j + 1], v))))

InLength(ps, v, at, x) == \E j \in 0..(Len(ps) - 1) : Within(ps, v, at, j, x)

\* A packet has an octet and its length field before its body.
LEMMA BeginsAt ==
  ASSUME NEW ps, NEW v, NEW tl, NEW all, NEW at, Stream(ps, v, tl, all, at),
         NEW j \in 0..(Len(ps) - 1), NEW d, d = Len(VarInt(Len(Body(ps[j + 1], v))))
  PROVE  /\ at[j] \in Nat /\ at[j + 1] \in Nat /\ d \in 1..4 /\ Len(ps) \in Nat
         /\ d = Digits(Len(Body(ps[j + 1], v))) /\ at[j + 1] >= at[j] + 1 + d
<1> DEFINE i == j + 1
           e == Encode(ps[i], v)
           n == Len(Body(ps[i], v))
<1>1. Len(ps) \in Nat /\ i \in 1..Len(ps) /\ i \in 0..Len(ps) /\ j \in 0..Len(ps) /\ i - 1 = j
  BY DEF Stream
<1>2. at \in [0..Len(ps) -> Nat] /\ ps \in Seq(Packets(v)) /\ n \in Lengths
  BY <1>1 DEF Stream
<1>3. ps[i] \in Packets(v) /\ at[j] \in Nat /\ at[i] \in Nat
  BY <1>1, <1>2
<1>4. Len(e) = 1 + Digits(n) + n
  BY <1>2, <1>3, EncodeIs
<1>5. Len(VarInt(n)) = Digits(n) /\ Digits(n) \in 1..4 /\ n \in Nat
  <2>1. n \in Nat
    BY <1>2 DEF Lengths
  <2> QED BY <1>2, <2>1, VarIntIs
<1>6. at[i] = at[i - 1] + Len(e)
  BY <1>1 DEF Stream, Stands
<1> HIDE DEF e, n
<1>7. d = Digits(n)
  BY <1>5 DEF n, i
<1>8. at[i] >= at[j] + 1 + d
  BY <1>1, <1>3, <1>4, <1>5, <1>6, <1>7
<1> QED BY <1>1, <1>3, <1>5, <1>7, <1>8 DEF n, i

\* A packet begins after the ones before it.
LEMMA BeginInOrder ==
  ASSUME NEW ps, NEW v, NEW tl, NEW all, NEW at, Stream(ps, v, tl, all, at),
         NEW i \in 0..Len(ps), NEW k \in 0..Len(ps), i <= k
  PROVE  at[i] <= at[k]
<1> DEFINE T == {m \in Nat : i + m <= Len(ps) => at[i] <= at[i + m]}
<1>1. at \in [0..Len(ps) -> Nat] /\ Len(ps) \in Nat /\ i \in Nat /\ k \in Nat
  BY DEF Stream
<1>2. 0 \in T
  <2>1. at[i] \in Nat /\ i + 0 = i
    BY <1>1
  <2> QED BY <2>1
<1>3. ASSUME NEW m \in Nat, m \in T PROVE m + 1 \in T
  <2> SUFFICES ASSUME i + (m + 1) <= Len(ps) PROVE at[i] <= at[i + (m + 1)]
    OBVIOUS
  <2> DEFINE j == i + m
  <2>1. j \in 0..(Len(ps) - 1) /\ j + 1 = i + (m + 1) /\ j <= Len(ps)
    BY <1>1
  <2>2. at[i] <= at[j]
    BY <1>3, <2>1
  <2> HIDE DEF j
  <2>3. at[j] <= at[j + 1] /\ at[j] \in Nat /\ at[j + 1] \in Nat
    <3> DEFINE d == Len(VarInt(Len(Body(ps[j + 1], v))))
    <3>1. at[j] \in Nat /\ at[j + 1] \in Nat /\ d \in 1..4 /\ at[j + 1] >= at[j] + 1 + d
      BY <2>1, BeginsAt
    <3> HIDE DEF d
    <3> QED BY <3>1
  <2>4. at[i] \in Nat
    BY <1>1
  <2> QED BY <2>1, <2>2, <2>3, <2>4
<1>4. Nat \subseteq T
  <2> HIDE DEF T
  <2> QED BY <1>2, <1>3, NatInduct
<1>5. k - i \in Nat /\ i + (k - i) = k
  BY <1>1
<1> QED BY <1>4, <1>5

\* Only the packet of which x octets of the stream have a part is cut there.
LEMMA WithinOne ==
  ASSUME NEW ps, NEW v, NEW tl, NEW all, NEW at, Stream(ps, v, tl, all, at),
         NEW q \in 0..Len(ps), NEW x \in Nat, at[q] <= x, q < Len(ps) => x < at[q + 1],
         q = Len(ps) => x = at[q], NEW j \in 0..(Len(ps) - 1), Within(ps, v, at, j, x)
  PROVE  j = q
<1> DEFINE d == Len(VarInt(Len(Body(ps[j + 1], v))))
<1>1. /\ at[j] \in Nat /\ at[j + 1] \in Nat /\ d \in 1..4 /\ Len(ps) \in Nat
      /\ at[j + 1] >= at[j] + 1 + d
  BY BeginsAt
<1>2. x - at[j] \in 2..d
  BY DEF Within
<1>3. at \in [0..Len(ps) -> Nat]
  BY DEF Stream
<1> HIDE DEF d
<1>4. CASE j < q
  <2>1. j + 1 \in 0..Len(ps) /\ j + 1 <= q
    BY <1>1, <1>4
  <2>2. at[j + 1] <= at[q] /\ at[q] \in Nat
    BY <1>3, <2>1, BeginInOrder
  <2>3. x >= at[j] + 1 + d
    BY <1>1, <2>2
  <2>4. x - at[j] <= d
    BY <1>1, <1>2
  <2> QED BY <1>1, <2>3, <2>4
<1>5. CASE j > q
  <2>1. q + 1 \in 0..Len(ps) /\ j \in 0..Len(ps) /\ q + 1 <= j /\ q < Len(ps)
    BY <1>1, <1>5
  <2>2. at[q + 1] <= at[j] /\ at[q + 1] \in Nat
    BY <1>3, <2>1, BeginInOrder
  <2>3. x < at[q + 1]
    BY <2>1
  <2> QED BY <1>1, <1>2, <2>2, <2>3
<1> QED BY <1>1, <1>4, <1>5

\* Where there are only packets, the loop hangs if and only if what was read ends in
\* the length field of one.
LEMMA StuckIs ==
  ASSUME NEW ps, NEW v, NEW tl, NEW all, NEW at, Stream(ps, v, tl, all, at), tl = <<>>,
         NEW r, NEW buf, Window(ps, all, at, r, buf), NEW n, OnlyPackets(ps, v, at, r, buf, n),
         NEW x, x = at[r] + Len(buf)
  PROVE  IsStuck(buf) <=> InLength(ps, v, at, x)
<1> DEFINE c == Consumed(buf)
           q == r + n
           k == Len(buf) - c
<1>1. /\ buf \in Seq(Octet) /\ Len(buf) \in Nat /\ r \in 0..Len(ps) /\ Len(ps) \in Nat
      /\ at \in [0..Len(ps) -> Nat] /\ all \in Seq(Octet) /\ Holds(all, at[r], buf)
  BY DEF Window, Stream
<1>2. n \in Nat /\ q <= Len(ps) /\ c \in 0..Len(buf) /\ at[q] = at[r] + c /\ FrameLength(buf, c) = 0
  BY DEF OnlyPackets
<1> HIDE DEF c
<1>3. q \in 0..Len(ps) /\ at[r] \in Nat /\ at[q] \in Nat
  BY <1>1, <1>2
<1>4. k \in Nat /\ x \in Nat /\ x = at[q] + k
  BY <1>1, <1>2, <1>3
<1>5. IsStuck(buf) <=> k >= 2 /\ VarIntAt(buf, c + 1).err # "none"
  BY DEF IsStuck, c
<1>6. Len(all) = at[Len(ps)] /\ x <= Len(all)
  <2>1. Len(all) = at[Len(ps)] + Len(tl) /\ Len(tl) = 0
    BY DEF Stream
  <2>2. Len(ps) \in 0..Len(ps)
    BY <1>1
  <2>3. at[Len(ps)] \in Nat
    BY <1>1, <2>2
  <2>4. at[r] + Len(buf) <= Len(all)
    BY <1>1 DEF Holds
  <2> QED BY <2>1, <2>3, <2>4
<1> HIDE DEF q, k
<1>7. CASE q = Len(ps)
  <2>1. x = at[q] /\ k = 0
    BY <1>3, <1>4, <1>6, <1>7
  <2>2. ~IsStuck(buf)
    BY <1>5, <2>1
  <2>3. ASSUME NEW j \in 0..(Len(ps) - 1), Within(ps, v, at, j, x) PROVE FALSE
    <3>1. at[q] <= x /\ ~(q < Len(ps))
      BY <1>1, <1>3, <1>7, <2>1
    <3>2. j = q
      BY <1>3, <1>4, <2>1, <2>3, <3>1, WithinOne
    <3> QED BY <1>1, <1>7, <3>2
  <2> QED BY <2>2, <2>3 DEF InLength
<1>8. CASE q < Len(ps)
  <2> DEFINE i == q + 1
             e == Encode(ps[i], v)
             d == Len(VarInt(Len(Body(ps[q + 1], v))))
             w == Len(Body(ps[i], v))
             len == VarIntAt(buf, c + 1)
  <2>1. i \in 1..Len(ps) /\ i - 1 = q /\ q \in 0..(Len(ps) - 1)
    BY <1>1, <1>3, <1>8
  <2>2. d \in 1..4 /\ d = Digits(w) /\ at[q + 1] \in Nat
    BY <2>1, BeginsAt
  <2>3. ps[i] \in Packets(v) /\ w \in Lengths
    <3>1. ps \in Seq(Packets(v)) /\ \A j \in 1..Len(ps) : Len(Body(ps[j], v)) \in Lengths
      BY DEF Stream
    <3> QED BY <2>1, <3>1
  <2>4. at[i - 1] = at[r] + c
    BY <1>2, <2>1 DEF q
  <2> HIDE DEF i, e, d, w, len
  <2>5. /\ Len(e) \in Nat /\ Len(e) >= 2 /\ at[i] = at[r] + c + Len(e) /\ Starts(buf, c, e)
        /\ FrameLength(buf, c) = IF Len(buf) - c >= Len(e) THEN Len(e) ELSE 0
    BY <1>2, <2>1, <2>4, PacketStarts DEF e
  <2>6. k < Len(e) /\ x < at[q + 1]
    <3>1. ~(k >= Len(e))
      BY <1>2, <2>5 DEF k
    <3>2. at[q + 1] = at[q] + Len(e)
      BY <1>2, <2>5 DEF i
    <3> QED BY <1>3, <1>4, <2>5, <3>1, <3>2
  <2>7. c < Len(buf) =>
          /\ c + 1 + d <= Len(buf) => len.err = "none"
          /\ c + 1 + d > Len(buf) => len.err = "incomplete"
    <3> SUFFICES ASSUME c < Len(buf)
                 PROVE  /\ c + 1 + d <= Len(buf) => len.err = "none"
                        /\ c + 1 + d > Len(buf) => len.err = "incomplete"
      OBVIOUS
    <3>1. Starts(buf, c + 1, VarInt(w))
      <4>1. PICK l : IsPacket(ps[i], v, l)
        BY <2>3, PacketIs DEF w
      <4>2. FirstOctet(ps[i]) \in Octet /\ Body(ps[i], v) \in Seq(Octet)
            /\ e = Framed(FirstOctet(ps[i]), Body(ps[i], v))
        BY <4>1 DEF IsPacket, Encode, e
      <4>3. c \in Nat
        BY <1>2
      <4> QED BY <1>1, <2>3, <2>5, <4>2, <4>3, FramedIs DEF w
    <3>2. c + 1 \in Nat /\ c + 1 <= Len(buf)
      BY <1>1, <1>2
    <3>3. /\ (c + 1) + Digits(w) <= Len(buf) =>
               len = [err |-> "none", next |-> (c + 1) + Digits(w), val |-> w]
          /\ (c + 1) + Digits(w) > Len(buf) =>
               len = [err |-> "incomplete", next |-> c + 1, val |-> 0]
      BY <1>1, <2>3, <3>1, <3>2, VarIntRead DEF len
    <3> QED BY <2>2, <3>3
  <2>8. IsStuck(buf) <=> k \in 2..d
    <3>1. k >= 2 => (len.err # "none" <=> k <= d)
      <4> SUFFICES ASSUME k >= 2 PROVE len.err # "none" <=> k <= d
        OBVIOUS
      <4>1. c < Len(buf) /\ (c + 1 + d > Len(buf) <=> k <= d) /\ (c + 1 + d <= Len(buf) <=> ~(k <= d))
        BY <1>1, <1>2, <1>4, <2>2 DEF k
      <4> QED BY <2>7, <4>1
    <3>2. IsStuck(buf) <=> k >= 2 /\ len.err # "none"
      BY <1>5 DEF len
    <3> QED BY <1>4, <2>2, <3>1, <3>2
  <2>9. Within(ps, v, at, q, x) <=> k \in 2..d
    <3>1. x - at[q] = k
      BY <1>3, <1>4
    <3> QED BY <3>1 DEF Within, d
  <2>10. ASSUME NEW j \in 0..(Len(ps) - 1), Within(ps, v, at, j, x) PROVE j = q
    <3>1. at[q] <= x /\ ~(q = Len(ps))
      BY <1>1, <1>3, <1>4, <1>8
    <3> QED BY <1>3, <1>4, <2>6, <2>10, <3>1, WithinOne
  <2>11. InLength(ps, v, at, x) <=> Within(ps, v, at, q, x)
    BY <2>1, <2>10 DEF InLength
  <2> QED BY <2>8, <2>9, <2>11
<1> QED BY <1>1, <1>3, <1>7, <1>8

\* Where a packet begins, as EndsInLength counts it.
EndsIn(ps, v, x) ==
  \E j \in 0..(Len(ps) - 1) :
    x - Len(Octets(SubSeq(ps, 1, j), v)) \in 2..Len(VarInt(Len(Body(ps[j + 1], v))))

LEMMA BeforeIs ==
  ASSUME NEW ps, NEW v, NEW tl, NEW all, NEW at, Stream(ps, v, tl, all, at), NEW j \in 0..Len(ps)
  PROVE  Len(Octets(SubSeq(ps, 1, j), v)) = at[j]
<1> DEFINE qs == SubSeq(ps, 1, j)
           encs == [i \in DOMAIN qs |-> Encode(qs[i], v)]
<1>1. /\ ps \in Seq(Packets(v)) /\ Len(ps) \in Nat /\ j \in Nat /\ j <= Len(ps)
      /\ at \in [0..Len(ps) -> Nat] /\ at[0] = 0
      /\ \A i \in 1..Len(ps) : ps[i] \in Packets(v) /\ Len(Body(ps[i], v)) \in Lengths
  BY DEF Stream
<1>2. qs \in Seq(Packets(v)) /\ Len(qs) = j /\ DOMAIN qs = 1..j
  BY <1>1, SeqSplit
<1>3. ASSUME NEW i \in 1..j PROVE qs[i] = ps[i] /\ i \in 1..Len(ps)
  BY <1>1, <1>3
<1> HIDE DEF qs
<1>4. ASSUME NEW i \in 1..j PROVE encs[i] = Encode(ps[i], v) /\ encs[i] \in Seq(Octet)
  <2>1. encs[i] = Encode(ps[i], v)
    BY <1>2, <1>3
  <2> HIDE DEF encs
  <2> QED BY <1>1, <1>3, <2>1, EncodeIs
<1>5. encs \in Seq(Seq(Octet)) /\ Len(encs) = j
  <2>1. encs = [i \in 1..j |-> encs[i]]
    BY <1>2
  <2> HIDE DEF encs
  <2>2. \A i \in 1..j : encs[i] \in Seq(Octet)
    BY <1>4
  <2> QED BY <1>1, <2>1, <2>2, ValuesSeq
<1> HIDE DEF encs
<1>6. PICK p \in [0..Len(encs) -> Nat] :
        /\ p[0] = 0 /\ p[Len(encs)] = Len(FlattenSeq(encs))
        /\ \A i \in 1..Len(encs) : p[i] = p[i - 1] + Len(encs[i])
  BY <1>5, FlattenParts
<1> DEFINE T == {m \in Nat : m <= j => p[m] = at[m]}
<1>7. 0 \in T
  BY <1>1, <1>6
<1>8. ASSUME NEW m \in Nat, m \in T PROVE m + 1 \in T
  <2> SUFFICES ASSUME m + 1 <= j PROVE p[m + 1] = at[m + 1]
    OBVIOUS
  <2>1. m + 1 \in 1..j /\ m + 1 \in 1..Len(ps) /\ (m + 1) - 1 = m /\ m <= j
    BY <1>1
  <2>2. p[m + 1] = p[m] + Len(encs[m + 1])
    BY <1>5, <1>6, <2>1
  <2>3. at[m + 1] = at[m] + Len(Encode(ps[m + 1], v))
    BY <2>1 DEF Stream, Stands
  <2> QED BY <1>4, <1>8, <2>1, <2>2, <2>3
<1>9. Nat \subseteq T
  <2> HIDE DEF T
  <2> QED BY <1>7, <1>8, NatInduct
<1>10. p[j] = at[j]
  BY <1>1, <1>9
<1>11. Octets(qs, v) = FlattenSeq(encs)
  BY DEF Octets, encs
<1> QED BY <1>5, <1>6, <1>10, <1>11 DEF qs

LEMMA EndsIs ==
  ASSUME NEW ps, NEW v, NEW tl, NEW all, NEW at, Stream(ps, v, tl, all, at), NEW x
  PROVE  EndsIn(ps, v, x) <=> InLength(ps, v, at, x)
<1>1. Len(ps) \in Nat
  BY DEF Stream
<1>2. ASSUME NEW j \in 0..(Len(ps) - 1) PROVE Len(Octets(SubSeq(ps, 1, j), v)) = at[j]
  <2>1. j \in 0..Len(ps)
    BY <1>1
  <2> QED BY <2>1, BeforeIs
<1> QED BY <1>2 DEF EndsIn, InLength, Within

\* At the start of the stream nothing ends.
LEMMA EndsNot ==
  ASSUME NEW ps, NEW v, NEW tl, NEW all, NEW at, Stream(ps, v, tl, all, at)
  PROVE  ~EndsIn(ps, v, 0)
<1> SUFFICES ASSUME NEW j \in 0..(Len(ps) - 1), Within(ps, v, at, j, 0) PROVE FALSE
  BY EndsIs DEF InLength
<1>1. at[j] \in Nat
  BY BeginsAt
<1> QED BY <1>1 DEF Within

\* WireSpec: what the broker's stream, the buffer and the packets received have
\* to do with each other in every state.
Whole == Octets(packets, version) \o tail

Sent == version \in DOMAIN Traffic /\ packets \in Traffic[version] /\ tail \in Tails

Located(at) ==
  /\ Stream(packets, version, tail, Whole, at)
  /\ link = "open" => /\ Reading(packets, Whole, at, Len(received), rx, wire)
                      /\ FrameLength(rx, 0) = 0

\* The two parts of ClosedForCause.
ClosedWell == link = "closed" => \/ tail # <<>>
                                 \/ Len(Encode(packets[Len(received) + 1], version)) > RxCap
StuckWell == tail = <<>> => (link = "stuck" <=> EndsIn(packets, version, Len(Whole) - Len(wire)))

WireInv ==
  /\ Sent
  /\ received = SubSeq(packets, 1, Len(received)) /\ Len(received) \in 0..Len(packets)
  /\ Rest(wire, Whole)
  /\ \E at : Located(at)
  /\ ClosedWell /\ StuckWell

\* At the start all is on the wire.
LEMMA WireInitHolds == WireInit => WireInv
<1> SUFFICES ASSUME WireInit PROVE WireInv
  OBVIOUS
<1>1. /\ Sent /\ wire = Whole /\ rx = <<>> /\ received = <<>> /\ link = "open"
  BY DEF WireInit, Sent, Whole
<1>2. PICK at : Stream(packets, version, tail, Whole, at)
  <2>1. \E at : Stream(packets, version, tail, Octets(packets, version) \o tail, at)
    BY <1>1, StreamIs DEF Sent
  <2> QED BY <2>1 DEF Whole
<1>3. /\ Whole \in Seq(Octet) /\ Len(Whole) \in Nat /\ Len(packets) \in Nat
      /\ at[0] = 0 /\ packets \in Seq(Packets(version))
  BY <1>2 DEF Stream
<1>4. Len(received) = 0 /\ received = SubSeq(packets, 1, Len(received)) /\ Len(received) \in 0..Len(packets)
  <2>1. Len(received) = 0 /\ SubSeq(packets, 1, 0) = <<>>
    BY <1>1, <1>3
  <2> QED BY <1>1, <1>3, <2>1
<1>5. Rest(wire, Whole)
  <2>1. ASSUME NEW i \in 1..Len(wire) PROVE (Len(Whole) - Len(wire)) + i = i
    BY <1>1, <1>3
  <2> QED BY <1>1, <1>3, <2>1 DEF Rest
<1>6. Reading(packets, Whole, at, Len(received), rx, wire)
  <2> HIDE DEF Whole
  <2>1. rx \in Seq(Octet) /\ Len(rx) = 0
    BY <1>1
  <2>2. Holds(Whole, at[Len(received)], rx)
    <3>1. at[Len(received)] + Len(rx) <= Len(Whole)
      BY <1>3, <1>4, <2>1
    <3>2. 1..Len(rx) = {}
      BY <2>1
    <3> QED BY <3>1, <3>2 DEF Holds
  <2>3. Window(packets, Whole, at, Len(received), rx)
    BY <1>4, <2>1, <2>2 DEF Window
  <2>4. at[Len(received)] + Len(rx) + Len(wire) = Len(Whole)
    BY <1>1, <1>3, <1>4, <2>1
  <2> QED BY <2>3, <2>4 DEF Reading
<1>7. FrameLength(rx, 0) = 0
  <2>1. Len(rx) - 0 < 2
    BY <1>1
  <2> QED BY <2>1 DEF FrameLength
<1>8. Located(at)
  BY <1>2, <1>6, <1>7 DEF Located
<1>9. ClosedWell
  BY <1>1 DEF ClosedWell
<1>10. StuckWell
  <2>1. Len(Whole) - Len(wire) = 0
    BY <1>1, <1>3
  <2>2. ~EndsIn(packets, version, 0)
    BY <1>2, EndsNot
  <2> QED BY <1>1, <2>1, <2>2 DEF StuckWell
<1> QED BY <1>1, <1>4, <1>5, <1>8, <1>9, <1>10 DEF WireInv

\* What a read decodes.
Results(buf, v) == [i \in DOMAIN Frames(buf) |-> Decode(Frames(buf)[i], v)]
Fails(results) == \E i \in DOMAIN results : results[i].err # "none"
PacketsOf(results) == [i \in DOMAIN results |-> results[i].packet]

\* Frames that are the next packets are received.
LEMMA ReadPackets ==
  ASSUME NEW v, NEW ps \in Seq(Packets(v)), NEW at, NEW r \in 0..Len(ps), NEW buf, NEW n,
         OnlyPackets(ps, v, at, r, buf, n), NEW got, FirstOf(got, ps, r)
  PROVE  /\ ~Fails(Results(buf, v))
         /\ FirstOf(got \o PacketsOf(Results(buf, v)), ps, r + n)
         /\ Len(got \o PacketsOf(Results(buf, v))) = r + n
<1> DEFINE results == Results(buf, v)
           more == PacketsOf(results)
<1>1. n \in Nat /\ r + n <= Len(ps)
  BY DEF OnlyPackets
<1>2. DOMAIN results = 1..n
  BY DEF OnlyPackets, Results
<1>3. ASSUME NEW i \in 1..n PROVE results[i].err = "none" /\ results[i].packet = ps[r + i]
  <2>1. results[i] = Decoded(ps[r + i])
    BY <1>2 DEF OnlyPackets, Results
  <2> QED BY <2>1 DEF Decoded
<1>4. AreNext(more, ps, r, n)
  <2> HIDE DEF results
  <2>1. \A i \in 1..n : results[i].packet = ps[r + i]
    BY <1>3
  <2> QED BY <1>2, <2>1 DEF PacketsOf, AreNext
<1> HIDE DEF more, results
<1>5. FirstOf(got \o more, ps, r + n) /\ Len(got \o more) = r + n
  BY <1>1, <1>4, ReceiveMore
<1>6. ~Fails(results)
  BY <1>2, <1>3 DEF Fails
<1> QED BY <1>5, <1>6 DEF more, results

\* A read: frames decoded, or the connection given up.
LEMMA ReadOctetsKeeps ==
  ASSUME WireInv, NEW n \in ReadSizes, ReadOctets(n)
  PROVE  WireInv'
<1> DEFINE ps == packets
           v == version
           r == Len(received)
           more == SubSeq(wire, 1, n)
           buf == rx \o more
           fails == Fails(Results(buf, v))
           m == Len(FrameStarts(buf)) - 1
<1>1. /\ link = "open" /\ n <= Len(wire) /\ wire' = SubSeq(wire, n + 1, Len(wire))
      /\ \/ /\ ~fails /\ ~IsStuck(buf)
            /\ received' = received \o PacketsOf(Results(buf, v))
            /\ rx' = SubSeq(buf, Consumed(buf) + 1, Len(buf)) /\ link' = link
         \/ fails /\ link' = "closed" /\ rx' = rx /\ received' = received
         \/ ~fails /\ IsStuck(buf) /\ link' = "stuck" /\ rx' = rx /\ received' = received
      /\ version' = v /\ packets' = ps /\ tail' = tail
  BY DEF ReadOctets, Results, Fails, PacketsOf
<1> HIDE DEF fails
<1>2. /\ Sent /\ received = SubSeq(ps, 1, r) /\ r \in 0..Len(ps) /\ Rest(wire, Whole)
  BY DEF WireInv
<1>3. PICK at : /\ Stream(ps, v, tail, Whole, at) /\ Reading(ps, Whole, at, r, rx, wire)
                /\ FrameLength(rx, 0) = 0
  BY <1>1 DEF WireInv, Located
<1>4. /\ Whole \in Seq(Octet) /\ ps \in Seq(Packets(v)) /\ n \in 0..Len(wire)
      /\ Len(wire) \in Nat
  <2>1. wire \in Seq(Octet)
    BY <1>2 DEF Rest
  <2>2. n \in Nat
    BY FramingAssumption
  <2> QED BY <1>1, <1>3, <2>1, <2>2 DEF Stream
<1>5. Whole' = Whole /\ Sent'
  BY <1>1, <1>2 DEF Whole, Sent
<1>6. Rest(wire', Whole) /\ Len(wire') = Len(wire) - n
  BY <1>1, <1>2, <1>4, Taken
<1> HIDE DEF more, buf
<1>7. Window(ps, Whole, at, r, buf) /\ Len(buf) = Len(rx) + n
  <2> HIDE DEF ps, v, r, m
  <2>1. FirstOf(more, wire, n)
    BY DEF more, FirstOf
  <2>2. /\ Stream(ps, v, tail, Whole, at) /\ Reading(ps, Whole, at, r, rx, wire)
        /\ Rest(wire, Whole) /\ n \in 0..Len(wire)
    BY <1>2, <1>3, <1>4
  <2>3. Window(ps, Whole, at, r, rx \o more) /\ Len(rx \o more) = Len(rx) + n
    BY <2>1, <2>2, ReadMore
  <2> QED BY <2>3 DEF buf
<1>8. m \in Nat
  <2>1. buf \in Seq(Octet)
    BY <1>7 DEF Window
  <2>2. Stops(FrameStarts(buf), buf, 0)
    BY <2>1, StopsAre
  <2>3. Len(FrameStarts(buf)) \in Nat /\ Len(FrameStarts(buf)) >= 1
    BY <2>2 DEF Stops
  <2> QED BY <2>3
<1>9. Located(at)' <=> /\ Stream(ps, v, tail, Whole, at)
                       /\ link' = "open" => /\ Reading(ps, Whole, at, Len(received'), rx', wire')
                                            /\ FrameLength(rx', 0) = 0
  BY <1>1, <1>5 DEF Located
<1>10. received' = received => /\ received' = SubSeq(packets', 1, Len(received'))
                               /\ Len(received') \in 0..Len(packets')
  BY <1>1, <1>2
<1>14. /\ Len(Whole) - Len(wire') = at[r] + Len(buf)
       /\ StuckWell' <=> (tail = <<>> => (link' = "stuck" <=> EndsIn(ps, v, Len(Whole) - Len(wire'))))
  <2>1. StuckWell' <=> (tail = <<>> => (link' = "stuck" <=> EndsIn(ps, v, Len(Whole) - Len(wire'))))
    BY <1>1, <1>5 DEF StuckWell
  <2> DEFINE x == at[r]
  <2>2. /\ rx \in Seq(Octet) /\ at \in [0..Len(ps) -> Nat] /\ x + Len(rx) + Len(wire) = Len(Whole)
    BY <1>3 DEF Reading, Window, Stream
  <2>3. x \in Nat /\ Len(rx) \in Nat /\ n \in Nat /\ Len(Whole) \in Nat
    BY <1>2, <1>4, <2>2
  <2> HIDE DEF x
  <2>4. Len(Whole) - Len(wire') = x + Len(buf)
    <3>1. Len(wire') = Len(wire) - n /\ Len(buf) = Len(rx) + n /\ Len(wire) \in Nat
      BY <1>4, <1>6, <1>7
    <3>2. x + Len(rx) + Len(wire) = Len(Whole)
      BY <2>2
    <3> HIDE DEF buf
    <3> QED BY <3>1, <3>2, <2>3
  <2> QED BY <2>1, <2>4 DEF x
<1>11. CASE r + m <= Len(ps)
  <2>1. OnlyPackets(ps, v, at, r, buf, m)
    BY <1>3, <1>7, <1>11, FramesArePackets
  <2>2. tail = <<>> => (IsStuck(buf) <=> EndsIn(ps, v, Len(Whole) - Len(wire')))
    <3> DEFINE x == at[r] + Len(buf)
    <3> HIDE DEF ps, v, r, m, x
    <3>1. tail = <<>> => (IsStuck(buf) <=> InLength(ps, v, at, x))
      BY <1>3, <1>7, <2>1, StuckIs DEF x
    <3>2. EndsIn(ps, v, x) <=> InLength(ps, v, at, x)
      BY <1>3, EndsIs
    <3> QED BY <1>14, <3>1, <3>2 DEF x
  <2> DEFINE new == received \o PacketsOf(Results(buf, v))
  <2>3. ~fails /\ FirstOf(new, ps, r + m) /\ Len(new) = r + m
    <3> HIDE DEF ps, v, r, m
    <3>1. ps \in Seq(Packets(v)) /\ r \in 0..Len(ps) /\ FirstOf(received, ps, r)
      BY <1>2, <1>4 DEF FirstOf
    <3> QED BY <2>1, <3>1, ReadPackets DEF fails
  <2> HIDE DEF new
  <2>4. CASE /\ ~IsStuck(buf) /\ link' = link
             /\ received' = new /\ rx' = SubSeq(buf, Consumed(buf) + 1, Len(buf))
    <3> DEFINE kept == SubSeq(buf, Consumed(buf) + 1, Len(buf))
    <3>1. kept \in Seq(Octet) /\ Left(kept, buf, Consumed(buf))
      <4>1. buf \in Seq(Octet) /\ Consumed(buf) \in 0..Len(buf)
        BY <1>7, <2>1 DEF Window, OnlyPackets
      <4> QED BY <4>1, LeftIs
    <3> HIDE DEF kept
    <3>2. /\ Window(ps, Whole, at, r + m, kept) /\ FrameLength(kept, 0) = 0
          /\ at[r + m] + Len(kept) = at[r] + Len(buf)
      BY <1>3, <1>7, <2>1, <3>1, KeepRest
    <3>3. at[r + m] + Len(kept) + Len(wire') = Len(Whole)
      <4> DEFINE x == at[r]
                 y == at[r + m]
      <4>1. x \in Nat /\ y \in Nat /\ Len(kept) \in Nat /\ Len(rx) \in Nat
        <5>1. /\ rx \in Seq(Octet) /\ at \in [0..Len(ps) -> Nat] /\ r + m \in 0..Len(ps)
          BY <1>3, <3>2 DEF Reading, Window, Stream
        <5>2. x \in Nat /\ y \in Nat
          BY <1>2, <5>1
        <5> QED BY <3>1, <5>1, <5>2
      <4>2. x + Len(rx) + Len(wire) = Len(Whole)
        BY <1>3 DEF Reading
      <4> HIDE DEF x, y
      <4>3. y + Len(kept) = x + (Len(rx) + n)
        BY <1>7, <3>2 DEF x, y
      <4>4. n \in Nat
        BY <1>4
      <4>5. y + Len(kept) + Len(wire') = Len(Whole)
        BY <1>4, <1>6, <4>1, <4>2, <4>3, <4>4
      <4> QED BY <4>5 DEF y
    <3>4. rx' = kept /\ Len(received') = r + m
      BY <2>3, <2>4 DEF kept
    <3>5. Located(at)'
      BY <1>3, <1>9, <3>2, <3>3, <3>4 DEF Reading
    <3>6. received' = SubSeq(packets', 1, Len(received')) /\ Len(received') \in 0..Len(packets')
      BY <1>1, <1>2, <1>8, <1>11, <2>3, <2>4 DEF FirstOf
    <3>7. ClosedWell' /\ StuckWell'
      BY <1>1, <1>14, <2>2, <2>4 DEF ClosedWell
    <3> QED BY <1>5, <1>6, <3>5, <3>6, <3>7 DEF WireInv
  <2>5. CASE IsStuck(buf) /\ link' = "stuck" /\ rx' = rx /\ received' = received
    <3>1. Located(at)' /\ ClosedWell' /\ StuckWell'
      BY <1>3, <1>9, <1>14, <2>2, <2>5 DEF ClosedWell
    <3> QED BY <1>5, <1>6, <1>10, <2>5, <3>1 DEF WireInv
  <2> QED BY <1>1, <2>3, <2>4, <2>5 DEF new
<1>12. CASE r + m > Len(ps)
  <2>1. tail # <<>> /\ \E i \in DOMAIN Frames(buf) : Decode(Frames(buf)[i], v).err # "none"
    BY <1>3, <1>7, <1>12, FrameOfTail
  <2>2. fails
    BY <2>1 DEF fails, Fails, Results
  <2>3. link' = "closed" /\ rx' = rx /\ received' = received
    BY <1>1, <2>2
  <2>4. Located(at)'
    BY <1>3, <1>9, <2>3
  <2>5. ClosedWell' /\ StuckWell'
    BY <1>1, <1>14, <2>1 DEF ClosedWell
  <2> QED BY <1>5, <1>6, <1>10, <2>3, <2>4, <2>5 DEF WireInv
<1>13. r + m <= Len(ps) \/ r + m > Len(ps)
  BY <1>2, <1>4, <1>8
<1> QED BY <1>11, <1>12, <1>13

\* The code takes a full buffer for the broker's close: the packet it began to
\* read is larger, or it is none.
LEMMA ReadNothingKeeps ==
  ASSUME WireInv, ReadNothing
  PROVE  WireInv'
<1> DEFINE r == Len(received)
<1>1. /\ link = "open" /\ Len(rx) = RxCap /\ link' = "closed"
      /\ UNCHANGED <<version, packets, tail, wire, rx, received>>
  BY DEF ReadNothing
<1>2. /\ Sent /\ received = SubSeq(packets, 1, r) /\ r \in 0..Len(packets) /\ Rest(wire, Whole)
  BY DEF WireInv
<1>3. PICK at : /\ Stream(packets, version, tail, Whole, at)
                /\ Reading(packets, Whole, at, r, rx, wire) /\ FrameLength(rx, 0) = 0
  BY <1>1 DEF WireInv, Located
<1>4. Whole' = Whole /\ Sent'
  BY <1>1, <1>2 DEF Whole, Sent
<1>5. wire \in Seq(Octet)
  BY <1>2 DEF Rest
<1> HIDE DEF r
<1>6. tail # <<>> \/ Len(Encode(packets[r + 1], version)) > RxCap
  <2>1. CASE r < Len(packets)
    <3>1. Len(rx) < Len(Encode(packets[r + 1], version))
      BY <1>3, <1>5, <2>1, NextPacket
    <3>2. Len(Encode(packets[r + 1], version)) \in Nat
      <4>1. packets \in Seq(Packets(version)) /\ r + 1 \in 1..Len(packets)
        BY <1>2, <1>3, <2>1 DEF Stream
      <4>2. packets[r + 1] \in Packets(version) /\ Len(Body(packets[r + 1], version)) \in Lengths
        BY <1>3, <4>1 DEF Stream
      <4> QED BY <4>2, EncodeIs
    <3> QED BY <1>1, <3>1, <3>2, FramingAssumption
  <2>2. CASE r = Len(packets)
    <3>1. Reading(packets, Whole, at, Len(packets), rx, wire)
      BY <1>3, <2>2
    <3>2. Len(rx) > 0
      BY <1>1, FramingAssumption
    <3> QED BY <1>3, <1>5, <3>1, <3>2, NoPacketLeft
  <2>3. Len(packets) \in Nat
    BY <1>3 DEF Stream
  <2> QED BY <1>2, <2>1, <2>2, <2>3
<1>7. ClosedWell' /\ StuckWell'
  <2>1. ClosedWell'
    BY <1>1, <1>6 DEF ClosedWell, r
  <2>2. StuckWell
    BY DEF WireInv
  <2>3. tail = <<>> => ~EndsIn(packets, version, Len(Whole) - Len(wire))
    BY <1>1, <2>2 DEF StuckWell
  <2>4. StuckWell' <=> (tail = <<>> => (link' = "stuck" <=> EndsIn(packets, version, Len(Whole) - Len(wire))))
    BY <1>1, <1>4 DEF StuckWell
  <2> QED BY <1>1, <2>1, <2>3, <2>4
<1>8. Located(at)'
  BY <1>1, <1>3, <1>4 DEF Located
<1> QED BY <1>1, <1>2, <1>4, <1>7, <1>8 DEF WireInv, r

\* The invariant is inductive.
LEMMA WireInvNext == WireInv /\ [WireNext]_wireVars => WireInv'
<1> SUFFICES ASSUME WireInv, [WireNext]_wireVars PROVE WireInv'
  OBVIOUS
<1>1. CASE \E n \in ReadSizes : ReadOctets(n)
  BY <1>1, ReadOctetsKeeps
<1>2. CASE ReadNothing
  BY <1>2, ReadNothingKeeps
<1>3. CASE UNCHANGED wireVars
  <2>1. /\ version' = version /\ packets' = packets /\ tail' = tail /\ wire' = wire
        /\ rx' = rx /\ received' = received /\ link' = link
    BY <1>3 DEF wireVars
  <2>2. Whole' = Whole
    BY <2>1 DEF Whole
  <2>3. Sent' /\ ClosedWell' /\ StuckWell'
    BY <2>1, <2>2 DEF WireInv, Sent, ClosedWell, StuckWell
  <2>4. PICK at : Located(at)
    BY DEF WireInv
  <2>5. Located(at)'
    BY <2>1, <2>2, <2>4 DEF Located
  <2> QED BY <2>1, <2>2, <2>3, <2>5 DEF WireInv
<1> QED BY <1>1, <1>2, <1>3 DEF WireNext

\* Every reachable state of the connection satisfies the invariant.
THEOREM WireInvariant == WireSpec => []WireInv
<1> QED BY WireInitHolds, WireInvNext, PTL DEF WireSpec

\* What the invariant says of the packets received.
LEMMA ReceivedFromInv == WireInv => ReceivedAsSent
<1> SUFFICES ASSUME WireInv PROVE ReceivedAsSent
  OBVIOUS
<1> DEFINE r == Len(received)
           N == Len(packets)
<1>1. Sent /\ received = SubSeq(packets, 1, r) /\ r \in 0..N
  BY DEF WireInv
<1>2. packets \in Seq(Packets(version))
  BY <1>1, TrafficAssumption DEF Sent
<1>3. r \in Nat /\ N \in Nat /\ r <= N /\ received \in Seq(Packets(version))
  BY <1>1, <1>2
<1>4. IsPrefix(received, packets)
  <2>1. SubSeq(received, 1, r) = received
    BY <1>3
  <2> QED BY <1>1, <1>3, <2>1 DEF IsPrefix
<1>5. ASSUME link = "open", wire = <<>>, r < N PROVE FALSE
  <2>1. PICK at : Located(at)
    BY DEF WireInv
  <2>2. wire \in Seq(Octet) /\ Len(wire) = 0
    BY <1>5
  <2>3. /\ Stream(packets, version, tail, Whole, at) /\ Reading(packets, Whole, at, r, rx, wire)
        /\ FrameLength(rx, 0) = 0
    BY <1>5, <2>1 DEF Located
  <2>4. wire \in Seq(Octet) /\ r < Len(packets)
    BY <1>5, <2>2
  <2> HIDE DEF r, N
  <2>5. Len(rx) < Len(Encode(packets[r + 1], version)) /\ Len(wire) > 0
    BY <2>3, <2>4, NextPacket
  <2> QED BY <2>2, <2>5
<1>6. r = N => received = packets
  BY <1>1, <1>2
<1> QED BY <1>3, <1>4, <1>5, <1>6 DEF ReceivedAsSent

\* drive_connection's RawPacketFrameIter and decode_packet, for all traffic of packets
\* that their structs can hold, every buffer size and every way the network cuts the
\* stream: the packets decoded are those sent, in order, and while the loop reads on
\* none waits in the buffer.
THEOREM PacketsReceivedAsSent == WireSpec => []ReceivedAsSent
<1> QED BY WireInvariant, ReceivedFromInv, PTL

\* drive_connection gives the connection up only for a packet larger than the
\* buffer or for octets it cannot decode; and, as long as there are none of these,
\* its loop over the frames hangs if and only if a read has ended inside a length
\* field, after its first octet.
THEOREM ConnectionClosedForCause == WireSpec => []ClosedForCause
<1>1. WireInv => ClosedForCause
  <2>1. EndsInLength <=> EndsIn(packets, version, Len(Whole) - Len(wire))
    BY DEF EndsInLength, EndsIn, Whole
  <2> QED BY <2>1 DEF WireInv, ClosedForCause, ClosedWell, StuckWell
<1> QED BY <1>1, WireInvariant, PTL

\* What the invariant says of the octets that came first.
LEMMA FirstFromInv == WireInv => FirstOfRead
<1> SUFFICES ASSUME WireInv, packets # <<>>, Len(SubSeq(Whole, 1, Len(Whole) - Len(wire))) >= 2
             PROVE  LET come == SubSeq(Whole, 1, Len(Whole) - Len(wire))
                    IN Decode(come, version) = IF Len(come) < Len(Encode(packets[1], version))
                                                 THEN Failed("incomplete") ELSE Decoded(packets[1])
  BY DEF FirstOfRead, Whole
<1> DEFINE n == Len(Whole) - Len(wire)
           come == SubSeq(Whole, 1, n)
           e == Encode(packets[1], version)
<1>1. PICK at : Stream(packets, version, tail, Whole, at)
  BY DEF WireInv, Located
<1>2. /\ packets \in Seq(Packets(version)) /\ Whole \in Seq(Octet) /\ 1 \in 1..Len(packets)
      /\ at[0] = 0
  <2>1. packets \in Seq(Packets(version)) /\ Whole \in Seq(Octet) /\ at[0] = 0
    BY <1>1 DEF Stream
  <2>2. Len(packets) \in Nat /\ Len(packets) # 0
    BY <2>1
  <2> QED BY <2>1, <2>2
<1>3. n \in 0..Len(Whole)
  <2>1. wire \in Seq(Octet) /\ Len(wire) <= Len(Whole)
    BY DEF WireInv, Rest
  <2>2. Len(wire) \in Nat /\ Len(Whole) \in Nat
    BY <1>2, <2>1
  <2> QED BY <2>1, <2>2
<1>4. packets[1] \in Packets(version) /\ Len(Body(packets[1], version)) \in Lengths
  BY <1>1, <1>2 DEF Stream
<1>5. Holds(Whole, 0, e)
  <2>1. Holds(Whole, at[1 - 1], e)
    BY <1>1, <1>2 DEF Stream, Stands
  <2>2. 1 - 1 = 0
    OBVIOUS
  <2> QED BY <1>2, <2>1, <2>2
<1> HIDE DEF n, e
<1>6. come \in Seq(Octet) /\ Len(come) = n
  BY <1>2, <1>3, SeqSplit
<1>7. ASSUME NEW i \in 1..n PROVE come[i] = Whole[i]
  BY <1>2, <1>3, <1>7
<1> HIDE DEF come
<1>8. e \in Seq(Octet) /\ Len(e) \in Nat
  BY <1>4, EncodeIs DEF e
<1>9. Starts(come, 0, e)
  <2> SUFFICES ASSUME NEW i \in 1..Len(e), 0 + i <= Len(come) PROVE come[0 + i] = e[i]
    BY DEF Starts
  <2>1. 0 + i = i /\ i \in 1..n
    BY <1>3, <1>6, <1>8
  <2>2. Whole[0 + i] = e[i]
    BY <1>5 DEF Holds
  <2> QED BY <1>7, <2>1, <2>2
<1>10. Len(come) >= 2
  BY DEF come, n
<1>11. Decode(come, version) = IF Len(come) < Len(e) THEN Failed("incomplete") ELSE Decoded(packets[1])
  BY <1>4, <1>6, <1>9, <1>10, DecodeIs DEF e
<1> QED BY <1>11 DEF come, n, e

\* perform_connect_handshake and the embedded poll, which decode the first packet
\* of what they read: one that its struct can hold is decoded alike whatever follows.
THEOREM FirstPacketOfRead == WireSpec => []FirstOfRead
<1> QED BY WireInvariant, FirstFromInv, PTL

\* encode_packet and decode_packet: every packet its struct can hold, whose body a
\* length field of four octets has room for, is read back from its own octets.
THEOREM PacketRoundTrip ==
  ASSUME NEW v, NEW p \in Packets(v), Len(Body(p, v)) \in Lengths
  PROVE  Decode(Encode(p, v), v) = Decoded(p)
<1> DEFINE e == Encode(p, v)
<1>1. e \in Seq(Octet) /\ Len(e) \in Nat /\ Len(e) >= 2
  BY EncodeIs
<1>2. Starts(e, 0, e)
  <2>1. ASSUME NEW j \in 1..Len(e) PROVE 0 + j = j
    BY <1>1
  <2> QED BY <2>1 DEF Starts
<1>3. ~(Len(e) < Len(e))
  BY <1>1
<1> QED BY <1>1, <1>2, <1>3, DecodeIs

-------------------------------------------------------------------------------
(* Numbers of several octets, as bytes::BufMut and Buf have them. *)

\* A recursion up to w from x, where D[k] gives the next value, and that one exists.
IsForwards(f, w, x, D) == f = [k \in 0..w |-> IF k = 0 THEN x ELSE D[k][f[k - 1]]]

LEMMA Forwards ==
  ASSUME NEW w \in Nat, NEW x, NEW D
  PROVE  \E f : IsForwards(f, w, x, D)
<1> USE DEF IsForwards
<1> DEFINE Is(f, n) == f = [k \in 0..n |-> IF k = 0 THEN x ELSE D[k][f[k - 1]]]
           P(n) == \E f : Is(f, n)
           T == {n \in Nat : P(n)}
<1>1. P(0)
  <2> DEFINE f == [k \in 0..0 |-> x]
  <2>1. f = [k \in 0..0 |-> IF k = 0 THEN x ELSE D[k][f[k - 1]]]
    OBVIOUS
  <2> HIDE DEF f
  <2> QED BY <2>1
<1>2. ASSUME NEW n \in Nat, P(n) PROVE P(n + 1)
  <2>1. PICK f : Is(f, n)
    BY <1>2
  <2> DEFINE h == [k \in 0..(n + 1) |-> IF k <= n THEN f[k] ELSE D[k][f[k - 1]]]
  <2>2. ASSUME NEW k \in 0..(n + 1) PROVE h[k] = IF k = 0 THEN x ELSE D[k][h[k - 1]]
    <3>1. CASE k <= n
      <4>1. k \in 0..n /\ h[k] = f[k]
        BY <3>1
      <4>2. f[k] = IF k = 0 THEN x ELSE D[k][f[k - 1]]
        BY <2>1, <4>1
      <4>3. k # 0 => h[k - 1] = f[k - 1]
        BY <3>1
      <4> HIDE DEF h
      <4> QED BY <4>1, <4>2, <4>3
    <3>2. CASE k = n + 1
      <4>1. h[k] = D[k][f[k - 1]] /\ k # 0
        BY <3>2
      <4>2. h[k - 1] = f[k - 1]
        BY <3>2
      <4> HIDE DEF h
      <4> QED BY <4>1, <4>2
    <3> QED BY <3>1, <3>2
  <2>3. h = [k \in 0..(n + 1) |-> h[k]]
    OBVIOUS
  <2> HIDE DEF h
  <2>4. Is(h, n + 1)
    BY <2>2, <2>3
  <2> HIDE DEF Is
  <2> QED BY <2>4
<1> HIDE DEF P
<1>3. Nat \subseteq T
  <2>1. 0 \in T /\ \A n \in Nat : n \in T => n + 1 \in T
    BY <1>1, <1>2
  <2> HIDE DEF T
  <2> QED BY <2>1, NatInduct
<1> QED BY <1>3 DEF P

\* What it gives.
LEMMA ForwardsAt ==
  ASSUME NEW w \in Nat, NEW x, NEW D, NEW f, IsForwards(f, w, x, D)
  PROVE  f[0] = x /\ (\A k \in 1..w : f[k] = D[k][f[k - 1]]) /\ f = [k \in 0..w |-> f[k]]
<1>1. \A k \in 0..w : f[k] = IF k = 0 THEN x ELSE D[k][f[k - 1]]
  BY DEF IsForwards
<1>2. 0 \in 0..w /\ \A k \in 1..w : k \in 0..w /\ k # 0
  OBVIOUS
<1>3. f = [k \in 0..w |-> f[k]]
  BY DEF IsForwards
<1> QED BY <1>1, <1>2, <1>3

\* What holds of the first value and of each after one it holds of holds of all.
LEMMA Along ==
  ASSUME NEW w \in Nat, NEW S, NEW f, f[0] \in S, \A k \in 1..w : f[k - 1] \in S => f[k] \in S
  PROVE  \A k \in 0..w : f[k] \in S
<1> DEFINE T == {n \in Nat : n \in 0..w => f[n] \in S}
<1>1. 0 \in T
  OBVIOUS
<1>2. ASSUME NEW n \in Nat, n \in T PROVE n + 1 \in T
  <2> SUFFICES ASSUME n + 1 \in 0..w PROVE f[n + 1] \in S
    OBVIOUS
  <2>1. n \in 0..w /\ n + 1 \in 1..w /\ (n + 1) - 1 = n
    OBVIOUS
  <2>2. f[n] \in S
    BY <1>2, <2>1
  <2> QED BY <2>1, <2>2
<1>3. Nat \subseteq T
  <2> HIDE DEF T
  <2> QED BY <1>1, <1>2, NatInduct
<1>4. ASSUME NEW k \in 0..w PROVE f[k] \in S
  <2>1. k \in T
    <3> HIDE DEF T
    <3> QED BY <1>3
  <2> QED BY <2>1
<1> QED BY <1>4

\* A number is its higher digits times the base and its lowest digit.
LEMMA LowestDigit ==
  ASSUME NEW m \in Nat
  PROVE  /\ m = (m \div Base) * Base + (m % Base)
         /\ m \div Base \in Nat /\ m % Base \in Byte
  BY SensorWireAssumption, SMT DEF Byte

\* A remainder is the only one.
LEMMA Remainder ==
  ASSUME NEW n \in Nat, NEW c \in Nat \ {0}, NEW a \in Nat, NEW g \in Nat, g < c, n = a * c + g
  PROVE  n % c = g
<1> DEFINE q == n \div c
           r == n % c
<1>1. q \in Nat /\ r \in Nat /\ r < c /\ n = q * c + r
  BY SMT
<1> HIDE DEF q, r
<1>2. CASE a = q
  BY <1>1, <1>2, SMT DEF r
<1>3. CASE a < q
  <2>1. PICK d \in Nat : q = a + 1 + d
    <3>1. q - a - 1 \in Nat /\ q = a + 1 + (q - a - 1)
      BY <1>1, <1>3
    <3> QED BY <3>1
  <2>2. q * c = a * c + c + d * c /\ d * c >= 0 /\ a * c \in Nat /\ q * c \in Nat
    BY <1>1, <2>1, SMT
  <2> QED BY <1>1, <2>2, SMT
<1>4. CASE q < a
  <2>1. PICK d \in Nat : a = q + 1 + d
    <3>1. a - q - 1 \in Nat /\ a = q + 1 + (a - q - 1)
      BY <1>1, <1>4
    <3> QED BY <3>1
  <2>2. a * c = q * c + c + d * c /\ d * c >= 0 /\ a * c \in Nat /\ q * c \in Nat
    BY <1>1, <2>1, SMT
  <2> QED BY <1>1, <2>2, SMT
<1> QED BY <1>1, <1>2, <1>3, <1>4

\* The function PutBE is defined by.
LEMMA PutIs ==
  ASSUME NEW n \in Nat, NEW w \in Nat
  PROVE  \E f \in [0..w -> Nat] :
           /\ f[0] = n /\ \A k \in 1..w : f[k] = f[k - 1] \div Base
           /\ PutBE(n, w) = [i \in 1..w |-> f[w - i] % Base]
<1> DEFINE Is(f) == f = [k \in 0..w |-> IF k = 0 THEN n ELSE f[k - 1] \div Base]
           D == [k \in 1..w |-> [y \in Nat |-> y \div Base]]
           r == CHOOSE f : Is(f)
<1>1. \A y \in Nat : y \div Base \in Nat
  BY LowestDigit
<1>2. \E f : Is(f)
  <2>1. \A k \in 1..w : \A y \in Nat : D[k][y] = y \div Base /\ D[k][y] \in Nat
    BY <1>1
  <2>0. \A k \in 1..w : \A y \in Nat : D[k][y] \in Nat
    BY <2>1
  <2> HIDE DEF D
  <2>2. PICK f : IsForwards(f, w, n, D)
    BY Forwards
  <2>3. f[0] = n /\ (\A k \in 1..w : f[k] = D[k][f[k - 1]]) /\ f = [k \in 0..w |-> f[k]]
    BY <2>2, ForwardsAt
  <2>4. \A k \in 0..w : f[k] \in Nat
    <3>1. f[0] \in Nat /\ \A k \in 1..w : f[k - 1] \in Nat => f[k] \in Nat
      BY <2>0, <2>3
    <3> QED BY <3>1, Along
  <2>5. \A k \in 0..w : f[k] = IF k = 0 THEN n ELSE f[k - 1] \div Base
    <3>1. \A k \in 0..w : k # 0 => k \in 1..w /\ k - 1 \in 0..w
      OBVIOUS
    <3> QED BY <2>1, <2>3, <2>4, <3>1
  <2>7. Is(f)
    BY <2>3, <2>5
  <2> HIDE DEF Is
  <2> QED BY <2>7
<1>3. Is(r)
  BY <1>2
<1>4. PutBE(n, w) = [i \in 1..w |-> r[w - i] % Base]
  BY DEF PutBE
<1> HIDE DEF r
<1>5. r[0] = n /\ \A k \in 1..w : r[k] = r[k - 1] \div Base
  <2>1. \A k \in 0..w : r[k] = IF k = 0 THEN n ELSE r[k - 1] \div Base
    BY <1>3
  <2> QED BY <2>1
<1>6. \A k \in 0..w : r[k] \in Nat
  <2>1. r[0] \in Nat /\ \A k \in 1..w : r[k - 1] \in Nat => r[k] \in Nat
    BY <1>1, <1>5
  <2> QED BY <2>1, Along
<1>7. r \in [0..w -> Nat]
  <2>1. r = [k \in 0..w |-> r[k]]
    BY <1>3
  <2> QED BY <2>1, <1>6
<1> QED BY <1>4, <1>5, <1>7

\* The octets it writes.
LEMMA PutType ==
  ASSUME NEW n \in Nat, NEW w \in Nat
  PROVE  PutBE(n, w) \in Seq(Byte) /\ Len(PutBE(n, w)) = w
<1>1. PICK f \in [0..w -> Nat] :
        /\ f[0] = n /\ \A k \in 1..w : f[k] = f[k - 1] \div Base
        /\ PutBE(n, w) = [i \in 1..w |-> f[w - i] % Base]
  BY PutIs
<1>2. ASSUME NEW i \in 1..w PROVE f[w - i] % Base \in Byte
  <2>1. w - i \in 0..w
    OBVIOUS
  <2> QED BY <1>1, <2>1, LowestDigit
<1>3. PutBE(n, w) \in [1..w -> Byte]
  BY <1>1, <1>2
<1> QED BY <1>3, FunctionIsSeq

\* The function GetBE is defined by.
LEMMA GetIs ==
  ASSUME NEW s \in Seq(Byte)
  PROVE  \E g \in [0..Len(s) -> Nat] :
           /\ g[0] = 0 /\ \A k \in 1..Len(s) : g[k] = g[k - 1] * Base + s[k]
           /\ GetBE(s) = g[Len(s)]
<1> DEFINE w == Len(s)
           Is(f) == f = [k \in 0..w |-> IF k = 0 THEN 0 ELSE f[k - 1] * Base + s[k]]
           D == [k \in 1..w |-> [y \in Nat |-> y * Base + s[k]]]
           r == CHOOSE f : Is(f)
<1>0. w \in Nat /\ \A k \in 1..w : s[k] \in Byte
  OBVIOUS
<1>1. \A y \in Nat, k \in 1..w : y * Base + s[k] \in Nat
  <2>1. \A y \in Nat, b \in Byte : y * Base + b \in Nat
    BY SensorWireAssumption, SMT DEF Byte
  <2> QED BY <1>0, <2>1
<1>2. \E f : Is(f)
  <2>1. \A k \in 1..w : \A y \in Nat : D[k][y] = y * Base + s[k] /\ D[k][y] \in Nat
    BY <1>1
  <2>0. \A k \in 1..w : \A y \in Nat : D[k][y] \in Nat
    BY <2>1
  <2> HIDE DEF D
  <2> HIDE DEF w
  <2>2. PICK f : IsForwards(f, w, 0, D)
    BY <1>0, Forwards
  <2>3. f[0] = 0 /\ (\A k \in 1..w : f[k] = D[k][f[k - 1]]) /\ f = [k \in 0..w |-> f[k]]
    BY <1>0, <2>2, ForwardsAt
  <2>4. \A k \in 0..w : f[k] \in Nat
    <3>1. f[0] \in Nat /\ \A k \in 1..w : f[k - 1] \in Nat => f[k] \in Nat
      <4>1. ASSUME NEW k \in 1..w, f[k - 1] \in Nat PROVE f[k] \in Nat
        <5>1. D[k][f[k - 1]] \in Nat
          BY <2>0, <4>1
        <5> QED BY <2>3, <5>1
      <4>2. f[0] \in Nat
        BY <2>3
      <4> QED BY <4>1, <4>2
    <3> QED BY <3>1, <1>0, Along
  <2>5. \A k \in 0..w : f[k] = IF k = 0 THEN 0 ELSE f[k - 1] * Base + s[k]
    <3>1. \A k \in 0..w : k # 0 => k \in 1..w /\ k - 1 \in 0..w
      BY <1>0
    <3> QED BY <2>1, <2>3, <2>4, <3>1
  <2>7. Is(f)
    BY <2>3, <2>5
  <2> HIDE DEF Is
  <2> QED BY <2>7
<1>3. Is(r)
  BY <1>2
<1>4. GetBE(s) = r[w]
  BY DEF GetBE
<1> HIDE DEF r, w
<1>5. r[0] = 0 /\ \A k \in 1..w : r[k] = r[k - 1] * Base + s[k]
  <2>1. \A k \in 0..w : r[k] = IF k = 0 THEN 0 ELSE r[k - 1] * Base + s[k]
    BY <1>3
  <2> QED BY <2>1, <1>0
<1>6. \A k \in 0..w : r[k] \in Nat
  <2>1. r[0] \in Nat /\ \A k \in 1..w : r[k - 1] \in Nat => r[k] \in Nat
    BY <1>1, <1>5
  <2> QED BY <2>1, <1>0, Along
<1>7. r \in [0..w -> Nat]
  <2>1. r = [k \in 0..w |-> r[k]]
    BY <1>3
  <2> QED BY <2>1, <1>6
<1> QED BY <1>4, <1>5, <1>7 DEF w

\* The numbers that octets of a width hold, for the widths there are.
LEMMA CapacityIs ==
  /\ Capacity[0] = 1
  /\ \A k \in 1..8 : Capacity[k] = Capacity[k - 1] * Base
  /\ \A k \in 0..8 : Capacity[k] \in Nat \ {0}
<1> DEFINE Is(f) == f = [k \in 0..8 |-> IF k = 0 THEN 1 ELSE f[k - 1] * Base]
           D == [k \in 1..8 |-> [y \in Nat \ {0} |-> y * Base]]
<1>1. \A y \in Nat \ {0} : y * Base \in Nat \ {0}
  BY SensorWireAssumption, SMT
<1>2. \E f : Is(f)
  <2>1. \A k \in 1..8 : \A y \in Nat \ {0} : D[k][y] = y * Base /\ D[k][y] \in Nat \ {0}
    BY <1>1
  <2>0. \A k \in 1..8 : \A y \in Nat \ {0} : D[k][y] \in Nat \ {0}
    BY <2>1
  <2> HIDE DEF D
  <2>2. PICK z \in Nat \ {0}, w \in Nat : z = 1 /\ w = 8
    OBVIOUS
  <2>3. PICK f : IsForwards(f, w, z, D)
    BY Forwards
  <2>4. f[0] = z /\ (\A k \in 1..w : f[k] = D[k][f[k - 1]]) /\ f = [k \in 0..w |-> f[k]]
    BY <2>3, ForwardsAt
  <2> DEFINE S == Nat \ {0}
  <2>5. \A k \in 0..w : f[k] \in S
    <3>1. f[0] \in S /\ \A k \in 1..w : f[k - 1] \in S => f[k] \in S
      BY <2>1, <2>2, <2>4
    <3> HIDE DEF S
    <3> QED BY <3>1, <2>2, Along
  <2>6. \A k \in 0..w : f[k] = IF k = 0 THEN z ELSE f[k - 1] * Base
    <3>1. \A k \in 0..w : k # 0 => k \in 1..w /\ k - 1 \in 0..w
      BY <2>2
    <3> QED BY <2>1, <2>2, <2>4, <2>5, <3>1
  <2>8. Is(f)
    BY <2>2, <2>4, <2>6
  <2> HIDE DEF Is
  <2> QED BY <2>8
<1>3. Is(Capacity)
  BY <1>2 DEF Capacity
<1>4. \A k \in 0..8 : Capacity[k] = IF k = 0 THEN 1 ELSE Capacity[k - 1] * Base
  BY <1>3
<1>5. Capacity[0] = 1 /\ \A k \in 1..8 : Capacity[k] = Capacity[k - 1] * Base
  BY <1>4
<1> DEFINE S == Nat \ {0}
<1>6. \A k \in 0..8 : Capacity[k] \in S
  <2>1. Capacity[0] \in S /\ \A k \in 1..8 : Capacity[k - 1] \in S => Capacity[k] \in S
    BY <1>1, <1>5
  <2>2. PICK w \in Nat : w = 8
    OBVIOUS
  <2> HIDE DEF S
  <2>3. \A k \in 0..w : Capacity[k] \in S
    BY <2>1, <2>2, Along
  <2> QED BY <2>2, <2>3
<1> QED BY <1>5, <1>6

\* A remainder is below what it is a remainder of, and no more than the number.
LEMMA RemainderIs ==
  ASSUME NEW n \in Nat, NEW c \in Nat \ {0}
  PROVE  n % c \in 0..(c - 1) /\ n % c <= n /\ (n < c => n % c = n)
<1> DEFINE q == n \div c
           r == n % c
<1>1. q \in Nat /\ r \in 0..(c - 1) /\ n = q * c + r /\ q * c >= 0
  BY SMT
<1>2. n < c => r = n
  BY SMT
<1> QED BY <1>1, <1>2

\* Another digit.
LEMMA AnotherDigit ==
  ASSUME NEW a \in Nat, NEW c \in Nat, NEW g \in Nat, NEW b \in Nat, NEW d \in Nat, d < b, g < c
  PROVE  (a * c + g) * b + d = a * (c * b) + (g * b + d) /\ g * b + d < c * b
<1>1. (a * c + g) * b + d = a * (c * b) + (g * b + d)
  <2>1. (a * c + g) * b = (a * c) * b + g * b
    BY SMT
  <2>2. (a * c) * b = a * (c * b)
    BY SMT
  <2>3. (a * c) * b \in Nat /\ g * b \in Nat
    BY SMT
  <2> QED BY <2>1, <2>2, <2>3
<1>2. g * b + d < c * b
  <2>1. PICK e \in Nat : c = g + 1 + e
    <3>1. c - g - 1 \in Nat /\ c = g + 1 + (c - g - 1)
      OBVIOUS
    <3> QED BY <3>1
  <2>2. c * b = g * b + b + e * b /\ e * b \in Nat /\ g * b \in Nat
    BY <2>1, SMT
  <2> QED BY <2>2
<1> QED BY <1>1, <1>2

\* What get makes of the octets put writes: the number, if it fits, and no more
\* of it than does if not.
LEMMA GetPut ==
  ASSUME NEW n \in Nat, NEW w \in 0..8
  PROVE  GetBE(PutBE(n, w)) = n % Capacity[w]
<1> DEFINE s == PutBE(n, w)
<1>1. w \in Nat /\ s \in Seq(Byte) /\ Len(s) = w
  BY PutType
<1>2. PICK f \in [0..w -> Nat] :
        /\ f[0] = n /\ \A k \in 1..w : f[k] = f[k - 1] \div Base
        /\ s = [i \in 1..w |-> f[w - i] % Base]
  BY <1>1, PutIs
<1>0. f[w] \in Nat
  <2>1. w \in 0..w
    BY <1>1
  <2> QED BY <1>2, <2>1
<1>3. \A i \in 1..w : s[i] = f[w - i] % Base
  BY <1>2
<1> HIDE DEF s
<1>4. PICK g \in [0..w -> Nat] :
        /\ g[0] = 0 /\ \A k \in 1..w : g[k] = g[k - 1] * Base + s[k]
        /\ GetBE(s) = g[w]
  BY <1>1, GetIs
<1> DEFINE Good(k) == f[w - k] = f[w] * Capacity[k] + g[k] /\ g[k] < Capacity[k]
           T == {k \in Nat : k \in 0..w => Good(k)}
<1>5. 0 \in T
  <2>1. Capacity[0] = 1 /\ w - 0 = w /\ f[w] \in Nat
    BY <1>1, <1>2, CapacityIs
  <2> QED BY <1>4, <2>1
<1>6. ASSUME NEW k \in Nat, k \in T, k + 1 \in 0..w PROVE Good(k + 1)
  <2>1. Good(k) /\ k \in 0..w /\ k + 1 \in 1..w
    BY <1>1, <1>6
  <2>2. PICK j \in 0..w : j = w - (k + 1)
    BY <1>1, <2>1
  <2>3. j + 1 = w - k /\ j + 1 \in 1..w /\ (j + 1) - 1 = j
    BY <1>1, <2>1, <2>2
  <2>4. f[j + 1] = f[j] \div Base /\ f[j] \in Nat /\ f[j + 1] \in Nat
    BY <1>2, <2>3
  <2>5. s[k + 1] = f[j] % Base
    BY <1>3, <2>1, <2>2
  <2>6. f[j] = f[j + 1] * Base + s[k + 1] /\ s[k + 1] \in 0..(Base - 1)
    BY <2>4, <2>5, LowestDigit DEF Byte
  <2>7. f[j + 1] = f[w] * Capacity[k] + g[k] /\ g[k] < Capacity[k]
    BY <2>1, <2>3
  <2>8. g[k + 1] = g[k] * Base + s[k + 1] /\ g[k] \in Nat
    <3>1. (k + 1) - 1 = k
      OBVIOUS
    <3> QED BY <1>4, <2>1, <3>1
  <2>9. Capacity[k + 1] = Capacity[k] * Base /\ Capacity[k] \in Nat
    <3>1. k + 1 \in 1..8 /\ (k + 1) - 1 = k /\ k \in 0..8
      BY <2>1
    <3> QED BY <3>1, CapacityIs
  <2>10. s[k + 1] \in Nat /\ s[k + 1] < Base /\ Base \in Nat
    BY <2>6, SensorWireAssumption
  <2> DEFINE a == f[w]
             c == Capacity[k]
             gk == g[k]
             d == s[k + 1]
  <2>11. a \in Nat /\ c \in Nat /\ gk \in Nat /\ d \in Nat /\ d < Base /\ Base \in Nat /\ gk < c
    BY <1>0, <2>7, <2>8, <2>9, <2>10
  <2> HIDE DEF a, c, gk, d
  <2>12. (a * c + gk) * Base + d = a * (c * Base) + (gk * Base + d) /\ gk * Base + d < c * Base
    BY <2>11, AnotherDigit
  <2>13. f[j] = f[w] * Capacity[k + 1] + g[k + 1]
    BY <2>6, <2>7, <2>8, <2>9, <2>12 DEF a, c, gk, d
  <2>14. g[k + 1] < Capacity[k + 1]
    BY <2>8, <2>9, <2>12 DEF c, gk, d
  <2> QED BY <2>2, <2>13, <2>14
<1>7. Nat \subseteq T
  <2>1. \A k \in Nat : k \in T => k + 1 \in T
    BY <1>6
  <2> HIDE DEF T
  <2> QED BY <1>5, <2>1, NatInduct
<1>8. Good(w)
  <2>1. w \in T
    <3> HIDE DEF T
    <3> QED BY <1>1, <1>7
  <2> QED BY <1>1, <2>1
<1>9. n = f[w] * Capacity[w] + g[w] /\ g[w] < Capacity[w]
  <2>1. w - w = 0
    BY <1>1
  <2> QED BY <1>2, <1>8, <2>1
<1>10. Capacity[w] \in Nat \ {0} /\ f[w] \in Nat /\ g[w] \in Nat
  <2>1. w \in 0..w
    BY <1>1
  <2> QED BY <1>0, <1>4, <2>1, CapacityIs
<1>11. n % Capacity[w] = g[w]
  BY <1>9, <1>10, Remainder
<1> QED BY <1>4, <1>11 DEF s

\* A single octet.
LEMMA PutOne ==
  ASSUME NEW n \in Nat
  PROVE  Len(PutBE(n, 1)) = 1 /\ PutBE(n, 1)[1] = n % Capacity[1]
<1>1. PICK w \in Nat : w = 1
  OBVIOUS
<1>2. PICK f \in [0..w -> Nat] :
        /\ f[0] = n /\ \A k \in 1..w : f[k] = f[k - 1] \div Base
        /\ PutBE(n, w) = [i \in 1..w |-> f[w - i] % Base]
  BY PutIs
<1>3. PutBE(n, w)[1] = f[0] % Base
  BY <1>1, <1>2
<1>4. Capacity[1] = Base
  <2>1. Capacity[1] = Capacity[0] * Base
    BY CapacityIs
  <2> QED BY <2>1, CapacityIs, SensorWireAssumption
<1>5. Len(PutBE(n, w)) = 1
  BY <1>1, PutType
<1> QED BY <1>1, <1>2, <1>3, <1>4, <1>5

-------------------------------------------------------------------------------
(* The parts of a payload. *)

IsThree(x, h, m, t) == x = (h \o m) \o t

\* A middle and an end of a sequence are found where they were put.
LEMMA Between ==
  ASSUME NEW h \in Seq(Byte), NEW m \in Seq(Byte), NEW t \in Seq(Byte), NEW x, IsThree(x, h, m, t)
  PROVE  /\ x \in Seq(Byte) /\ Len(x) = Len(h) + Len(m) + Len(t)
         /\ Len(h) \in Nat /\ Len(m) \in Nat /\ Len(t) \in Nat
         /\ Slice(x, Len(h) + 1, Len(m)) = m
         /\ After(x, Len(h) + Len(m) + 1) = t
         /\ \A i \in 1..Len(h) : x[i] = h[i]
         /\ \A i \in 1..Len(t) : x[Len(h) + Len(m) + i] = t[i]
<1> DEFINE y == h \o m
<1>1. /\ y \in Seq(Byte) /\ Len(y) = Len(h) + Len(m) /\ Len(h) \in Nat /\ Len(m) \in Nat
      /\ \A i \in 1..Len(h) : y[i] = h[i]
      /\ \A i \in 1..Len(m) : y[Len(h) + i] = m[i]
  BY ConcatAt
<1>2. x = y \o t
  BY DEF IsThree
<1> HIDE DEF y
<1>3. /\ x \in Seq(Byte) /\ Len(x) = Len(y) + Len(t) /\ Len(t) \in Nat /\ Len(y) \in Nat
      /\ \A i \in 1..Len(y) : x[i] = y[i]
      /\ \A i \in 1..Len(t) : x[Len(y) + i] = t[i]
  <2>0. y \in Seq(Byte)
    BY <1>1
  <2>1. /\ y \o t \in Seq(Byte) /\ Len(y \o t) = Len(y) + Len(t) /\ Len(t) \in Nat /\ Len(y) \in Nat
        /\ \A i \in 1..Len(y) : (y \o t)[i] = y[i]
        /\ \A i \in 1..Len(t) : (y \o t)[Len(y) + i] = t[i]
    BY <2>0, ConcatAt
  <2> QED BY <1>2, <2>1
<1> DEFINE a == Len(h)
           b == Len(m)
           d == Len(t)
<1>4. a \in Nat /\ b \in Nat /\ d \in Nat /\ Len(y) = a + b /\ Len(x) = a + b + d
  BY <1>1, <1>3
<1>5. \A i \in 1..a : x[i] = h[i]
  <2>1. \A i \in 1..a : i \in 1..Len(y)
    BY <1>4
  <2> QED BY <1>1, <1>3, <2>1
<1>6. \A i \in 1..b : x[a + i] = m[i]
  <2>1. \A i \in 1..b : a + i \in 1..Len(y)
    BY <1>4
  <2> QED BY <1>1, <1>3, <2>1
<1>7. \A i \in 1..d : x[a + b + i] = t[i]
  BY <1>3, <1>4
<1>8. Slice(x, a + 1, b) = m
  <2>1. \A i \in 1..b : a + 1 + i - 1 = a + i
    BY <1>4
  <2>2. \A i \in 1..b : x[a + 1 + i - 1] = m[i]
    BY <1>6, <2>1
  <2>3. m = [i \in 1..b |-> m[i]]
    OBVIOUS
  <2> HIDE DEF a, b, d
  <2> QED BY <2>2, <2>3 DEF Slice
<1>9. After(x, a + b + 1) = t
  <2>1. Len(x) + 1 - (a + b + 1) = d /\ \A i \in 1..d : a + b + 1 + i - 1 = a + b + i
    BY <1>4
  <2>2. \A i \in 1..d : x[a + b + 1 + i - 1] = t[i]
    BY <1>7, <2>1
  <2>3. t = [i \in 1..d |-> t[i]]
    OBVIOUS
  <2> HIDE DEF a, b, d
  <2>4. Slice(x, a + b + 1, d) = t
    BY <2>2, <2>3 DEF Slice
  <2> QED BY <2>1, <2>4 DEF After
<1> QED BY <1>3, <1>4, <1>5, <1>7, <1>8, <1>9

-------------------------------------------------------------------------------
(* Sensor data of each type. *)

\* The consumer's data d are the data s that were sent, but for what is cut off.
AsSent(d, s) == IF Wraps(s) THEN Cut(d, s) ELSE d = s

\* Data are read from what is written.
ReadAs(s) == EncodeSample(s) \in Seq(Byte) /\ AsSent(DecodeSample(EncodeSample(s)), s)

LEMMA Tags == {1, 2, 3, 4, 5, 6} \subseteq Byte /\ Base \in Nat /\ Char \subseteq Byte
BY SensorWireAssumption DEF Byte, Char

\* What is behind a tag.
LEMMA Tagged ==
  ASSUME NEW x \in Byte, NEW t \in Seq(Byte)
  PROVE  LET y == <<x>> \o t
         IN y \in Seq(Byte) /\ y # <<>> /\ y[1] = x /\ Tail(y) = t
<1> DEFINE h == <<x>>
           y == h \o t
<1>1. h \in Seq(Byte) /\ Len(h) = 1 /\ h[1] = x
  OBVIOUS
<1> HIDE DEF h
<1>2. /\ y \in Seq(Byte) /\ Len(y) = 1 + Len(t) /\ y[1] = x /\ Len(t) \in Nat
      /\ \A i \in 1..Len(t) : y[1 + i] = t[i]
  <2>1. /\ y \in Seq(Byte) /\ Len(y) = Len(h) + Len(t) /\ Len(t) \in Nat
        /\ \A i \in 1..Len(h) : y[i] = h[i]
        /\ \A i \in 1..Len(t) : y[Len(h) + i] = t[i]
    BY <1>1, ConcatAt
  <2> HIDE DEF y
  <2> QED BY <1>1, <2>1
<1> HIDE DEF y
<1>3. y # <<>>
  BY <1>2
<1>4. Tail(y) = t
  <2>1. Tail(y) \in Seq(Byte) /\ Len(Tail(y)) = Len(t) /\ \A i \in 1..Len(t) : Tail(y)[i] = y[i + 1]
    BY <1>2, <1>3
  <2>2. \A i \in 1..Len(t) : Tail(y)[i] = t[i]
    <3>1. \A i \in 1..Len(t) : i + 1 = 1 + i
      OBVIOUS
    <3> QED BY <1>2, <2>1, <3>1
  <2>3. Tail(y) = [i \in 1..Len(t) |-> Tail(y)[i]] /\ t = [i \in 1..Len(t) |-> t[i]]
    <3>1. \A u \in Seq(Byte) : u = [i \in 1..Len(u) |-> u[i]]
      OBVIOUS
    <3> DEFINE u == Tail(y)
    <3>2. u \in Seq(Byte) /\ Len(u) = Len(t)
      BY <2>1
    <3> HIDE DEF u
    <3>3. u = [i \in 1..Len(t) |-> u[i]]
      BY <3>1, <3>2
    <3> QED BY <3>1, <3>3 DEF u
  <2> QED BY <2>2, <2>3
<1> QED BY <1>2, <1>3, <1>4 DEF y, h

LEMMA RawRead ==
  ASSUME NEW s \in [type : {"Raw"}, data : Seq(Byte)]
  PROVE  ReadAs(s)
<1>1. s.type = "Raw" /\ s.data \in Seq(Byte) /\ s = [type |-> "Raw", data |-> s.data]
  OBVIOUS
<1> DEFINE x == EncodeSample(s)
<1>2. x = <<1>> \o s.data
  BY <1>1 DEF EncodeSample
<1> HIDE DEF x
<1>3. x \in Seq(Byte) /\ x # <<>> /\ x[1] = 1 /\ Tail(x) = s.data
  <2>1. 1 \in Byte
    BY Tags
  <2> QED BY <1>1, <1>2, <2>1, Tagged
<1>4. DecodeSample(x) = Raw(Tail(x))
  BY <1>3 DEF DecodeSample
<1>5. ~Wraps(s)
  BY <1>1 DEF Wraps
<1> QED BY <1>1, <1>3, <1>4, <1>5 DEF ReadAs, AsSent, Raw, x

\* Nothing that is UTF-8 is replaced.
LEMMA LossyIs ==
  ASSUME NEW t \in Seq(Char)
  PROVE  Lossy(t) = t /\ t \in Seq(Byte)
<1>1. \A i \in DOMAIN t : t[i] # Base - 1
  <2>1. \A i \in DOMAIN t : t[i] \in Char
    OBVIOUS
  <2> QED BY <2>1 DEF Char
<1>2. t = [i \in DOMAIN t |-> t[i]]
  OBVIOUS
<1>3. t \in Seq(Byte)
  BY Tags
<1> QED BY <1>1, <1>2, <1>3 DEF Lossy

LEMMA JsonRead ==
  ASSUME NEW s \in [type : {"Json"}, text : Seq(Char)]
  PROVE  ReadAs(s)
<1>1. s.type = "Json" /\ s.text \in Seq(Char) /\ s = [type |-> "Json", text |-> s.text]
  OBVIOUS
<1> DEFINE x == EncodeSample(s)
<1>2. x = <<4>> \o s.text
  BY <1>1 DEF EncodeSample
<1> HIDE DEF x
<1>3. Lossy(s.text) = s.text /\ s.text \in Seq(Byte)
  BY <1>1, LossyIs
<1>4. x \in Seq(Byte) /\ x # <<>> /\ x[1] = 4 /\ Tail(x) = s.text
  <2>1. 4 \in Byte
    BY Tags
  <2> QED BY <1>2, <1>3, <2>1, Tagged
<1>5. DecodeSample(x) = [type |-> "Json", text |-> Lossy(Tail(x))]
  BY <1>4 DEF DecodeSample
<1>6. ~Wraps(s)
  BY <1>1 DEF Wraps
<1> QED BY <1>1, <1>3, <1>4, <1>5, <1>6 DEF ReadAs, AsSent, x

\* Values of one width stand at multiples of it.
LEMMA EqualParts ==
  ASSUME NEW w \in Nat, NEW vs \in Seq([1..w -> Byte])
  PROVE  /\ FlattenSeq(vs) \in Seq(Byte) /\ Len(FlattenSeq(vs)) = Len(vs) * w
         /\ \A i \in 1..Len(vs), j \in 1..w :
              /\ (i - 1) * w + j \in 1..(Len(vs) * w)
              /\ FlattenSeq(vs)[(i - 1) * w + j] = vs[i][j]
<1> DEFINE n == Len(vs)
           f == FlattenSeq(vs)
<1>1. n \in Nat /\ \A i \in 1..n : vs[i] \in [1..w -> Byte]
  OBVIOUS
<1>2. \A i \in 1..n : vs[i] \in Seq(Byte) /\ Len(vs[i]) = w
  BY <1>1, FunctionIsSeq
<1>3. vs \in Seq(Seq(Byte))
  BY <1>2
<1>4. /\ f \in Seq(Byte)
      /\ \E p \in [0..n -> Nat] :
           /\ p[0] = 0 /\ p[n] = Len(f)
           /\ \A i \in 1..n : /\ p[i] = p[i - 1] + Len(vs[i]) /\ p[i] <= Len(f)
                              /\ \A j \in 1..Len(vs[i]) : f[p[i - 1] + j] = vs[i][j]
  BY <1>3, FlattenParts
<1> HIDE DEF f, n
<1>5. PICK p \in [0..n -> Nat] :
        /\ p[0] = 0 /\ p[n] = Len(f)
        /\ \A i \in 1..n : /\ p[i] = p[i - 1] + Len(vs[i]) /\ p[i] <= Len(f)
                           /\ \A j \in 1..Len(vs[i]) : f[p[i - 1] + j] = vs[i][j]
  BY <1>4
<1>6. \A i \in 1..n : p[i] = p[i - 1] + w /\ \A j \in 1..w : f[p[i - 1] + j] = vs[i][j]
  BY <1>2, <1>5
<1> DEFINE T == {k \in Nat : k \in 0..n => p[k] = k * w}
<1>7. 0 \in T
  <2>1. 0 * w = 0
    BY SMT
  <2> QED BY <1>5, <2>1
<1>8. ASSUME NEW k \in Nat, k \in T, k + 1 \in 0..n PROVE p[k + 1] = (k + 1) * w
  <2>1. k \in 0..n /\ k + 1 \in 1..n /\ (k + 1) - 1 = k
    BY <1>1, <1>8
  <2>2. p[k] = k * w
    BY <1>8, <2>1
  <2>3. p[k + 1] = p[k] + w
    BY <1>6, <2>1
  <2>4. (k + 1) * w = k * w + w
    BY SMT
  <2> QED BY <2>2, <2>3, <2>4
<1>9. Nat \subseteq T
  <2>1. \A k \in Nat : k \in T => k + 1 \in T
    BY <1>8
  <2> HIDE DEF T
  <2> QED BY <1>7, <2>1, NatInduct
<1>10. \A k \in 0..n : p[k] = k * w
  <2> SUFFICES ASSUME NEW k \in 0..n PROVE p[k] = k * w
    OBVIOUS
  <2>1. k \in T
    <3> HIDE DEF T
    <3> QED BY <1>9
  <2> QED BY <2>1
<1>11. Len(f) = n * w
  <2>1. n \in 0..n
    BY <1>1
  <2> QED BY <1>5, <1>10, <2>1
<1>12. ASSUME NEW i \in 1..n, NEW j \in 1..w
       PROVE  (i - 1) * w + j \in 1..(n * w) /\ f[(i - 1) * w + j] = vs[i][j]
  <2>1. i - 1 \in 0..n /\ i \in 0..n /\ i - 1 \in Nat
    BY <1>1
  <2>2. p[i - 1] = (i - 1) * w /\ p[i] = p[i - 1] + w /\ f[p[i - 1] + j] = vs[i][j]
    BY <1>6, <1>10, <2>1
  <2>3. p[i] <= Len(f) /\ p[i - 1] \in Nat /\ p[i] \in Nat /\ Len(f) \in Nat
    BY <1>4, <1>5, <2>1
  <2>4. p[i - 1] + j \in 1..Len(f)
    BY <2>2, <2>3
  <2> QED BY <1>11, <2>2, <2>4
<1> QED BY <1>4, <1>11, <1>12 DEF f, n

\* The octets of a series.
IsSeries(x, tag, vs) == x = <<tag>> \o PutBE(Len(vs), 2) \o FlattenSeq(vs)

\* A series is read up to the count, which is what two octets hold of the length.
LEMMA ValuesRead ==
  ASSUME NEW type, NEW tag \in Byte, NEW w \in Nat, w = ValueWidth(type),
         NEW vs \in Seq([1..w -> Byte]), NEW x, IsSeries(x, tag, vs)
  PROVE  /\ x \in Seq(Byte) /\ x # <<>> /\ x[1] = tag
         /\ DecodeValues(type, x)
              = [type |-> type, values |-> SubSeq(vs, 1, Len(vs) % Capacity[2])]
<1> DEFINE h == <<tag>>
           m == PutBE(Len(vs), 2)
           t == FlattenSeq(vs)
           n == Len(vs)
           count == n % Capacity[2]
<1>1. h \in Seq(Byte) /\ Len(h) = 1 /\ h[1] = tag /\ n \in Nat
  OBVIOUS
<1>2. m \in Seq(Byte) /\ Len(m) = 2 /\ GetBE(m) = count
  <2>1. PICK k \in Nat : k = 2 /\ k \in 0..8
    OBVIOUS
  <2> HIDE DEF n
  <2>2. PutBE(n, k) \in Seq(Byte) /\ Len(PutBE(n, k)) = k
    BY <1>1, PutType
  <2>3. GetBE(PutBE(n, k)) = n % Capacity[k]
    BY <1>1, <2>1, GetPut
  <2> QED BY <2>1, <2>2, <2>3 DEF n
<1>3. /\ t \in Seq(Byte) /\ Len(t) = n * w
      /\ \A i \in 1..n, j \in 1..w : (i - 1) * w + j \in 1..(n * w) /\ t[(i - 1) * w + j] = vs[i][j]
  BY EqualParts
<1>4. count \in 0..n
  <2>1. 2 \in 0..8
    OBVIOUS
  <2>2. Capacity[2] \in Nat \ {0}
    BY <2>1, CapacityIs
  <2>3. n % Capacity[2] \in 0..(Capacity[2] - 1) /\ n % Capacity[2] <= n
    BY <1>1, <2>2, RemainderIs
  <2> QED BY <1>1, <2>2, <2>3
<1>5. IsThree(x, h, m, t)
  BY DEF IsThree, IsSeries
<1> HIDE DEF h, m, t, count, n
<1>6. /\ x \in Seq(Byte) /\ Len(x) = 1 + 2 + Len(t) /\ x[1] = tag /\ Slice(x, 2, 2) = m
      /\ \A i \in 1..Len(t) : x[3 + i] = t[i]
  <2>0. h \in Seq(Byte) /\ m \in Seq(Byte) /\ t \in Seq(Byte)
    BY <1>1, <1>2, <1>3
  <2>1. /\ x \in Seq(Byte) /\ Len(x) = Len(h) + Len(m) + Len(t)
        /\ Slice(x, Len(h) + 1, Len(m)) = m
        /\ \A i \in 1..Len(h) : x[i] = h[i]
        /\ \A i \in 1..Len(t) : x[Len(h) + Len(m) + i] = t[i]
    BY <1>5, <2>0, Between
  <2> QED BY <1>1, <1>2, <2>1
<1>7. x # <<>>
  <2>1. Len(t) \in Nat
    BY <1>3
  <2> QED BY <1>6, <2>1
<1>8. Len(x) >= 3 /\ Len(x) - 3 >= count * w
  <2>1. count * w <= n * w /\ n * w \in Nat /\ count * w \in Nat
    <3>1. PICK d \in Nat : n = count + d /\ count \in Nat
      <4>1. n - count \in Nat /\ n = count + (n - count)
        BY <1>1, <1>4
      <4> QED BY <1>4, <4>1
    <3>2. n * w = count * w + d * w /\ d * w \in Nat /\ count * w \in Nat
      BY <3>1, SMT
    <3> QED BY <3>2
  <2> QED BY <1>3, <1>6, <2>1
<1>9. ASSUME NEW i \in 1..count PROVE Slice(x, 4 + (i - 1) * w, w) = vs[i]
  <2>1. i \in 1..n
    BY <1>1, <1>4
  <2>2. PICK a \in Int : a = (i - 1) * w
    <3>1. (i - 1) * w \in Int
      BY SMT
    <3> QED BY <3>1
  <2>3. \A j \in 1..w : a + j \in 1..Len(t) /\ t[a + j] = vs[i][j]
    BY <1>3, <2>1, <2>2
  <2>4. \A j \in 1..w : x[4 + a + j - 1] = vs[i][j]
    <3>1. \A j \in 1..w : 4 + a + j - 1 = 3 + (a + j)
      OBVIOUS
    <3> QED BY <1>6, <2>3, <3>1
  <2>5. vs[i] = [j \in 1..w |-> vs[i][j]]
    BY <2>1 DEF n
  <2> QED BY <2>2, <2>4, <2>5 DEF Slice
<1>10. [i \in 1..count |-> Slice(x, 4 + (i - 1) * w, w)] = SubSeq(vs, 1, count)
  <2>1. SubSeq(vs, 1, count) = [i \in 1..count |-> vs[i]]
    BY <1>1, <1>4 DEF n
  <2> QED BY <1>9, <2>1
<1>11. DecodeValues(type, x) = [type |-> type, values |-> SubSeq(vs, 1, count)]
  BY <1>2, <1>6, <1>8, <1>10 DEF DecodeValues
<1> QED BY <1>6, <1>7, <1>11 DEF count, n

\* The first values of a series, and all of it.
LEMMA FirstOnes ==
  ASSUME NEW S, NEW vs \in Seq(S)
  PROVE  SubSeq(vs, 1, Len(vs)) = vs /\ Len(vs) \in Nat
OBVIOUS

LEMMA TimeSeriesRead ==
  ASSUME NEW s, NEW w \in Nat, NEW type \in {"TimeSeries", "TimeSeriesF32"}, w = ValueWidth(type),
         s \in [type : {type}, values : Seq([1..w -> Byte])]
  PROVE  ReadAs(s)
<1> DEFINE vs == s.values
           k == Len(vs) % Capacity[2]
           tag == IF type = "TimeSeries" THEN 2 ELSE 3
           x == EncodeSample(s)
           d == [type |-> type, values |-> SubSeq(vs, 1, k)]
<1>1. s.type = type /\ vs \in Seq([1..w -> Byte]) /\ s = [type |-> type, values |-> vs]
  OBVIOUS
<1>2. x = <<tag>> \o PutBE(Len(vs), 2) \o FlattenSeq(vs)
  <2>1. CASE type = "TimeSeries"
    BY <1>1, <2>1 DEF EncodeSample
  <2>2. CASE type = "TimeSeriesF32"
    BY <1>1, <2>2 DEF EncodeSample
  <2> QED BY <2>1, <2>2
<1>3. tag \in Byte
  BY Tags
<1> HIDE DEF vs, x, k
<1>4. x \in Seq(Byte) /\ x # <<>> /\ x[1] = tag /\ DecodeValues(type, x) = d
  <2> HIDE DEF tag, d
  <2> DEFINE y == <<tag>> \o PutBE(Len(vs), 2) \o FlattenSeq(vs)
  <2>1. vs \in Seq([1..w -> Byte])
    BY <1>1
  <2>2. /\ y \in Seq(Byte) /\ y # <<>> /\ y[1] = tag
        /\ DecodeValues(type, y) = [type |-> type, values |-> SubSeq(vs, 1, Len(vs) % Capacity[2])]
    <3>1. IsSeries(y, tag, vs)
      BY DEF IsSeries
    <3> HIDE DEF y
    <3> QED BY <1>3, <2>1, <3>1, ValuesRead
  <2> QED BY <1>2, <2>2 DEF k, d
<1>5. DecodeSample(x) = d
  <2>1. CASE type = "TimeSeries"
    BY <1>4, <2>1 DEF DecodeSample
  <2>2. CASE type = "TimeSeriesF32"
    BY <1>4, <2>2 DEF DecodeSample
  <2> QED BY <2>1, <2>2
<1>6. Wraps(s) => Cut(d, s)
  <2>1. s.type # "ImageFrame"
    BY <1>1
  <2>2. [s EXCEPT !.values = SubSeq(@, 1, Len(@) % Capacity[2])] = d
    <3>1. s.values = vs
      BY DEF vs
    <3>2. \A e : [s EXCEPT !.values = e] = [type |-> type, values |-> e]
      BY <1>1
    <3> QED BY <3>1, <3>2 DEF k
  <2> QED BY <2>1, <2>2 DEF Cut
<1>7. ~Wraps(s) => d = s
  <2> SUFFICES ASSUME ~Wraps(s) PROVE SubSeq(vs, 1, k) = vs
    BY <1>1
  <2>1. ~(Len(vs) >= Capacity[2])
    BY <1>1 DEF Wraps, vs
  <2>2. Len(vs) \in Nat /\ SubSeq(vs, 1, Len(vs)) = vs
    BY <1>1, FirstOnes
  <2>3. Capacity[2] \in Nat \ {0}
    <3>1. 2 \in 0..8
      OBVIOUS
    <3> QED BY <3>1, CapacityIs
  <2>4. k = Len(vs)
    <3> DEFINE n == Len(vs)
               c == Capacity[2]
    <3>1. n \in Nat /\ c \in Nat \ {0} /\ n < c
      BY <2>1, <2>2, <2>3
    <3> HIDE DEF n, c
    <3>2. n % c = n
      BY <3>1, RemainderIs
    <3> QED BY <3>2 DEF k, n, c
  <2> QED BY <2>2, <2>4
<1> QED BY <1>4, <1>5, <1>6, <1>7 DEF ReadAs, AsSent, x

\* The widths of the number and of the time.
LEMMA Widths ==
  /\ 1 \in 0..8 /\ 2 \in 0..8 /\ 4 \in 0..8 /\ 8 \in 0..8
  /\ Capacity[1] = Base /\ Capacity[1] \in Nat \ {0} /\ Capacity[4] \in Nat \ {0}
  /\ Capacity[8] \in Nat \ {0}
<1>1. 1 \in 0..8 /\ 2 \in 0..8 /\ 4 \in 0..8 /\ 8 \in 0..8
  OBVIOUS
<1>2. Capacity[1] \in Nat \ {0} /\ Capacity[4] \in Nat \ {0} /\ Capacity[8] \in Nat \ {0}
  BY <1>1, CapacityIs
<1>3. Capacity[1] = Base
  <2>1. Capacity[1] = Capacity[0] * Base
    BY CapacityIs
  <2> QED BY <2>1, CapacityIs, SensorWireAssumption
<1> QED BY <1>1, <1>2, <1>3

\* Three parts in either order of putting them together.
LEMMA Twice ==
  ASSUME NEW a \in Seq(Byte), NEW b \in Seq(Byte), NEW c \in Seq(Byte), NEW d \in Seq(Byte)
  PROVE  /\ IsThree(((a \o b) \o c) \o d, a, b, c \o d)
         /\ IsThree(((a \o b) \o c) \o d, a \o b, c, d)
         /\ a \o b \in Seq(Byte) /\ Len(a \o b) = Len(a) + Len(b) /\ c \o d \in Seq(Byte)
<1> DEFINE ab == a \o b
<1>1. ab \in Seq(Byte) /\ Len(ab) = Len(a) + Len(b)
  BY ConcatAt
<1>2. IsThree(((a \o b) \o c) \o d, ab, c, d)
  BY DEF IsThree
<1> HIDE DEF ab
<1>3. (ab \o c) \o d = ab \o (c \o d) /\ c \o d \in Seq(Byte)
  <2>1. ab \in Seq(Byte)
    BY <1>1
  <2>2. c \o d \in Seq(Byte)
    BY ConcatAt
  <2>3. (ab \o c) \o d = ab \o (c \o d)
    BY <2>1, Assoc
  <2> QED BY <2>2, <2>3
<1> QED BY <1>1, <1>2, <1>3 DEF IsThree, ab

LEMMA AudioRead ==
  ASSUME NEW s \in [type : {"AudioPcm"}, sample_rate : 0..(Capacity[4] - 1), channels : Byte,
                    data : Seq(Byte)]
  PROVE  ReadAs(s)
<1>1. /\ s.type = "AudioPcm" /\ s.sample_rate \in 0..(Capacity[4] - 1) /\ s.channels \in Byte
      /\ s.data \in Seq(Byte)
      /\ s = [type |-> "AudioPcm", sample_rate |-> s.sample_rate, channels |-> s.channels,
              data |-> s.data]
  OBVIOUS
<1> DEFINE x == EncodeSample(s)
           h == <<5>>
           n == s.sample_rate
           r == PutBE(n, 4)
           c == s.channels
           o == PutBE(c, 1)
           t == s.data
<1>2. x = ((h \o r) \o o) \o t
  BY <1>1 DEF EncodeSample
<1>3. h \in Seq(Byte) /\ Len(h) = 1 /\ h[1] = 5
  BY Tags
<1>4. n \in Nat /\ n < Capacity[4]
  BY <1>1, Widths
<1>5. c \in Nat /\ c < Capacity[1]
  BY <1>1, Widths, Tags DEF Byte
<1>6. t \in Seq(Byte)
  BY <1>1
<1> HIDE DEF x, h, n, t, c
<1>7. r \in Seq(Byte) /\ Len(r) = 4 /\ GetBE(r) = n
  <2>1. PICK k \in Nat : k = 4 /\ k \in 0..8
    OBVIOUS
  <2>2. PutBE(n, k) \in Seq(Byte) /\ Len(PutBE(n, k)) = k
    BY <1>4, PutType
  <2>3. GetBE(PutBE(n, k)) = n % Capacity[k]
    BY <1>4, <2>1, GetPut
  <2>4. n % Capacity[4] = n
    BY <1>4, Widths, RemainderIs
  <2> QED BY <2>1, <2>2, <2>3, <2>4
<1>8. o \in Seq(Byte) /\ Len(o) = 1 /\ o[1] = c
  <2>1. PICK k \in Nat : k = 1
    OBVIOUS
  <2>2. PutBE(c, k) \in Seq(Byte)
    BY <1>5, PutType
  <2>3. Len(PutBE(c, 1)) = 1 /\ PutBE(c, 1)[1] = c % Capacity[1]
    BY <1>5, PutOne
  <2>4. c % Capacity[1] = c
    BY <1>5, Widths, RemainderIs
  <2> QED BY <2>1, <2>2, <2>3, <2>4
<1> HIDE DEF r, o
<1>9. /\ IsThree(x, h, r, o \o t) /\ IsThree(x, h \o r, o, t)
      /\ h \o r \in Seq(Byte) /\ Len(h \o r) = Len(h) + Len(r) /\ o \o t \in Seq(Byte)
  <2>1. h \in Seq(Byte) /\ r \in Seq(Byte) /\ o \in Seq(Byte) /\ t \in Seq(Byte)
    BY <1>3, <1>6, <1>7, <1>8
  <2> QED BY <1>2, <2>1, Twice
<1>10. x \in Seq(Byte) /\ x[1] = 5 /\ Slice(x, 2, 4) = r
  <2> DEFINE ot == o \o t
  <2>1. h \in Seq(Byte) /\ r \in Seq(Byte) /\ ot \in Seq(Byte)
    BY <1>3, <1>7, <1>9
  <2>3. IsThree(x, h, r, ot)
    BY <1>9
  <2> HIDE DEF ot
  <2>2. /\ x \in Seq(Byte) /\ Slice(x, Len(h) + 1, Len(r)) = r
        /\ \A i \in 1..Len(h) : x[i] = h[i]
    BY <2>1, <2>3, Between
  <2> QED BY <1>3, <1>7, <2>2
<1>11. Len(x) = 6 + Len(t) /\ Len(t) \in Nat /\ Slice(x, 6, 1) = o /\ After(x, 7) = t
  <2> DEFINE hr == h \o r
  <2>1. hr \in Seq(Byte) /\ o \in Seq(Byte) /\ IsThree(x, hr, o, t) /\ Len(hr) = 5
    BY <1>3, <1>7, <1>8, <1>9
  <2> HIDE DEF hr
  <2>2. hr \in Seq(Byte) /\ o \in Seq(Byte) /\ t \in Seq(Byte)
    BY <1>6, <2>1
  <2>4. IsThree(x, hr, o, t)
    BY <2>1
  <2>3. /\ Len(x) = Len(hr) + Len(o) + Len(t) /\ Len(t) \in Nat
        /\ Slice(x, Len(hr) + 1, Len(o)) = o
        /\ After(x, Len(hr) + Len(o) + 1) = t
    BY <2>2, <2>4, Between
  <2> QED BY <1>8, <2>1, <2>3
<1>12. x[6] = c
  <2>1. Slice(x, 6, 1)[1] = x[6 + 1 - 1]
    BY DEF Slice
  <2> QED BY <1>8, <1>11, <2>1
<1>13. x # <<>> /\ Len(x) >= 6
  BY <1>10, <1>11
<1>14. DecodeAudio(x) = [type |-> "AudioPcm", sample_rate |-> n, channels |-> c, data |-> t]
  BY <1>7, <1>10, <1>11, <1>12, <1>13 DEF DecodeAudio
<1>15. DecodeSample(x) = DecodeAudio(x)
  BY <1>10, <1>13 DEF DecodeSample
<1>16. ~Wraps(s)
  BY <1>1 DEF Wraps
<1> QED BY <1>1, <1>10, <1>14, <1>15, <1>16 DEF ReadAs, AsSent, x, n, c, t

\* The first of two parts, as far as it goes.
LEMMA SubSeqConcat ==
  ASSUME NEW a \in Seq(Char), NEW b \in Seq(Byte), NEW m \in 0..Len(a)
  PROVE  SubSeq(a \o b, 1, m) \in Seq(Char)
<1> DEFINE u == a \o b
<1>0. a \in Seq(Byte) /\ m \in Nat /\ \A i \in 1..Len(a) : a[i] \in Char
  BY Tags
<1>1. u \in Seq(Byte) /\ Len(u) = Len(a) + Len(b) /\ Len(b) \in Nat /\ \A i \in 1..Len(a) : u[i] = a[i]
  BY <1>0, ConcatAt
<1> HIDE DEF u
<1>2. SubSeq(u, 1, m) = [i \in 1..m |-> u[i]]
  BY <1>0, <1>1
<1>3. \A i \in 1..m : u[i] \in Char
  BY <1>0, <1>1
<1>4. [i \in 1..m |-> u[i]] \in [1..m -> Char]
  BY <1>3
<1>5. SubSeq(u, 1, m) \in Seq(Char)
  BY <1>0, <1>2, <1>4, FunctionIsSeq
<1> QED BY <1>5 DEF u

LEMMA ImageRead ==
  ASSUME NEW s \in [type : {"ImageFrame"}, mime : Seq(Char), data : Seq(Byte)]
  PROVE  ReadAs(s)
<1>1. /\ s.type = "ImageFrame" /\ s.mime \in Seq(Char) /\ s.data \in Seq(Byte)
      /\ s = [type |-> "ImageFrame", mime |-> s.mime, data |-> s.data]
  OBVIOUS
<1> DEFINE x == EncodeSample(s)
           h == <<6>>
           e == s.mime
           l == PutBE(Len(e), 1)
           t == s.data
           u == e \o t
           k == Len(e) % Capacity[1]
           a == SubSeq(u, 1, k)
           b == SubSeq(u, k + 1, Len(u))
           hl == h \o l
<1>2. x = ((h \o l) \o e) \o t
  BY <1>1 DEF EncodeSample
<1>3. h \in Seq(Byte) /\ Len(h) = 1 /\ h[1] = 6
  BY Tags
<1>4. e \in Seq(Char) /\ e \in Seq(Byte) /\ t \in Seq(Byte) /\ Len(e) \in Nat /\ Lossy(e) = e
  BY <1>1, LossyIs
<1> HIDE DEF x, h, e, t
<1>5. l \in Seq(Byte) /\ Len(l) = 1 /\ l[1] = k
  <2>1. PICK w \in Nat : w = 1
    OBVIOUS
  <2>2. PutBE(Len(e), w) \in Seq(Byte)
    BY <1>4, PutType
  <2>3. Len(PutBE(Len(e), 1)) = 1 /\ PutBE(Len(e), 1)[1] = Len(e) % Capacity[1]
    BY <1>4, PutOne
  <2> QED BY <2>1, <2>2, <2>3
<1>6. k \in 0..Len(e) /\ (Len(e) < Capacity[1] => k = Len(e))
  <2>1. k \in 0..(Capacity[1] - 1) /\ k <= Len(e) /\ (Len(e) < Capacity[1] => k = Len(e))
    BY <1>4, Widths, RemainderIs
  <2> HIDE DEF k
  <2> QED BY <1>4, <2>1, Widths
<1> HIDE DEF l, k
<1>7. /\ IsThree(x, h, l, u) /\ IsThree(x, hl, e, t)
      /\ hl \in Seq(Byte) /\ Len(hl) = 2 /\ u \in Seq(Byte)
  <2>1. h \in Seq(Byte) /\ l \in Seq(Byte) /\ e \in Seq(Byte) /\ t \in Seq(Byte)
    BY <1>3, <1>4, <1>5
  <2>2. /\ IsThree(x, h, l, e \o t) /\ IsThree(x, h \o l, e, t)
        /\ h \o l \in Seq(Byte) /\ Len(h \o l) = Len(h) + Len(l) /\ e \o t \in Seq(Byte)
    BY <1>2, <2>1, Twice
  <2> QED BY <1>3, <1>5, <2>2
<1>8. x \in Seq(Byte) /\ x[1] = 6 /\ Slice(x, 2, 1) = l /\ Len(x) = 2 + Len(u) /\ Len(u) \in Nat
  <2> HIDE DEF u
  <2>1. h \in Seq(Byte) /\ l \in Seq(Byte) /\ u \in Seq(Byte)
    BY <1>3, <1>5, <1>7
  <2>2. /\ x \in Seq(Byte) /\ Slice(x, Len(h) + 1, Len(l)) = l /\ Len(u) \in Nat
        /\ Len(x) = Len(h) + Len(l) + Len(u) /\ \A i \in 1..Len(h) : x[i] = h[i]
    BY <1>7, <2>1, Between
  <2> QED BY <1>3, <1>5, <2>2
<1>9. x[2] = k
  <2>1. Slice(x, 2, 1)[1] = x[2 + 1 - 1]
    BY DEF Slice
  <2> QED BY <1>5, <1>8, <2>1
<1>10. Len(u) = Len(e) + Len(t) /\ Len(t) \in Nat /\ k \in 0..Len(u)
  <2>1. Len(u) = Len(e) + Len(t) /\ Len(t) \in Nat
    BY <1>4, ConcatAt
  <2> HIDE DEF u
  <2> QED BY <1>4, <1>6, <2>1
<1>11. a \in Seq(Char) /\ a \in Seq(Byte) /\ Lossy(a) = a
  <2>1. a \in Seq(Char)
    BY <1>4, <1>6, SubSeqConcat
  <2> HIDE DEF a
  <2> QED BY <2>1, LossyIs
<1> HIDE DEF u, hl
<1>12. b \in Seq(Byte) /\ Len(a) = k /\ u = a \o b
  <2>1. CanSplit(Byte, u, k)
    BY <1>7, <1>10 DEF CanSplit
  <2>2. SplitsAt(Byte, u, k)
    BY <2>1, Splits
  <2> QED BY <2>2 DEF SplitsAt
<1> HIDE DEF a, b
<1>13. IsThree(x, hl, a, b)
  <2>1. hl \in Seq(Byte) /\ a \in Seq(Byte) /\ b \in Seq(Byte)
    BY <1>7, <1>11, <1>12
  <2>2. x = hl \o u
    BY <1>7 DEF IsThree, hl
  <2>3. (hl \o a) \o b = hl \o (a \o b)
    BY <2>1, Assoc
  <2> QED BY <1>12, <2>2, <2>3 DEF IsThree
<1>14. Slice(x, 3, k) = a /\ After(x, 3 + k) = b
  <2>1. hl \in Seq(Byte) /\ a \in Seq(Byte) /\ b \in Seq(Byte)
    BY <1>7, <1>11, <1>12
  <2>2. Slice(x, Len(hl) + 1, Len(a)) = a /\ After(x, Len(hl) + Len(a) + 1) = b
    BY <1>13, <2>1, Between
  <2>3. k \in Nat /\ Len(hl) + 1 = 3 /\ Len(hl) + Len(a) + 1 = 3 + k /\ Len(a) = k
    BY <1>4, <1>6, <1>7, <1>12
  <2> QED BY <2>2, <2>3
<1>15. MimeFits(x) /\ x # <<>>
  BY <1>8, <1>9, <1>10 DEF MimeFits
<1> DEFINE d == [type |-> "ImageFrame", mime |-> a, data |-> b]
<1>16. DecodeSample(x) = d
  <2>1. DecodeImage(x) = d
    BY <1>9, <1>11, <1>14, <1>15 DEF DecodeImage
  <2>2. DecodeSample(x) = DecodeImage(x)
    BY <1>8, <1>15 DEF DecodeSample
  <2> QED BY <2>1, <2>2
<1>17. Cut(d, s)
  <2>1. d.type = s.type /\ d.mime \o d.data = u
    BY <1>1, <1>12
  <2> QED BY <1>1, <2>1 DEF Cut, u, e, t
<1>18. ASSUME ~Wraps(s) PROVE d = s
  <2>1. Len(e) < Capacity[1]
    BY <1>1, <1>4, <1>18, Widths DEF Wraps, e
  <2>2. k = Len(e)
    BY <1>6, <2>1
  <2>3. hl \in Seq(Byte) /\ e \in Seq(Byte) /\ t \in Seq(Byte) /\ Len(hl) = 2 /\ Len(e) \in Nat
    BY <1>4, <1>7
  <2>4. Slice(x, Len(hl) + 1, Len(e)) = e /\ After(x, Len(hl) + Len(e) + 1) = t
    <3>1. hl \in Seq(Byte) /\ e \in Seq(Byte) /\ t \in Seq(Byte)
      BY <2>3
    <3>2. IsThree(x, hl, e, t)
      BY <1>7
    <3> QED BY <3>1, <3>2, Between
  <2>5. Slice(x, 3, k) = e /\ After(x, 3 + k) = t
    <3>1. Len(hl) + 1 = 3 /\ Len(hl) + Len(e) + 1 = 3 + k
      BY <2>2, <2>3
    <3> QED BY <2>2, <2>4, <3>1
  <2>6. a = e /\ b = t
    BY <1>14, <2>5
  <2> QED BY <1>1, <2>6 DEF e, t
<1> QED BY <1>8, <1>16, <1>17, <1>18 DEF ReadAs, AsSent, x

\* The six types are all there are.
LEMMA SampleRead ==
  ASSUME NEW s \in SensorData
  PROVE  ReadAs(s)
<1>1. CASE s \in [type : {"Raw"}, data : Seq(Byte)]
  BY <1>1, RawRead
<1>2. CASE s \in [type : {"TimeSeries"}, values : Seq([1..8 -> Byte])]
  <2>1. PICK w \in Nat : w = 8
    OBVIOUS
  <2>2. PICK type \in {"TimeSeries", "TimeSeriesF32"} : type = "TimeSeries"
    OBVIOUS
  <2>3. w = ValueWidth(type) /\ s \in [type : {type}, values : Seq([1..w -> Byte])]
    BY <1>2, <2>1, <2>2 DEF ValueWidth
  <2> QED BY <2>3, TimeSeriesRead
<1>3. CASE s \in [type : {"TimeSeriesF32"}, values : Seq([1..4 -> Byte])]
  <2>1. PICK w \in Nat : w = 4
    OBVIOUS
  <2>2. PICK type \in {"TimeSeries", "TimeSeriesF32"} : type = "TimeSeriesF32"
    OBVIOUS
  <2>3. w = ValueWidth(type) /\ s \in [type : {type}, values : Seq([1..w -> Byte])]
    BY <1>3, <2>1, <2>2 DEF ValueWidth
  <2> QED BY <2>3, TimeSeriesRead
<1>4. CASE s \in [type : {"Json"}, text : Seq(Char)]
  BY <1>4, JsonRead
<1>5. CASE s \in [type : {"AudioPcm"}, sample_rate : 0..(Capacity[4] - 1), channels : Byte,
                  data : Seq(Byte)]
  BY <1>5, AudioRead
<1>6. CASE s \in [type : {"ImageFrame"}, mime : Seq(Char), data : Seq(Byte)]
  BY <1>6, ImageRead
<1> QED BY <1>1, <1>2, <1>3, <1>4, <1>5, <1>6 DEF SensorData

\* A chunk keeps its number and its payload.
LEMMA ChunkRead ==
  ASSUME NEW q \in 0..(Capacity[8] - 1), NEW p \in Seq(Byte)
  PROVE  DecodeWire(EncodeWire(q, p)) = [seq_id |-> q, payload |-> p]
<1> DEFINE a == PutBE(q, 8)
           z == PutBE(0, 8)
           x == EncodeWire(q, p)
<1>1. q \in Nat /\ q < Capacity[8]
  BY Widths
<1>2. a \in Seq(Byte) /\ Len(a) = 8 /\ GetBE(a) = q /\ z \in Seq(Byte) /\ Len(z) = 8
  <2>1. PICK k \in Nat, n \in Nat : k = 8 /\ n = 0 /\ k \in 0..8
    OBVIOUS
  <2>2. PutBE(q, k) \in Seq(Byte) /\ Len(PutBE(q, k)) = k
    BY <1>1, PutType
  <2>3. PutBE(n, k) \in Seq(Byte) /\ Len(PutBE(n, k)) = k
    BY PutType
  <2>4. GetBE(PutBE(q, k)) = q % Capacity[k]
    BY <1>1, <2>1, GetPut
  <2>5. q % Capacity[8] = q
    BY <1>1, Widths, RemainderIs
  <2> QED BY <2>1, <2>2, <2>3, <2>4, <2>5
<1>3. IsThree(x, a, z, p)
  BY DEF IsThree, EncodeWire
<1> HIDE DEF a, z, x
<1>4. /\ Len(x) = Len(a) + Len(z) + Len(p) /\ Len(p) \in Nat
      /\ After(x, Len(a) + Len(z) + 1) = p
      /\ \A i \in 1..Len(a) : x[i] = a[i]
  <2>1. a \in Seq(Byte) /\ z \in Seq(Byte)
    BY <1>2
  <2> QED BY <1>3, <2>1, Between
<1>5. ~(Len(x) < 16) /\ After(x, 17) = p
  BY <1>2, <1>4
<1>6. Slice(x, 1, 8) = a
  <2>1. \A i \in 1..8 : x[1 + i - 1] = a[i]
    <3>1. \A i \in 1..8 : 1 + i - 1 = i
      OBVIOUS
    <3> QED BY <1>2, <1>4, <3>1
  <2>2. \A u \in Seq(Byte) : u = [i \in 1..Len(u) |-> u[i]]
    OBVIOUS
  <2>3. a = [i \in 1..8 |-> a[i]]
    BY <1>2, <2>2
  <2> QED BY <2>1, <2>3 DEF Slice
<1> QED BY <1>2, <1>5, <1>6 DEF DecodeWire, x

-------------------------------------------------------------------------------
(* The consumer of a stream. *)

\* What recv_sensor_data makes of a message.
Received(octets) == [seq_id |-> DecodeWire(octets).seq_id,
                     data |-> DecodeSample(DecodeWire(octets).payload)]

\* What was sent is what is on the topic, and what was received comes from there.
SensorInv ==
  /\ onTopic = <<>> => sampled = <<>> /\ decoded = <<>>
  /\ sampled # <<>> => \E s \in Samples, q \in Numbers :
                         /\ sampled = <<[seq_id |-> q, data |-> s]>>
                         /\ onTopic = <<EncodeWire(q, EncodeSample(s))>>
  /\ decoded # <<>> => decoded = <<Received(onTopic[1])>>

\* The stream keeps to it: a message is on the topic before anybody receives it, and
\* stays there (send_sensor, recv_sensor_data).
THEOREM SensorInvariant == SensorSpec => []SensorInv
<1>1. SensorInit => SensorInv
  BY DEF SensorInit, SensorInv
<1>2. ASSUME SensorInv, [SensorNext]_sensorVars PROVE SensorInv'
  <2>1. ASSUME NEW s \in Samples, NEW q \in Numbers, SendSample(s, q) PROVE SensorInv'
    <3>1. sampled = <<>> /\ decoded = <<>>
      BY <1>2, <2>1 DEF SensorInv, SendSample
    <3> QED BY <2>1, <3>1 DEF SensorInv, SendSample
  <2>2. ASSUME NEW octets \in Messages, PublishOther(octets) PROVE SensorInv'
    <3>1. sampled = <<>> /\ decoded = <<>>
      BY <1>2, <2>2 DEF SensorInv, PublishOther
    <3> QED BY <2>2, <3>1 DEF SensorInv, PublishOther
  <2>3. ASSUME RecvSample PROVE SensorInv'
    <3>1. decoded' = <<Received(onTopic[1])>> /\ onTopic # <<>> /\ UNCHANGED <<sampled, onTopic>>
      BY <2>3 DEF RecvSample, Received
    <3> QED BY <1>2, <3>1 DEF SensorInv
  <2>4. ASSUME UNCHANGED sensorVars PROVE SensorInv'
    BY <1>2, <2>4 DEF SensorInv, sensorVars
  <2> QED BY <1>2, <2>1, <2>2, <2>3, <2>4 DEF SensorNext
<1> QED BY <1>1, <1>2, PTL DEF SensorSpec

\* Whatever data are sent under whatever number, and whatever octets others publish,
\* the consumer gets the number and the data, except for what the two length fields
\* cut off (SensorDataType::encode and decode, StreamChunk::encode and decode).
THEOREM SensorDataAsSent == SensorSpec => []TypedAsSent
<1>1. ASSUME SensorInv PROVE TypedAsSent
  <2> SUFFICES ASSUME sampled # <<>>, decoded # <<>>
               PROVE  /\ decoded[1].seq_id = sampled[1].seq_id
                      /\ AsSent(decoded[1].data, sampled[1].data)
    BY DEF TypedAsSent, AsSent
  <2>1. PICK s \in Samples, q \in Numbers :
          /\ sampled = <<[seq_id |-> q, data |-> s]>>
          /\ onTopic = <<EncodeWire(q, EncodeSample(s))>>
    BY <1>1 DEF SensorInv
  <2>2. s \in SensorData /\ q \in 0..(Capacity[8] - 1)
    BY SamplesAssumption
  <2>3. decoded = <<Received(onTopic[1])>>
    BY <1>1 DEF SensorInv
  <2> DEFINE p == EncodeSample(s)
  <2>4. p \in Seq(Byte) /\ AsSent(DecodeSample(p), s)
    BY <2>2, SampleRead DEF ReadAs
  <2>5. DecodeWire(EncodeWire(q, p)) = [seq_id |-> q, payload |-> p]
    <3>1. p \in Seq(Byte)
      BY <2>4
    <3> HIDE DEF p
    <3> QED BY <2>2, <3>1, ChunkRead
  <2>6. decoded[1] = [seq_id |-> q, data |-> DecodeSample(p)]
    <3>1. decoded[1] = Received(EncodeWire(q, p))
      BY <2>1, <2>3
    <3> HIDE DEF p
    <3> QED BY <2>5, <3>1 DEF Received
  <2> HIDE DEF p
  <2>7. sampled[1] = [seq_id |-> q, data |-> s]
    BY <2>1
  <2> QED BY <2>4, <2>6, <2>7
<1> QED BY <1>1, SensorInvariant, PTL

===============================================================================

------------------------- MODULE ProxyHeaderProofs -------------------------
(***************************************************************************)
(* What proxy::parse makes of a buffer and of every longer one, for every  *)
(* sequence of bytes, and from it the properties of ProxyHeader for every  *)
(* set of streams, every limit and every deadline.                         *)
(***************************************************************************)
EXTENDS ProxyHeader, SequenceTheorems, TLAPS

\* c goes on where b ends.
Extends(c, b) == Len(b) <= Len(c) /\ \A i \in 1 .. Len(b) : c[i] = b[i]

\* The length field of proxy.rs is a number of two bytes.
LEMMA AddressLengthNat ==
    ASSUME NEW b \in Seq(Byte), Len(b) >= 16
    PROVE  AddressLength(b) \in Nat
<1>1. b[15] \in Byte /\ b[16] \in Byte
  OBVIOUS
<1>2. \A x, y \in Byte : 256 * x + y \in Nat
  BY DEF Byte
<1>3. 256 * b[15] + b[16] \in Nat
  BY <1>1, <1>2, Zenon
<1> QED
  BY <1>3, Zenon DEF AddressLength

\* The parts of HeaderOf, one by one.
LEMMA HeaderParts ==
    ASSUME NEW b, NEW n, HeaderOf(b, n)
    PROVE  /\ n <= Len(b) /\ PREFIX_LEN <= n /\ n <= MaxHeader
           /\ \A i \in 1 .. 12 : b[i] = SIGNATURE[i]
           /\ n = PREFIX_LEN + AddressLength(b)
           /\ b[13] = 32 \/ b[13] = 33
           /\ b[13] = 32 \/ b[14] \in NoNetworkPeer \/ (b[14] \in IPv4 /\ AddressLength(b) >= 12)
                \/ (b[14] \in IPv6 /\ AddressLength(b) >= 36)
BY Zenon DEF HeaderOf

\* What buf[..seen] == SIGNATURE[..seen] says about the bytes of a longer buffer.
LEMMA AgreesExtends ==
    ASSUME NEW b \in Seq(Byte), NEW c \in Seq(Byte), Extends(c, b), NEW n \in Nat,
           HeaderOf(c, n)
    PROVE  Agrees(b, SIGNATURE)
<1>1. Len(SIGNATURE) = 12
  BY DEF SIGNATURE
<1>2. \A i \in 1 .. 12 : c[i] = SIGNATURE[i]
  BY DEF HeaderOf
<1>3. \A i \in 1 .. Len(b) : c[i] = b[i]
  BY DEF Extends
<1>4. \A i \in 1 .. 12 : i <= Len(b) => b[i] = SIGNATURE[i]
  <2> SUFFICES ASSUME NEW i \in 1 .. 12, i <= Len(b)
               PROVE  b[i] = SIGNATURE[i]
    OBVIOUS
  <2>1. i \in 1 .. Len(b)
    OBVIOUS
  <2> QED
    BY <2>1, <1>2, <1>3
<1> QED
  BY <1>1, <1>4 DEF Agrees

\* A buffer that agrees with the v1 signature is no v2 header.
LEMMA V1IsNotV2 ==
    ASSUME NEW b \in Seq(Byte), Len(b) >= 1, Agrees(b, V1_SIGNATURE)
    PROVE  ~Agrees(b, SIGNATURE)
<1>1. Len(SIGNATURE) = 12 /\ Len(V1_SIGNATURE) = 6 /\ SIGNATURE[1] = 13 /\ V1_SIGNATURE[1] = 80
  BY DEF SIGNATURE, V1_SIGNATURE
<1> QED
  BY <1>1 DEF Agrees

\* The shifts and masks on the version and command byte.
LEMMA VersionCommand ==
    ASSUME NEW v \in Byte
    PROVE  /\ v \div 16 = 2 /\ v % 16 <= 1 <=> v \in {32, 33}
           /\ v \in {32, 33} => (v % 16 = 0 <=> v = 32)
BY DEF Byte

\* Source finds the address of a header that is all there.
LEMMA SourceOfHeader ==
    ASSUME NEW b \in Seq(Byte), Len(b) >= 16, b[13] \in {32, 33},
           Len(b) >= PREFIX_LEN + AddressLength(b), PREFIX_LEN + AddressLength(b) <= MaxHeader,
           Agrees(b, SIGNATURE)
    PROVE  LET n == PREFIX_LEN + AddressLength(b) IN
           /\ HeaderOf(b, n) =>
                /\ Source(b).kind = "complete"
                /\ Source(b).length = n
                /\ PeerOf(b) = IF Source(b).source = None THEN TransportPeer ELSE Source(b).source
           /\ ~HeaderOf(b, n) => Source(b) = Error("family")
<1> DEFINE n == PREFIX_LEN + AddressLength(b)
<1>1. AddressLength(b) \in Nat /\ n \in Nat /\ n >= 16
  BY AddressLengthNat DEF PREFIX_LEN
<1>2. b[13] % 16 = 0 <=> b[13] = 32
  BY VersionCommand DEF Byte
<1>3. \A i \in 1 .. 12 : b[i] = SIGNATURE[i]
  <2>1. Len(SIGNATURE) = 12
    BY DEF SIGNATURE
  <2>2. \A i \in 1 .. 12 : i <= Len(b)
    OBVIOUS
  <2> QED
    BY <2>1, <2>2, Zenon DEF Agrees
<1>4. HeaderOf(b, n) <=>
        \/ b[13] = 32
        \/ b[13] = 33 /\ b[14] \in NoNetworkPeer
        \/ b[13] = 33 /\ b[14] \in IPv4 /\ AddressLength(b) >= 12
        \/ b[13] = 33 /\ b[14] \in IPv6 /\ AddressLength(b) >= 36
  BY <1>1, <1>3 DEF HeaderOf, PREFIX_LEN
<1>5. CASE b[13] = 32
  BY <1>2, <1>4, <1>5 DEF Source, Complete, PeerOf, None
<1>6. CASE b[13] = 33 /\ b[14] \in NoNetworkPeer
  BY <1>2, <1>4, <1>6 DEF Source, Complete, PeerOf, None, NoNetworkPeer, IPv4, IPv6
<1>7. CASE b[13] = 33 /\ b[14] \in IPv4
  <2>1. AddressLength(b) >= 12 => SubSeq(b, 17, 20) # <<>>
    BY <1>1, SubSeqProperties DEF PREFIX_LEN
  <2>2. b[14] \notin NoNetworkPeer /\ (b[14] \in IPv4 <=> b[14] \notin IPv6)
    BY <1>7 DEF NoNetworkPeer, IPv4, IPv6
  <2>3. Source(b) = IF AddressLength(b) < 12 THEN Error("family") ELSE Complete(SubSeq(b, 17, 20), n)
    BY <1>2, <1>7, <2>2 DEF Source
  <2>4. PeerOf(b) = SubSeq(b, 17, 20)
    BY <1>7, <2>2 DEF PeerOf
  <2>5. CASE AddressLength(b) < 12
    <3>1. ~HeaderOf(b, n)
      BY <1>1, <1>4, <1>7, <2>2, <2>5
    <3> QED
      BY <2>3, <2>5, <3>1
  <2>6. CASE AddressLength(b) >= 12
    <3>1. HeaderOf(b, n)
      BY <1>4, <1>7, <2>6
    <3>2. Source(b) = Complete(SubSeq(b, 17, 20), n)
      BY <1>1, <2>3, <2>6
    <3> QED
      BY <2>1, <2>4, <2>6, <3>1, <3>2 DEF Complete, None
  <2> QED
    BY <1>1, <2>5, <2>6
<1>8. CASE b[13] = 33 /\ b[14] \in IPv6
  <2>1. AddressLength(b) >= 36 => SubSeq(b, 17, 32) # <<>>
    BY <1>1, SubSeqProperties DEF PREFIX_LEN
  <2>2. b[14] \notin NoNetworkPeer /\ (b[14] \in IPv4 <=> b[14] \notin IPv6)
    BY <1>8 DEF NoNetworkPeer, IPv4, IPv6
  <2>3. Source(b) = IF AddressLength(b) < 36 THEN Error("family") ELSE Complete(SubSeq(b, 17, 32), n)
    BY <1>2, <1>8, <2>2 DEF Source
  <2>4. PeerOf(b) = SubSeq(b, 17, 32)
    BY <1>8, <2>2 DEF PeerOf
  <2>5. CASE AddressLength(b) < 36
    <3>1. ~HeaderOf(b, n)
      BY <1>1, <1>4, <1>8, <2>2, <2>5
    <3> QED
      BY <2>3, <2>5, <3>1
  <2>6. CASE AddressLength(b) >= 36
    <3>1. HeaderOf(b, n)
      BY <1>4, <1>8, <2>6
    <3>2. Source(b) = Complete(SubSeq(b, 17, 32), n)
      BY <1>1, <2>3, <2>6
    <3> QED
      BY <2>1, <2>4, <2>6, <3>1, <3>2 DEF Complete, None
  <2> QED
    BY <1>1, <2>5, <2>6
<1>9. CASE b[13] = 33 /\ b[14] \notin NoNetworkPeer \cup IPv4 \cup IPv6
  BY <1>2, <1>4, <1>9 DEF Source
<1> QED
  BY <1>5, <1>6, <1>7, <1>8, <1>9

\* HeaderOf and PeerOf look only at bytes of the header.
LEMMA HeaderExtends ==
    ASSUME NEW b \in Seq(Byte), NEW c \in Seq(Byte), Extends(c, b), NEW n \in Nat,
           HeaderOf(b, n)
    PROVE  HeaderOf(c, n) /\ PeerOf(c) = PeerOf(b)
<1>1. \A i \in 1 .. Len(b) : c[i] = b[i]
  BY DEF Extends
<1>2. Len(b) \in Nat /\ Len(c) \in Nat /\ Len(b) <= Len(c) /\ n <= Len(b) /\ n >= 16
  BY HeaderParts DEF Extends, PREFIX_LEN
<1>3. \A i \in 1 .. 16 : c[i] = b[i]
  BY <1>1, <1>2
<1>4. AddressLength(c) = AddressLength(b) /\ c[13] = b[13] /\ c[14] = b[14]
  <2>1. 13 \in 1 .. 16 /\ 14 \in 1 .. 16 /\ 15 \in 1 .. 16 /\ 16 \in 1 .. 16
    OBVIOUS
  <2> QED
    BY <1>3, <2>1, Zenon DEF AddressLength
<1>5. HeaderOf(c, n)
  <2>1. \A i \in 1 .. 12 : c[i] = SIGNATURE[i]
    <3>1. \A i \in 1 .. 12 : b[i] = SIGNATURE[i]
      BY HeaderParts
    <3>2. \A i \in 1 .. 12 : i \in 1 .. 16
      OBVIOUS
    <3> QED
      BY <1>3, <3>1, <3>2, Zenon
  <2>2. n <= Len(c)
    BY <1>2
  <2> QED
    BY <1>4, <2>1, <2>2, Zenon DEF HeaderOf
<1>6. AddressLength(b) \in Nat /\ n = 16 + AddressLength(b)
  BY <1>2, AddressLengthNat, HeaderParts DEF PREFIX_LEN
<1>7. ASSUME NEW m \in 16 .. n
      PROVE  SubSeq(c, 17, m) = SubSeq(b, 17, m)
  <2>1. /\ SubSeq(c, 17, m) = [i \in 1 .. m - 16 |-> c[i + 16]]
        /\ SubSeq(b, 17, m) = [i \in 1 .. m - 16 |-> b[i + 16]]
    BY <1>2
  <2>2. \A i \in 1 .. m - 16 : c[i + 16] = b[i + 16]
    BY <1>1, <1>2
  <2> QED
    BY <2>1, <2>2
<1>8. CASE b[13] = 33 /\ b[14] \in IPv4
  <2>1. AddressLength(b) >= 12
    <3>1. \/ b[13] = 32 \/ b[14] \in NoNetworkPeer \/ (b[14] \in IPv4 /\ AddressLength(b) >= 12)
          \/ (b[14] \in IPv6 /\ AddressLength(b) >= 36)
      BY HeaderParts, Zenon
    <3>2. b[13] # 32 /\ b[14] \notin NoNetworkPeer /\ b[14] \notin IPv6
      BY <1>8 DEF IPv4, IPv6, NoNetworkPeer
    <3> QED
      BY <3>1, <3>2, Zenon
  <2>2. SubSeq(c, 17, 20) = SubSeq(b, 17, 20)
    <3>1. 20 \in 16 .. n
      BY <1>6, <2>1
    <3> QED
      BY <1>7, <3>1, Zenon
  <2> QED
    BY <1>4, <1>5, <1>8, <2>2 DEF PeerOf
<1>9. CASE b[13] = 33 /\ b[14] \in IPv6
  <2>1. AddressLength(b) >= 36 /\ b[14] \notin IPv4
    <3>1. \/ b[13] = 32 \/ b[14] \in NoNetworkPeer \/ (b[14] \in IPv4 /\ AddressLength(b) >= 12)
          \/ (b[14] \in IPv6 /\ AddressLength(b) >= 36)
      BY HeaderParts, Zenon
    <3>2. b[13] # 32 /\ b[14] \notin NoNetworkPeer /\ b[14] \notin IPv4
      BY <1>9 DEF IPv4, IPv6, NoNetworkPeer
    <3> QED
      BY <3>1, <3>2, Zenon
  <2>2. SubSeq(c, 17, 32) = SubSeq(b, 17, 32)
    <3>1. 32 \in 16 .. n
      BY <1>6, <2>1
    <3> QED
      BY <1>7, <3>1, Zenon
  <2> QED
    BY <1>4, <1>5, <1>9, <2>1, <2>2 DEF PeerOf
<1> QED
  BY <1>4, <1>5, <1>8, <1>9 DEF PeerOf

\* proxy::parse on a buffer with the whole prefix.
LEMMA ParsePrefixCases ==
    ASSUME NEW b \in Seq(Byte), Len(b) >= 16, Agrees(b, SIGNATURE)
    PROVE  LET n == PREFIX_LEN + AddressLength(b) IN
           \/ /\ ParsePrefix(b).kind = "error"
              /\ ParsePrefix(b).error \in HeaderErrors
              /\ \/ b[13] \notin {32, 33}
                 \/ n > MaxHeader
                 \/ n <= Len(b) /\ ~HeaderOf(b, n)
           \/ /\ ParsePrefix(b) = Incomplete
              /\ Len(b) < n /\ n <= MaxHeader
           \/ /\ ParsePrefix(b).kind = "complete"
              /\ ParsePrefix(b).length = n
              /\ HeaderOf(b, n)
              /\ PeerOf(b) = IF ParsePrefix(b).source = None THEN TransportPeer
                             ELSE ParsePrefix(b).source
<1> DEFINE n == PREFIX_LEN + AddressLength(b)
<1>1. n \in Nat /\ MaxHeader \in Nat /\ Len(b) \in Nat /\ b[13] \in Byte
  BY AddressLengthNat, ProxyAssumption DEF PREFIX_LEN
<1>2. b[13] \div 16 = 2 /\ b[13] % 16 <= 1 <=> b[13] \in {32, 33}
  BY <1>1, VersionCommand
<1>3. b[13] \div 16 \in Int /\ b[13] % 16 \in Int
  <2>1. \A v \in 0 .. 255 : v \div 16 \in Int /\ v % 16 \in Int
    OBVIOUS
  <2> QED
    BY <1>1, <2>1 DEF Byte
<1>4. CASE b[13] \notin {32, 33}
  <2>1. ParsePrefix(b) \in {Error("version"), Error("command")}
    BY <1>2, <1>3, <1>4 DEF ParsePrefix
  <2> QED
    BY <1>4, <2>1 DEF Error, HeaderErrors
<1>5. CASE b[13] \in {32, 33} /\ n > MaxHeader
  <2>1. ParsePrefix(b) = Error("too_long")
    BY <1>2, <1>3, <1>5 DEF ParsePrefix
  <2> QED
    BY <1>5, <2>1 DEF Error, HeaderErrors
<1>6. CASE b[13] \in {32, 33} /\ n <= MaxHeader /\ Len(b) < n
  BY <1>1, <1>2, <1>3, <1>6 DEF ParsePrefix
<1>7. CASE b[13] \in {32, 33} /\ n <= MaxHeader /\ Len(b) >= n
  <2>1. ParsePrefix(b) = Source(b)
    BY <1>1, <1>2, <1>3, <1>7 DEF ParsePrefix
  <2>2. CASE HeaderOf(b, n)
    BY <1>7, <2>1, <2>2, SourceOfHeader
  <2>3. CASE ~HeaderOf(b, n)
    <3>1. ParsePrefix(b) = Error("family")
      BY <1>7, <2>1, <2>3, SourceOfHeader
    <3> QED
      BY <1>1, <1>7, <2>3, <3>1 DEF Error, HeaderErrors
  <2> QED
    BY <2>2, <2>3
<1> QED
  BY <1>1, <1>4, <1>5, <1>6, <1>7

\* proxy::parse is complete only on a header, and finds its length and peer.
LEMMA ParseComplete ==
    ASSUME NEW b \in Seq(Byte), Parse(b).kind = "complete"
    PROVE  /\ Parse(b).length \in 0 .. Len(b)
           /\ HeaderOf(b, Parse(b).length)
           /\ PeerOf(b) = IF Parse(b).source = None THEN TransportPeer ELSE Parse(b).source
<1>1. Parse(b) = ParsePrefix(b) /\ Len(b) >= 16 /\ Agrees(b, SIGNATURE)
  BY DEF Parse, Incomplete, Error, PREFIX_LEN
<1>2. ParsePrefix(b) # Incomplete
  BY <1>1 DEF Incomplete
<1>3. HeaderOf(b, Parse(b).length) /\ Parse(b).length = PREFIX_LEN + AddressLength(b)
  BY <1>1, <1>2, ParsePrefixCases
<1>4. Parse(b).length \in 0 .. Len(b)
  BY <1>1, <1>3, HeaderParts, AddressLengthNat DEF PREFIX_LEN
<1> QED
  BY <1>1, <1>2, <1>3, <1>4, ParsePrefixCases

\* proxy::parse asks for more only while there is no header and the buffer is
\* below the limit.
LEMMA ParseIncomplete ==
    ASSUME NEW b \in Seq(Byte), Parse(b).kind = "incomplete"
    PROVE  Len(b) < MaxHeader /\ \A n \in 0 .. Len(b) : ~HeaderOf(b, n)
<1>0. Len(b) \in Nat /\ MaxHeader \in Nat /\ MaxHeader >= 16
  BY ProxyAssumption DEF PREFIX_LEN
<1>1. CASE Len(b) < 16
  BY <1>0, <1>1 DEF HeaderOf, PREFIX_LEN
<1>2. CASE Len(b) >= 16
  <2>1. Parse(b) = ParsePrefix(b) /\ Agrees(b, SIGNATURE)
    BY <1>2 DEF Parse, Error, PREFIX_LEN
  <2>2. Len(b) < PREFIX_LEN + AddressLength(b) /\ PREFIX_LEN + AddressLength(b) <= MaxHeader
    BY <1>2, <2>1, ParsePrefixCases
  <2> QED
    BY <1>0, <1>2, <2>2, AddressLengthNat DEF HeaderOf, PREFIX_LEN
<1> QED
  BY <1>0, <1>1, <1>2

\* The errors that proxy::parse returns.
LEMMA ErrorsOfParse ==
    ASSUME NEW b \in Seq(Byte), Parse(b).kind = "error"
    PROVE  Parse(b).error \in HeaderErrors
<1>1. CASE Agrees(b, V1_SIGNATURE) \/ ~Agrees(b, SIGNATURE) \/ Len(b) < PREFIX_LEN \/ b = <<>>
  BY <1>1 DEF Parse, Error, Incomplete, HeaderErrors
<1>2. CASE ~(Agrees(b, V1_SIGNATURE) \/ ~Agrees(b, SIGNATURE) \/ Len(b) < PREFIX_LEN \/ b = <<>>)
  <2>1. Parse(b) = ParsePrefix(b) /\ Len(b) >= 16 /\ Agrees(b, SIGNATURE)
    BY <1>2 DEF Parse, PREFIX_LEN
  <2>2. ParsePrefix(b) # Incomplete /\ ParsePrefix(b).kind # "complete"
    BY <2>1 DEF Incomplete
  <2> QED
    BY <2>1, <2>2, ParsePrefixCases
<1> QED
  BY <1>1, <1>2

\* An error of proxy::parse is final: no bytes that could still come would have
\* made a header of the stream.
LEMMA ParseError ==
    ASSUME NEW b \in Seq(Byte), NEW c \in Seq(Byte), Extends(c, b), Parse(b).kind = "error",
           NEW n \in Nat
    PROVE  ~HeaderOf(c, n)
<1> SUFFICES ASSUME HeaderOf(c, n) PROVE FALSE
  OBVIOUS
<1>1. Agrees(b, SIGNATURE)
  BY AgreesExtends
<1>2. b # <<>>
  BY DEF Parse, Incomplete
<1>3. ~Agrees(b, V1_SIGNATURE)
  <2>1. Len(b) >= 1
    BY <1>2
  <2> QED
    BY <1>1, <2>1, V1IsNotV2
<1>4. Parse(b) = ParsePrefix(b) /\ Len(b) >= 16
  BY <1>1, <1>3 DEF Parse, Incomplete, PREFIX_LEN
<1>5. \A i \in 1 .. Len(b) : c[i] = b[i]
  BY DEF Extends
<1>6. AddressLength(c) = AddressLength(b) /\ c[13] = b[13] /\ c[14] = b[14]
  BY <1>4, <1>5 DEF AddressLength
<1>7. n = PREFIX_LEN + AddressLength(b) /\ n <= MaxHeader /\ b[13] \in {32, 33}
  BY <1>6 DEF HeaderOf
<1>8. n <= Len(b) /\ ~HeaderOf(b, n)
  <2>1. ParsePrefix(b) # Incomplete /\ ParsePrefix(b).kind # "complete"
    BY <1>4 DEF Incomplete
  <2>2. ~(n > MaxHeader)
    BY <1>7, ProxyAssumption
  <2> QED
    BY <1>1, <1>4, <1>7, <2>1, <2>2, ParsePrefixCases
<1>9. \A i \in 1 .. 12 : b[i] = SIGNATURE[i]
  <2>1. \A i \in 1 .. 12 : c[i] = SIGNATURE[i]
    BY HeaderParts
  <2>2. \A i \in 1 .. 12 : i \in 1 .. Len(b)
    BY <1>4
  <2> QED
    BY <1>5, <2>1, <2>2, Zenon
<1> QED
  BY <1>6, <1>8, <1>9 DEF HeaderOf

-----------------------------------------------------------------------------
\* While the header is being read the buffer is what the client has sent so far
\* and parse asks for more of it.
IInv ==
    /\ TypeOK
    /\ state = "reading" =>
        /\ buffer = SubSeq(stream, 1, taken)
        /\ Parse(buffer).kind = "incomplete"
        /\ failure = "none" /\ peer = TransportPeer
        /\ proxy_header_errors = 0 /\ proxy_read_errors = 0
    /\ age + timer = Deadline
    /\ OutcomeAsDefined
    /\ PayloadIntact

\* A read of read_proxy_header takes the next bytes of the stream.
LEMMA ReadExtends ==
    ASSUME NEW s \in Seq(Byte), NEW t \in 0 .. Len(s), NEW n \in 1 .. Len(s) - t
    PROVE  /\ SubSeq(s, 1, t) \o SubSeq(s, t + 1, t + n) = SubSeq(s, 1, t + n)
           /\ SubSeq(s, 1, t + n) \in Seq(Byte)
           /\ Extends(s, SubSeq(s, 1, t + n))
           /\ Len(SubSeq(s, 1, t + n)) = t + n
<1> DEFINE x == SubSeq(s, 1, t)
           y == SubSeq(s, t + 1, t + n)
           u == x \o y
           v == SubSeq(s, 1, t + n)
<1>1. v \in Seq(Byte) /\ Len(v) = t + n /\ \A i \in 1 .. t + n : v[i] = s[i]
  BY SubSeqProperties
<1>2. x \in Seq(Byte) /\ Len(x) = t /\ \A i \in 1 .. t : x[i] = s[i]
  BY SubSeqProperties
<1>3. y \in Seq(Byte) /\ Len(y) = n /\ \A i \in 1 .. n : y[i] = s[t + i]
  BY SubSeqProperties
<1> HIDE DEF x, y
<1>4. /\ u \in Seq(Byte) /\ Len(u) = t + n
      /\ \A i \in 1 .. t + n : u[i] = IF i <= t THEN x[i] ELSE y[i - t]
  <2>1. /\ u \in Seq(Byte) /\ Len(u) = Len(x) + Len(y)
        /\ \A i \in 1 .. Len(x) + Len(y) : u[i] = IF i <= Len(x) THEN x[i] ELSE y[i - Len(x)]
    BY <1>2, <1>3, ConcatProperties, Zenon
  <2> HIDE DEF u
  <2>2. Len(x) = t /\ Len(y) = n
    BY <1>2, <1>3
  <2> QED
    BY <2>1, <2>2, Zenon
<1>5. \A i \in 1 .. t + n : u[i] = s[i]
  <2> SUFFICES ASSUME NEW i \in 1 .. t + n PROVE u[i] = s[i]
    OBVIOUS
  <2> HIDE DEF u
  <2>1. CASE i <= t
    BY <1>2, <1>4, <2>1
  <2>2. CASE ~(i <= t)
    <3>1. i - t \in 1 .. n /\ t + (i - t) = i
      BY <2>2
    <3> QED
      BY <1>3, <1>4, <2>2, <3>1
  <2> QED
    BY <2>1, <2>2, Zenon
<1>6. u = v
  <2>1. \A i \in 1 .. t + n : u[i] = v[i]
    BY <1>1, <1>5
  <2> QED
    BY <1>1, <1>4, <2>1, SeqEqual
<1>7. Extends(s, v)
  BY <1>1 DEF Extends
<1> QED
  BY <1>1, <1>6, <1>7 DEF x, y

\* Nothing has been read when serve_stream begins.
LEMMA InitInv == Init => IInv
<1> SUFFICES ASSUME Init PROVE IInv
  OBVIOUS
<1>1. stream \in Seq(Byte) /\ Len(stream) \in Nat
  BY ProxyAssumption DEF Init
<1>2. TypeOK
  BY <1>1, ProxyAssumption DEF Init, TypeOK, HeaderErrors, ReadErrors
<1>3. SubSeq(stream, 1, 0) = <<>>
  BY <1>1, SubSeqProperties
<1>4. Parse(<<>>).kind = "incomplete"
  BY DEF Parse, Incomplete
<1> QED
  BY <1>2, <1>3, <1>4, ProxyAssumption
     DEF Init, IInv, OutcomeAsDefined, PayloadIntact, HeaderErrors, ReadErrors

\* What a read that leaves buffer b to parse does.
LEMMA ReadInv == IInv /\ Read => IInv'
<1> SUFFICES ASSUME IInv, Read PROVE IInv'
  OBVIOUS
<1>0. TypeOK /\ state = "reading" /\ stream \in Seq(Byte) /\ taken \in 0 .. Len(stream)
      /\ Len(stream) \in Nat
  BY DEF IInv, Read, TypeOK
<1>1. PICK n \in 1 .. Len(stream) - taken :
        /\ taken' = taken + n
        /\ Loop(buffer \o SubSeq(stream, taken + 1, taken + n))
  BY DEF Read
<1> DEFINE b == SubSeq(stream, 1, taken + n)
<1>2. /\ b \in Seq(Byte) /\ Extends(stream, b) /\ Len(b) = taken + n
      /\ Loop(b)
  BY <1>0, <1>1, ReadExtends DEF IInv
<1>3. /\ UNCHANGED <<stream, timer, age>> /\ taken' \in 0 .. Len(stream)
      /\ taken' = Len(b) /\ b = SubSeq(stream, 1, taken')
  BY <1>0, <1>1, <1>2 DEF Read
<1> HIDE DEF b
<1>4. failure = "none" /\ peer = TransportPeer /\ proxy_header_errors = 0 /\ proxy_read_errors = 0
  BY <1>0 DEF IInv
<1>5. (age + timer = Deadline)'
  BY <1>3 DEF IInv
<1>6. CASE Parse(b).kind = "complete"
  <2> DEFINE h == Parse(b).length
  <2>1. /\ buffer' = SubSeq(b, h + 1, Len(b)) /\ state' = "serving"
        /\ peer' = IF Parse(b).source = None THEN peer ELSE Parse(b).source
        /\ UNCHANGED <<failure, proxy_header_errors, proxy_read_errors>>
    BY <1>2, <1>6 DEF Loop
  <2>2. h \in 0 .. Len(b) /\ HeaderOf(b, h) /\ peer' = PeerOf(b)
    BY <1>2, <1>4, <1>6, <2>1, ParseComplete
  <2> HIDE DEF h
  <2>3. HeaderOf(stream, h) /\ PeerOf(stream) = PeerOf(b)
    <3>1. h \in Nat
      BY <1>2, <2>2
    <3> QED
      BY <1>0, <1>2, <2>2, <3>1, HeaderExtends
  <2>4. SubSeq(b, h + 1, Len(b)) \in Seq(Byte)
    BY <1>2, <2>2, SubSeqProperties
  <2>5. SubSeq(b, h + 1, Len(b)) = SubSeq(stream, h + 1, taken')
    <3>1. \A i \in 1 .. Len(b) : b[i] = stream[i]
      BY <1>2 DEF Extends
    <3>2. /\ SubSeq(b, h + 1, Len(b)) = [i \in 1 .. Len(b) - h |-> b[i + h]]
          /\ SubSeq(stream, h + 1, taken') = [i \in 1 .. Len(b) - h |-> stream[i + h]]
      BY <1>0, <1>2, <1>3, <2>2
    <3>3. \A i \in 1 .. Len(b) - h : b[i + h] = stream[i + h]
      BY <2>2, <3>1
    <3> QED
      BY <3>2, <3>3
  <2>6. TypeOK'
    BY <1>0, <1>3, <2>1, <2>4 DEF TypeOK
  <2>7. OutcomeAsDefined'
    <3>1. h \in 0 .. taken' /\ HeaderOf(stream', h) /\ peer' = PeerOf(stream')
      BY <1>3, <2>2, <2>3
    <3>2. failure' \notin HeaderErrors /\ failure' \notin ReadErrors
      BY <1>4, <2>1 DEF HeaderErrors, ReadErrors
    <3> QED
      BY <3>1, <3>2, Zenon DEF OutcomeAsDefined
  <2>8. PayloadIntact'
    <3>1. h \in 0 .. taken' /\ HeaderOf(stream', h) /\ buffer' = SubSeq(stream', h + 1, taken')
      BY <1>3, <2>1, <2>2, <2>3, <2>5
    <3> QED
      BY <3>1, Zenon DEF PayloadIntact
  <2> QED
    BY <1>5, <2>1, <2>6, <2>7, <2>8 DEF IInv
<1>7. CASE Parse(b).kind = "incomplete"
  <2>1. buffer' = b /\ UNCHANGED <<state, failure, peer, proxy_header_errors, proxy_read_errors>>
    BY <1>2, <1>7 DEF Loop
  <2>2. TypeOK'
    BY <1>0, <1>2, <1>3, <2>1 DEF TypeOK
  <2>3. OutcomeAsDefined' /\ PayloadIntact'
    BY <1>0, <1>4, <2>1 DEF OutcomeAsDefined, PayloadIntact, HeaderErrors, ReadErrors
  <2>4. b = SubSeq(stream', 1, taken') /\ Parse(buffer').kind = "incomplete"
    BY <1>1, <1>3, <1>7, <2>1
  <2> QED
    BY <1>4, <1>5, <2>1, <2>2, <2>3, <2>4 DEF IInv, Parse, ParsePrefix, Agrees, AddressLength, Source
<1>8. CASE Parse(b).kind = "error"
  <2>1. /\ buffer' = b /\ state' = "closed" /\ failure' = Parse(b).error /\ peer' = peer
        /\ proxy_header_errors' = 1 /\ proxy_read_errors' = 0
    BY <1>2, <1>4, <1>8 DEF Loop, Fail
  <2>2. \A m \in 0 .. Len(stream) : ~HeaderOf(stream, m)
    <3>1. \A m \in Nat : ~HeaderOf(stream, m)
      BY <1>0, <1>2, <1>8, ParseError
    <3> QED
      BY <1>0, <3>1
  <2>3. Parse(b).error \in HeaderErrors
    BY <1>2, <1>8, ErrorsOfParse
  <2>4. TypeOK'
    BY <1>0, <1>2, <1>3, <2>1, <2>3 DEF TypeOK
  <2>5. OutcomeAsDefined' /\ PayloadIntact'
    <3>1. failure' \notin ReadErrors /\ state' # "serving"
      BY <2>1, <2>3 DEF HeaderErrors, ReadErrors
    <3>2. \A m \in 0 .. Len(stream') : ~HeaderOf(stream', m)
      BY <1>3, <2>2, Zenon
    <3> QED
      BY <3>1, <3>2, Zenon DEF OutcomeAsDefined, PayloadIntact
  <2> QED
    BY <1>5, <2>1, <2>4, <2>5 DEF IInv
<1> QED
  BY <1>2, <1>6, <1>7, <1>8 DEF Loop

\* The failures of the read itself leave what was read as it is.
LEMMA FailInv ==
    ASSUME IInv, state = "reading", NEW r \in ReadErrors, Fail(r, 0, 1),
           UNCHANGED <<taken, buffer, timer, age>>,
           stream' = stream \/ stream' = SubSeq(stream, 1, taken)
    PROVE  IInv'
<1>1. TypeOK /\ stream \in Seq(Byte) /\ taken \in 0 .. Len(stream) /\ buffer = SubSeq(stream, 1, taken)
  BY DEF IInv, TypeOK
<1>2. buffer \in Seq(Byte) /\ Len(buffer) = taken /\ Extends(stream, buffer)
      /\ \A n \in 0 .. Len(buffer) : ~HeaderOf(buffer, n)
  <2>1. Len(SubSeq(stream, 1, taken)) = taken /\ \A i \in 1 .. taken : SubSeq(stream, 1, taken)[i] = stream[i]
    BY <1>1, SubSeqProperties
  <2>2. buffer \in Seq(Byte) /\ Parse(buffer).kind = "incomplete"
    BY DEF IInv, TypeOK
  <2>3. \A n \in 0 .. Len(buffer) : ~HeaderOf(buffer, n)
    BY <2>2, ParseIncomplete, Zenon
  <2>4. Extends(stream, buffer)
    BY <1>1, <2>1 DEF Extends
  <2> QED
    BY <1>1, <2>1, <2>2, <2>3, <2>4
<1>3. stream' \in Seq(Byte) /\ taken' \in 0 .. Len(stream') /\ Extends(stream', buffer)
  <2>1. CASE stream' = stream
    BY <1>1, <1>2, <2>1
  <2>2. CASE stream' = buffer
    <3>1. Extends(buffer, buffer)
      BY <1>2 DEF Extends
    <3> QED
      BY <1>1, <1>2, <2>2, <3>1
  <2> QED
    BY <1>1, <2>1, <2>2
<1>4. /\ state' = "closed" /\ failure' = r /\ proxy_header_errors' = 0 /\ proxy_read_errors' = 1
  BY DEF Fail, IInv
<1>5. TypeOK'
  BY <1>1, <1>3, <1>4 DEF TypeOK
<1>6. \A n \in 0 .. taken' : ~HeaderOf(stream', n)
  <2> SUFFICES ASSUME NEW n \in 0 .. taken', HeaderOf(stream', n) PROVE FALSE
    OBVIOUS
  <2>1. n \in 0 .. Len(buffer) /\ n \in Nat /\ n >= 16
    <3>1. PREFIX_LEN <= n
      BY HeaderParts
    <3> QED
      BY <1>1, <1>2, <3>1 DEF PREFIX_LEN
  <2>2. HeaderOf(buffer, n)
    <3>1. \A i \in 1 .. Len(buffer) : stream'[i] = buffer[i]
      BY <1>3 DEF Extends
    <3>2. \A i \in 1 .. 16 : i \in 1 .. Len(buffer)
      BY <1>2, <2>1
    <3>3. \A i \in 1 .. 16 : stream'[i] = buffer[i]
      BY <3>1, <3>2
    <3>4. AddressLength(stream') = AddressLength(buffer) /\ stream'[13] = buffer[13] /\ stream'[14] = buffer[14]
      BY <3>3 DEF AddressLength
    <3>5. \A i \in 1 .. 12 : buffer[i] = SIGNATURE[i]
      <4>1. \A i \in 1 .. 12 : i \in 1 .. 16
        OBVIOUS
      <4>2. \A i \in 1 .. 12 : stream'[i] = SIGNATURE[i]
        BY HeaderParts
      <4> QED
        BY <3>3, <4>1, <4>2, Zenon
    <3>6. n <= Len(buffer)
      BY <1>2, <2>1
    <3> QED
      BY <3>4, <3>5, <3>6, Zenon DEF HeaderOf
  <2> QED
    BY <1>2, <2>1, <2>2
<1>7. OutcomeAsDefined' /\ PayloadIntact'
  <2>1. failure' \notin HeaderErrors
    BY <1>4 DEF HeaderErrors, ReadErrors
  <2> QED
    BY <1>4, <1>6, <2>1, Zenon DEF OutcomeAsDefined, PayloadIntact
<1> QED
  BY <1>4, <1>5, <1>7 DEF IInv

\* Every step of read_proxy_header keeps the invariant.
LEMMA NextInv == IInv /\ [Next]_vars => IInv'
<1> SUFFICES ASSUME IInv, [Next]_vars PROVE IInv'
  OBVIOUS
<1>1. CASE Read
  BY <1>1, ReadInv
<1>2. CASE ReadEof
  BY <1>2, FailInv DEF ReadEof, ReadErrors
<1>3. CASE ReadError
  BY <1>3, FailInv DEF ReadError, ReadErrors
<1>4. CASE Timeout
  BY <1>4, FailInv DEF Timeout, ReadErrors
<1>5. CASE Tick
  <2>1. UNCHANGED <<stream, taken, buffer, state, failure, peer, proxy_header_errors, proxy_read_errors>>
    BY <1>5 DEF Tick
  <2>2. TypeOK' /\ (age + timer = Deadline)'
    BY <1>5, <2>1, ProxyAssumption DEF Tick, IInv, TypeOK
  <2>3. OutcomeAsDefined' /\ PayloadIntact'
    BY <2>1 DEF IInv, OutcomeAsDefined, PayloadIntact
  <2>4. Parse(buffer') = Parse(buffer)
    BY <2>1
  <2> QED
    BY <2>1, <2>2, <2>3, <2>4 DEF IInv
<1>6. CASE UNCHANGED vars
  <2>1. UNCHANGED <<stream, taken, buffer, state, failure, peer, timer, age, proxy_header_errors, proxy_read_errors>>
    BY <1>6 DEF vars
  <2>2. TypeOK' /\ OutcomeAsDefined' /\ PayloadIntact'
    BY <2>1 DEF IInv, TypeOK, OutcomeAsDefined, PayloadIntact
  <2>3. Parse(buffer') = Parse(buffer)
    BY <2>1
  <2> QED
    BY <2>1, <2>2, <2>3 DEF IInv
<1> QED
  BY <1>1, <1>2, <1>3, <1>4, <1>5, <1>6 DEF Next

\* The invariant holds throughout.
LEMMA Invariance == Spec => []IInv
<1>1. Init => IInv
  BY InitInv
<1>2. IInv /\ [Next]_vars => IInv'
  BY NextInv
<1> QED
  BY <1>1, <1>2, PTL DEF Spec

\* The types of read_proxy_header's state, and that at most one failure is
\* recorded for a connection.
THEOREM TypeCorrect == Spec => []TypeOK
<1>1. IInv => TypeOK
  BY DEF IInv
<1> QED
  BY <1>1, Invariance, PTL

\* Wherever the reads cut the stream, read_proxy_header ends as the bytes of the
\* stream alone determine, or gives up before a header was there.
THEOREM OutcomeIndependentOfReads == Spec => []OutcomeAsDefined
<1>1. IInv => OutcomeAsDefined
  BY DEF IInv
<1> QED
  BY <1>1, Invariance, PTL

\* buffer.split_to(length) leaves the framer all that follows the header.
THEOREM PayloadKept == Spec => []PayloadIntact
<1>1. IInv => PayloadIntact
  BY DEF IInv
<1> QED
  BY <1>1, Invariance, PTL

\* The buffer stays below MAX_PROXY_HEADER_BYTES while the header is awaited.
THEOREM HeaderBounded == Spec => []HeaderBufferBound
<1>1. IInv => HeaderBufferBound
  BY ParseIncomplete DEF IInv, TypeOK, HeaderBufferBound
<1> QED
  BY <1>1, Invariance, PTL

\* The header as a whole has proxy_header_timeout.
THEOREM DeadlineKept == Spec => []OneDeadline
<1>1. IInv => OneDeadline
  BY ProxyAssumption DEF IInv, TypeOK, OneDeadline
<1> QED
  BY <1>1, Invariance, PTL
=============================================================================

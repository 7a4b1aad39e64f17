--------------------------- MODULE FramingProofs ---------------------------
(***************************************************************************)
(* What Framing promises, for any limit, any input and any way of cutting  *)
(* it into reads: its types, a bound on the read buffer, and messages that *)
(* are the frames of the input as Rfc6587 defines them.                    *)
(***************************************************************************)
EXTENDS Rfc6587, SequenceTheorems, WellFoundedInduction, TLAPS

\* Zenon proves a leaf that names no other prover.
USE ZenonT(30)

-----------------------------------------------------------------------------
(* Induction *)

\* A set of numbers has a least one.
LEMMA Least ==
    ASSUME NEW T \in SUBSET Nat, T # {}
    PROVE  \E n \in T : \A m \in T : n <= m
<1>1. OpToRel(<, Nat) = {ss \in Nat \X Nat : ss[1] < ss[2]}
  BY DEF OpToRel
<1>2. PICK n \in T : \A m \in T : ~(<<m, n>> \in OpToRel(<, Nat))
  BY NatLessThanWellFounded, WFMin
<1>3. PICK R : R = {ss \in Nat \X Nat : ss[1] < ss[2]} /\ \A m \in T : <<m, n>> \notin R
  BY <1>1, <1>2
<1>4. ASSUME NEW m \in T PROVE n <= m
  <2>1. m \in Nat /\ n \in Nat
    OBVIOUS
  <2>2. ASSUME m < n PROVE <<m, n>> \in R
    BY <1>3, <2>1, <2>2
  <2>. QED
    BY <1>3, <2>1, <2>2, SMTT(30)
<1>. QED
  BY <1>4

\* Induction: what holds of 0 and of the successor of a number it holds of,
\* up to a limit, holds up to the limit.
LEMMA UpTo ==
    ASSUME NEW k \in Nat, NEW S, 0 \in S, \A n \in 0 .. k - 1 : n \in S => n + 1 \in S
    PROVE  0 .. k \subseteq S
<1>. DEFINE T == {n \in 0 .. k : n \notin S}
<1>1. CASE T = {}
  BY <1>1
<1>2. CASE T # {}
  <2>1. T \in SUBSET Nat
    BY SMTT(30)
  <2>2. PICK n \in T : \A m \in T : n <= m
    <3>. HIDE DEF T
    <3>. QED
      BY <1>2, <2>1, Least
  <2>3. n \in 0 .. k /\ n # 0 /\ n \notin S
    BY <2>2
  <2>4. n - 1 \in 0 .. k - 1 /\ n - 1 \notin T /\ (n - 1) + 1 = n
    BY <2>2, <2>3, SMTT(30)
  <2>5. n - 1 \in S
    BY <2>4, SMTT(30)
  <2>. QED
    BY <2>3, <2>4, <2>5
<1>. QED
  BY <1>1, <1>2

-----------------------------------------------------------------------------
(* Sequences *)

\* The two parts of a buffer.
LEMMA Cut ==
    ASSUME NEW s \in Seq(Byte), NEW n \in 0 .. Len(s)
    PROVE  /\ First(s, n) \in Seq(Byte) /\ Len(First(s, n)) = n
           /\ Drop(s, n) \in Seq(Byte) /\ Len(Drop(s, n)) = Len(s) - n
BY SMTT(30) DEF First, Drop

\* Position finds the first place of a byte or says that there is none.
LEMMA Found ==
    ASSUME NEW s \in Seq(Byte), NEW b
    PROVE  /\ Position(s, b) \in 0 .. Len(s)
           /\ Position(s, b) = 0 => \A i \in 1 .. Len(s) : s[i] # b
           /\ Position(s, b) # 0 => /\ s[Position(s, b)] = b
                                    /\ \A j \in 1 .. Position(s, b) - 1 : s[j] # b
<1>1. CASE \E i \in DOMAIN s : s[i] = b
  <2>. DEFINE T == {i \in DOMAIN s : s[i] = b}
              p == CHOOSE i \in DOMAIN s : s[i] = b /\ \A j \in 1 .. i - 1 : s[j] # b
  <2>1. T \in SUBSET Nat /\ T # {}
    BY <1>1, SMTT(30)
  <2>2. PICK n \in T : \A m \in T : n <= m
    <3>. HIDE DEF T
    <3>. QED
      BY <2>1, Least
  <2>3. n \in DOMAIN s /\ s[n] = b /\ \A j \in 1 .. n - 1 : s[j] # b
    BY <2>2, SMTT(30)
  <2>4. p \in DOMAIN s /\ s[p] = b /\ \A j \in 1 .. p - 1 : s[j] # b
    BY <2>3
  <2>5. Position(s, b) = p
    BY <1>1 DEF Position
  <2>. HIDE DEF p
  <2>6. p \in 1 .. Len(s)
    BY <2>4, SMTT(30)
  <2>. QED
    BY <2>4, <2>5, <2>6, SMTT(30)
<1>2. CASE ~\E i \in DOMAIN s : s[i] = b
  <2>1. Position(s, b) = 0
    BY <1>2 DEF Position
  <2>. QED
    BY <1>2, <2>1, SMTT(30)
<1>. QED
  BY <1>1, <1>2

\* There is one first place.
LEMMA FoundThere ==
    ASSUME NEW s \in Seq(Byte), NEW b, NEW n \in 1 .. Len(s), s[n] = b,
           \A j \in 1 .. n - 1 : s[j] # b
    PROVE  Position(s, b) = n
<1>1. PICK p : p = Position(s, b)
  OBVIOUS
<1>2. /\ p \in 0 .. Len(s)
      /\ p = 0 => \A i \in 1 .. Len(s) : s[i] # b
      /\ p # 0 => s[p] = b /\ \A j \in 1 .. p - 1 : s[j] # b
  BY <1>1, Found
<1>3. p = n
  BY <1>2, SMTT(30)
<1>. QED
  BY <1>1, <1>3

\* What is read later comes after what is there.
LEMMA Joined ==
    ASSUME NEW s \in Seq(Byte), NEW t \in Seq(Byte)
    PROVE  /\ s \o t \in Seq(Byte) /\ Len(s \o t) = Len(s) + Len(t)
           /\ \A i \in 1 .. Len(s) : (s \o t)[i] = s[i]
           /\ \A m \in 0 .. Len(s), n \in 0 .. Len(s) :
                SubSeq(s \o t, m + 1, n) = SubSeq(s, m + 1, n)
           /\ \A n \in 0 .. Len(s) : First(s \o t, n) = First(s, n)
           /\ \A n \in 0 .. Len(s) : Drop(s \o t, n) = Drop(s, n) \o t
<1>1. /\ s \o t \in Seq(Byte) /\ Len(s \o t) = Len(s) + Len(t)
      /\ \A i \in 1 .. Len(s) + Len(t) :
           (s \o t)[i] = IF i <= Len(s) THEN s[i] ELSE t[i - Len(s)]
  BY ConcatProperties
<1>2. \A i \in 1 .. Len(s) : (s \o t)[i] = s[i]
  BY <1>1, SMTT(30)
<1>3. ASSUME NEW m \in 0 .. Len(s), NEW n \in 0 .. Len(s)
      PROVE  SubSeq(s \o t, m + 1, n) = SubSeq(s, m + 1, n)
  <2>1. CASE n < m + 1
    BY <2>1, SubSeqEmpty, SMTT(30)
  <2>2. CASE n >= m + 1
    <3>1. m + 1 \in 1 .. Len(s) /\ n \in 1 .. Len(s)
      BY <2>2, SMTT(30)
    <3>. QED
      BY <3>1, SubSeqOfConcat1
  <2>. QED
    BY <2>1, <2>2, SMTT(30)
<1>4. ASSUME NEW n \in 0 .. Len(s)
      PROVE  First(s \o t, n) = First(s, n)
  <2>1. 0 \in 0 .. Len(s) /\ 0 + 1 = 1
    BY SMTT(30)
  <2>. QED
    BY <1>3, <2>1 DEF First
<1>5. ASSUME NEW n \in 0 .. Len(s)
      PROVE  Drop(s \o t, n) = Drop(s, n) \o t
  <2>. DEFINE l == Drop(s \o t, n)
              r == Drop(s, n) \o t
  <2>1. /\ Drop(s, n) \in Seq(Byte) /\ Len(Drop(s, n)) = Len(s) - n
        /\ \A i \in 1 .. Len(s) - n : Drop(s, n)[i] = s[n + i]
    <3>1. \A i \in n + 1 .. Len(s) : s[i] \in Byte
      BY SMTT(30)
    <3>. QED
      BY <3>1, SubSeqProperties, SMTT(30) DEF Drop
  <2>2. /\ r \in Seq(Byte) /\ Len(r) = Len(s) - n + Len(t)
        /\ \A i \in 1 .. Len(s) - n + Len(t) :
             r[i] = IF i <= Len(s) - n THEN Drop(s, n)[i] ELSE t[i - (Len(s) - n)]
    <3>1. PICK u \in Seq(Byte) : u = Drop(s, n)
      BY <2>1
    <3>2. /\ u \o t \in Seq(Byte) /\ Len(u \o t) = Len(u) + Len(t)
          /\ \A i \in 1 .. Len(u) + Len(t) :
               (u \o t)[i] = IF i <= Len(u) THEN u[i] ELSE t[i - Len(u)]
      BY ConcatProperties
    <3>3. Len(u) = Len(s) - n
      BY <2>1, <3>1
    <3>. QED
      BY <3>1, <3>2, <3>3
  <2>3. /\ l \in Seq(Byte) /\ Len(l) = Len(s) + Len(t) - n
        /\ \A i \in 1 .. Len(s) + Len(t) - n : l[i] = (s \o t)[n + i]
    <3>1. \A i \in n + 1 .. Len(s \o t) : (s \o t)[i] \in Byte
      BY <1>1, SMTT(30)
    <3>. QED
      BY <1>1, <3>1, SubSeqProperties, SMTT(30) DEF Drop
  <2>. HIDE DEF l, r
  <2>4. Len(l) = Len(r)
    BY <2>2, <2>3, SMTT(30)
  <2>5. ASSUME NEW i \in 1 .. Len(l) PROVE l[i] = r[i]
    <3>1. i \in 1 .. Len(s) + Len(t) - n /\ n + i \in 1 .. Len(s) + Len(t)
      BY <2>3, SMTT(30)
    <3>2. l[i] = IF n + i <= Len(s) THEN s[n + i] ELSE t[n + i - Len(s)]
      BY <1>1, <2>3, <3>1, SMTT(30)
    <3>3. CASE n + i <= Len(s)
      <4>1. i \in 1 .. Len(s) - n
        BY <3>1, <3>3, SMTT(30)
      <4>. QED
        BY <2>1, <2>2, <3>1, <3>2, <3>3, <4>1, SMTT(30)
    <3>4. CASE ~(n + i <= Len(s))
      <4>1. ~(i <= Len(s) - n) /\ i - (Len(s) - n) = n + i - Len(s)
        BY <3>1, <3>4, SMTT(30)
      <4>. QED
        BY <2>2, <3>1, <3>2, <3>4, <4>1, SMTT(30)
    <3>. QED
      BY <3>3, <3>4
  <2>6. l = r
    BY <2>2, <2>3, <2>4, <2>5, SeqEqual
  <2>. QED
    BY <2>6 DEF l, r
<1>. QED
  BY <1>1, <1>2, <1>3, <1>4, <1>5

\* A byte found in the buffer is where it is in the whole stream.
LEMMA PositionJoined ==
    ASSUME NEW s \in Seq(Byte), NEW t \in Seq(Byte), NEW b
    PROVE  /\ Position(s, b) # 0 => Position(s \o t, b) = Position(s, b)
           /\ Position(s, b) = 0 => Position(s \o t, b) \notin 1 .. Len(s)
<1>1. PICK p, q : p = Position(s, b) /\ q = Position(s \o t, b)
  OBVIOUS
<1>2. /\ s \o t \in Seq(Byte) /\ Len(s \o t) = Len(s) + Len(t)
      /\ \A i \in 1 .. Len(s) : (s \o t)[i] = s[i]
  BY Joined
<1>3. /\ p \in 0 .. Len(s)
      /\ p = 0 => \A i \in 1 .. Len(s) : s[i] # b
      /\ p # 0 => s[p] = b /\ \A j \in 1 .. p - 1 : s[j] # b
  BY <1>1, Found
<1>4. q \in 0 .. Len(s \o t) /\ (q # 0 => (s \o t)[q] = b)
  BY <1>1, <1>2, Found
<1>5. CASE p # 0
  <2>1. /\ p \in 1 .. Len(s \o t) /\ (s \o t)[p] = b
        /\ \A j \in 1 .. p - 1 : (s \o t)[j] # b
    BY <1>2, <1>3, <1>5, SMTT(30)
  <2>. QED
    BY <1>1, <1>2, <1>5, <2>1, FoundThere
<1>6. CASE p = 0
  BY <1>1, <1>2, <1>3, <1>4, <1>6, SMTT(30)
<1>. QED
  BY <1>5, <1>6

\* The same bytes in the same order.
Regroups(x, y, z) == (x \o y) \o z = x \o (y \o z)

LEMMA Regroup ==
    ASSUME NEW S, NEW x \in Seq(S), NEW y \in Seq(S), NEW z \in Seq(S)
    PROVE  Regroups(x, y, z)
BY ConcatAssociative, SMTT(30) DEF Regroups

\* A part of a part of the stream.
LEMMA DropDrop ==
    ASSUME NEW s \in Seq(Byte), NEW k \in 0 .. Len(s), NEW n \in 0 .. Len(s) - k
    PROVE  Drop(Drop(s, k), Len(s) - k - n) = Drop(s, Len(s) - n)
<1>. DEFINE d == Drop(s, k)
            l == Drop(d, Len(s) - k - n)
            r == Drop(s, Len(s) - n)
<1>1. /\ d \in Seq(Byte) /\ Len(d) = Len(s) - k
      /\ \A i \in 1 .. Len(s) - k : d[i] = s[k + i]
  <2>1. \A i \in k + 1 .. Len(s) : s[i] \in Byte
    BY SMTT(30)
  <2>. QED
    BY <2>1, SubSeqProperties, SMTT(30) DEF Drop
<1>2. /\ r \in Seq(Byte) /\ Len(r) = n
      /\ \A i \in 1 .. n : r[i] = s[Len(s) - n + i]
  <2>1. \A i \in Len(s) - n + 1 .. Len(s) : s[i] \in Byte
    BY SMTT(30)
  <2>. QED
    BY <2>1, SubSeqProperties, SMTT(30) DEF Drop
<1>. HIDE DEF d
<1>3. /\ l \in Seq(Byte) /\ Len(l) = n
      /\ \A i \in 1 .. n : l[i] = d[Len(s) - k - n + i]
  <2>1. \A i \in Len(s) - k - n + 1 .. Len(d) : d[i] \in Byte
    BY <1>1, SMTT(30)
  <2>. QED
    BY <1>1, <2>1, SubSeqProperties, SMTT(30) DEF Drop
<1>. HIDE DEF l, r
<1>4. ASSUME NEW i \in 1 .. n PROVE l[i] = r[i]
  <2>1. Len(s) - k - n + i \in 1 .. Len(s) - k /\ k + (Len(s) - k - n + i) = Len(s) - n + i
    BY SMTT(30)
  <2>. QED
    BY <1>1, <1>2, <1>3, <2>1
<1>5. l = r
  BY <1>2, <1>3, <1>4, SeqEqual
<1>. QED
  BY <1>5 DEF l, r, d

\* A declared length is a number: the function that Number defines exists, and
\* its values are numbers.
LEMMA NumberNat ==
    ASSUME NEW s \in Seq(Byte)
    PROVE  Number(s) \in Nat
<1>. DEFINE Step(f, n) == IF n = 0 THEN 0 ELSE 10 * f[n - 1] + s[n]
            Values(k) == {f \in [0 .. k -> Nat] : \A n \in 0 .. k : f[n] = Step(f, n)}
            S == {k \in Nat : Values(k) # {}}
            value == CHOOSE g : g = [n \in 0 .. Len(s) |-> Step(g, n)]
<1>1. Len(s) \in Nat
  BY SMTT(30)
<1>2. 0 \in S
  <2>1. [n \in 0 .. 0 |-> 0] \in Values(0)
    BY SMTT(30)
  <2>. QED
    BY <2>1
<1>3. ASSUME NEW k \in 0 .. Len(s) - 1, k \in S
      PROVE  k + 1 \in S
  <2>1. PICK f \in [0 .. k -> Nat] : \A n \in 0 .. k : f[n] = Step(f, n)
    BY <1>3
  <2>. DEFINE g == [n \in 0 .. k + 1 |-> IF n = k + 1 THEN 10 * f[k] + s[k + 1] ELSE f[n]]
  <2>2. k \in 0 .. k /\ k + 1 \in 1 .. Len(s)
    BY <1>1, SMTT(30)
  <2>3. s[k + 1] \in Nat /\ f[k] \in Nat
    <3>. HIDE DEF Values, S, Step
    <3>1. f[k] \in Nat
      BY <2>2
    <3>2. s[k + 1] \in Byte
      BY <2>2, SMTT(30)
    <3>. QED
      BY <3>1, <3>2, SMTT(30) DEF Byte
  <2>4. g \in [0 .. k + 1 -> Nat]
    BY <2>3, SMTT(30)
  <2>5. ASSUME NEW n \in 0 .. k + 1
        PROVE  g[n] = Step(g, n)
    BY <2>1, <2>3, SMTT(30)
  <2>6. g \in Values(k + 1)
    <3>. HIDE DEF g, Step
    <3>. QED
      BY <2>4, <2>5
  <2>7. k + 1 \in Nat
    BY <2>2, SMTT(30)
  <2>. QED
    BY <2>6, <2>7
<1>4. Len(s) \in S
  <2>1. 0 .. Len(s) \subseteq S
    <3>. HIDE DEF S
    <3>. QED
      BY <1>1, <1>2, <1>3, UpTo
  <2>2. Len(s) \in 0 .. Len(s)
    BY <1>1, SMTT(30)
  <2>. QED
    BY <2>1, <2>2
<1>5. PICK f \in [0 .. Len(s) -> Nat] : \A n \in 0 .. Len(s) : f[n] = Step(f, n)
  BY <1>4
<1>6. f = [n \in 0 .. Len(s) |-> Step(f, n)]
  BY <1>5
<1>7. value = [n \in 0 .. Len(s) |-> Step(value, n)]
  <2>. HIDE DEF Step
  <2>. QED
    BY <1>6
<1>8. Number(s) = value[Len(s)]
  BY DEF Number
<1>. HIDE DEF value
<1>9. 0 .. Len(s) \subseteq {n \in 0 .. Len(s) : value[n] \in Nat}
  <2>. DEFINE R == {n \in 0 .. Len(s) : value[n] \in Nat}
  <2>1. 0 \in R
    BY <1>1, <1>7, SMTT(30)
  <2>2. ASSUME NEW n \in 0 .. Len(s) - 1, n \in R
        PROVE  n + 1 \in R
    <3>1. n + 1 \in 0 .. Len(s) /\ n + 1 # 0 /\ (n + 1) - 1 = n /\ s[n + 1] \in Nat
      BY <1>1, SMTT(30) DEF Byte
    <3>2. value[n + 1] = 10 * value[n] + s[n + 1]
      BY <1>7, <3>1
    <3>. QED
      BY <2>2, <3>1, <3>2, SMTT(30)
  <2>. HIDE DEF R
  <2>3. 0 .. Len(s) \subseteq R
    BY <1>1, <2>1, <2>2, UpTo
  <2>. QED
    BY <2>3 DEF R
<1>. QED
  BY <1>1, <1>8, <1>9, SMTT(30)

-----------------------------------------------------------------------------
(* The frames of a stream *)

\* What the first frame comes to: at least a byte, at most all of them.
Frames1(s) == [messages : Seq(Seq(Byte)), bytes : 1 .. Len(s)]

LEMMA WithoutReturnTyped ==
    ASSUME NEW l \in Seq(Byte)
    PROVE  WithoutReturn(l) \in Seq(Byte)
<1>1. CASE l = <<>>
  BY <1>1 DEF WithoutReturn
<1>2. CASE l # <<>>
  <2>1. Len(l) - 1 \in 0 .. Len(l)
    BY <1>2, SMTT(30)
  <2>. QED
    BY <2>1, Cut DEF WithoutReturn
<1>. QED
  BY <1>1, <1>2

LEMMA FirstFrameTyped ==
    ASSUME NEW s \in Seq(Byte), s # <<>>
    PROVE  FirstFrame(s) \in Frames1(s)
<1>1. Len(s) \in 1 .. Len(s) /\ <<>> \in Seq(Seq(Byte))
  BY SMTT(30)
<1>2. \A m \in Seq(Seq(Byte)), n \in 1 .. Len(s) : [messages |-> m, bytes |-> n] \in Frames1(s)
  BY DEF Frames1
<1>3. Ends(s) \in Frames1(s)
  BY <1>1, <1>2 DEF Ends
<1>4. \A b \in Seq(Byte) : <<b>> \in Seq(Seq(Byte))
  BY SMTT(30)
<1>5. CountedFrame(s) \in Frames1(s)
  <2>. DEFINE space == Position(s, Space)
              len == Number(First(s, space - 1))
              body == SubSeq(s, space + 1, space + len)
  <2>1. CASE \/ space \notin 1 .. MaxLength
             \/ ~IsNumber(First(s, space - 1)) \/ len > MaxLength
             \/ Len(s) < space + len \/ ~Utf8(body)
    <3>1. CountedFrame(s) = Ends(s)
      BY <2>1 DEF CountedFrame
    <3>. QED
      BY <1>3, <3>1
  <2>2. CASE ~(\/ space \notin 1 .. MaxLength
               \/ ~IsNumber(First(s, space - 1)) \/ len > MaxLength
               \/ Len(s) < space + len \/ ~Utf8(body))
    <3>1. CountedFrame(s) = [messages |-> <<body>>, bytes |-> space + len]
      BY <2>2 DEF CountedFrame
    <3>2. space \in 0 .. Len(s)
      BY Found
    <3>3. space \in 1 .. Len(s)
      <4>1. \A k \in 0 .. Len(s) : k \in 1 .. MaxLength => k \in 1 .. Len(s)
        BY FramingAssumption, SMTT(30)
      <4>. QED
        BY <2>2, <3>2, <4>1
    <3>4. len \in Nat
      <4>1. \A k \in 1 .. Len(s) : k - 1 \in 0 .. Len(s)
        BY SMTT(30)
      <4>. QED
        BY <3>3, <4>1, Cut, NumberNat
    <3>5. ~(Len(s) < space + len)
      BY <2>2
    <3>. HIDE DEF space, len
    <3>6. space + len \in 1 .. Len(s)
      BY <3>3, <3>4, <3>5, SMTT(30)
    <3>7. body \in Seq(Byte)
      BY <3>3, <3>6, SMTT(30)
    <3>. HIDE DEF body
    <3>. QED
      BY <1>2, <1>4, <3>1, <3>6, <3>7
  <2>. QED
    BY <2>1, <2>2
<1>6. TextFrame(s) \in Frames1(s)
  <2>. DEFINE nl == Position(s, Newline)
              line == IF nl = 0 THEN s ELSE First(s, nl - 1)
              bytes == IF nl = 0 THEN Len(s) ELSE nl
  <2>1. nl \in 0 .. Len(s)
    BY Found
  <2>2. \A k \in 0 .. Len(s) : k # 0 => k - 1 \in 0 .. Len(s) /\ k \in 1 .. Len(s)
    BY SMTT(30)
  <2>3. line \in Seq(Byte)
    BY <2>1, <2>2, Cut
  <2>4. bytes \in 1 .. Len(s)
    BY <1>1, <2>1, <2>2
  <2>5. TextFrame(s) \in {Ends(s), [messages |-> <<>>, bytes |-> bytes],
                          [messages |-> <<WithoutReturn(line)>>, bytes |-> bytes]}
    BY DEF TextFrame
  <2>. HIDE DEF line, bytes
  <2>. QED
    BY <1>1, <1>2, <1>3, <1>4, <2>3, <2>4, <2>5, WithoutReturnTyped
<1>. QED
  BY <1>5, <1>6 DEF FirstFrame

\* f gives the frames of every end of s.
FramesOf(s, f) ==
    /\ f \in [0 .. Len(s) -> Seq(Seq(Byte))]
    /\ f[0] = <<>>
    /\ \A n \in 1 .. Len(s) :
         LET first == FirstFrame(Drop(s, Len(s) - n)) IN
         f[n] = first.messages \o f[n - first.bytes]

\* A recursion that goes back some way from n, and adds something each time,
\* defines a function.
LEMMA Recursion ==
    \A l \in Nat : \A back \in [1 .. l -> Nat], add \in [1 .. l -> Seq(Seq(Byte))] :
        (\A n \in 1 .. l : back[n] \in 1 .. n) =>
            \E f \in [0 .. l -> Seq(Seq(Byte))] :
               f[0] = <<>> /\ \A n \in 1 .. l : f[n] = add[n] \o f[n - back[n]]
<1>. SUFFICES ASSUME NEW l \in Nat, NEW back \in [1 .. l -> Nat],
                     NEW add \in [1 .. l -> Seq(Seq(Byte))],
                     \A n \in 1 .. l : back[n] \in 1 .. n
              PROVE  \E f \in [0 .. l -> Seq(Seq(Byte))] :
                        f[0] = <<>> /\ \A n \in 1 .. l : f[n] = add[n] \o f[n - back[n]]
  OBVIOUS
<1>. DEFINE Upto(k, f) == f[0] = <<>> /\ \A n \in 1 .. k : f[n] = add[n] \o f[n - back[n]]
            S == {k \in Nat : \E f \in [0 .. k -> Seq(Seq(Byte))] : Upto(k, f)}
<1>1. 0 \in S
  <2>. DEFINE f == [n \in 0 .. 0 |-> <<>>]
  <2>1. f \in [0 .. 0 -> Seq(Seq(Byte))]
    BY SMTT(30)
  <2>2. Upto(0, f)
    BY SMTT(30)
  <2>. QED
    BY <2>1, <2>2
<1>2. ASSUME NEW k \in 0 .. l - 1, k \in S
      PROVE  k + 1 \in S
  <2>1. PICK f \in [0 .. k -> Seq(Seq(Byte))] : Upto(k, f)
    BY <1>2
  <2>2. k + 1 \in 1 .. l /\ k \in Nat
    BY SMTT(30)
  <2>3. back[k + 1] \in 1 .. k + 1 /\ add[k + 1] \in Seq(Seq(Byte))
    BY <2>2
  <2>. DEFINE new == add[k + 1] \o f[(k + 1) - back[k + 1]]
              g == [n \in 0 .. k + 1 |-> IF n = k + 1 THEN new ELSE f[n]]
  <2>4. (k + 1) - back[k + 1] \in 0 .. k
    <3>1. \A b \in 1 .. k + 1 : (k + 1) - b \in 0 .. k
      BY <2>2, SMTT(30)
    <3>. QED
      BY <2>3, <3>1
  <2>5. f[(k + 1) - back[k + 1]] \in Seq(Seq(Byte))
    BY <2>4
  <2>6. new \in Seq(Seq(Byte))
    BY <2>3, <2>5, ConcatProperties
  <2>. HIDE DEF new
  <2>7. g \in [0 .. k + 1 -> Seq(Seq(Byte))]
    BY <2>2, <2>6, SMTT(30)
  <2>8. \A n \in 0 .. k : g[n] = f[n]
    BY <2>2, SMTT(30)
  <2>9. g[k + 1] = new
    BY <2>2, SMTT(30)
  <2>. HIDE DEF g
  <2>10. ASSUME NEW n \in 1 .. k + 1
         PROVE  g[n] = add[n] \o g[n - back[n]]
    <3>1. CASE n = k + 1
      BY <2>4, <2>8, <2>9, <3>1 DEF new
    <3>2. CASE n # k + 1
      <4>1. n \in 1 .. k /\ n \in 0 .. k /\ n \in 1 .. l
        BY <2>2, <3>2, SMTT(30)
      <4>2. back[n] \in 1 .. n
        BY <4>1
      <4>3. n - back[n] \in 0 .. k
        <5>1. \A b \in 1 .. n : n - b \in 0 .. k
          BY <2>2, <4>1, SMTT(30)
        <5>. QED
          BY <4>2, <5>1
      <4>. QED
        BY <2>1, <2>8, <4>1, <4>3
    <3>. QED
      BY <3>1, <3>2
  <2>11. Upto(k + 1, g)
    <3>1. g[0] = <<>>
      <4>1. 0 \in 0 .. k
        BY <2>2, SMTT(30)
      <4>. QED
        BY <2>1, <2>8, <4>1
    <3>. QED
      BY <2>10, <3>1
  <2>12. k + 1 \in Nat
    BY <2>2, SMTT(30)
  <2>. HIDE DEF Upto
  <2>. QED
    BY <2>7, <2>11, <2>12
<1>3. 0 .. l \subseteq S
  <2>. HIDE DEF S
  <2>. QED
    BY <1>1, <1>2, UpTo
<1>4. l \in 0 .. l
  BY SMTT(30)
<1>. QED
  BY <1>3, <1>4

LEMMA FirstFrames ==
    ASSUME NEW s \in Seq(Byte), NEW n \in 1 .. Len(s)
    PROVE  /\ FirstFrame(Drop(s, Len(s) - n)).messages \in Seq(Seq(Byte))
           /\ FirstFrame(Drop(s, Len(s) - n)).bytes \in 1 .. n
<1>1. Len(s) - n \in 0 .. Len(s) /\ Len(s) - (Len(s) - n) = n
  BY SMTT(30)
<1>2. Drop(s, Len(s) - n) \in Seq(Byte) /\ Len(Drop(s, Len(s) - n)) = n
  BY <1>1, Cut
<1>3. PICK d \in Seq(Byte) : d = Drop(s, Len(s) - n) /\ Len(d) = n
  BY <1>2
<1>4. d # <<>>
  BY <1>3, SMTT(30)
<1>5. FirstFrame(d) \in Frames1(d)
  BY <1>4, FirstFrameTyped
<1>6. FirstFrame(d).messages \in Seq(Seq(Byte)) /\ FirstFrame(d).bytes \in 1 .. Len(d)
  BY <1>5 DEF Frames1
<1>. QED
  BY <1>3, <1>6

\* The function that Frames defines exists.
LEMMA FramesExist ==
    ASSUME NEW s \in Seq(Byte)
    PROVE  \E f : FramesOf(s, f) /\ Frames(s) = f[Len(s)]
<1>. DEFINE first == [n \in 1 .. Len(s) |-> FirstFrame(Drop(s, Len(s) - n))]
            back == [n \in 1 .. Len(s) |-> first[n].bytes]
            add == [n \in 1 .. Len(s) |-> first[n].messages]
            At(f, n) == IF n = 0 THEN <<>> ELSE first[n].messages \o f[n - first[n].bytes]
            frames == CHOOSE f : f = [n \in 0 .. Len(s) |-> At(f, n)]
<1>1. Len(s) \in Nat
  BY SMTT(30)
<1>2. \A n \in 1 .. Len(s) : first[n].messages \in Seq(Seq(Byte)) /\ first[n].bytes \in 1 .. n
  BY FirstFrames
<1>3. \A n \in 1 .. Len(s) : first[n] = FirstFrame(Drop(s, Len(s) - n))
  OBVIOUS
<1>4. Frames(s) = frames[Len(s)]
  BY DEF Frames
<1>. HIDE DEF first
<1>5. /\ back \in [1 .. Len(s) -> Nat] /\ add \in [1 .. Len(s) -> Seq(Seq(Byte))]
      /\ \A n \in 1 .. Len(s) : back[n] \in 1 .. n
  <2>1. \A n \in 1 .. Len(s) : first[n].bytes \in Nat
    BY <1>2, SMTT(30)
  <2>. QED
    BY <1>2, <2>1
<1>6. \A n \in 1 .. Len(s) : back[n] = first[n].bytes /\ add[n] = first[n].messages
  OBVIOUS
<1>. HIDE DEF back, add
<1>7. PICK f \in [0 .. Len(s) -> Seq(Seq(Byte))] :
         f[0] = <<>> /\ \A n \in 1 .. Len(s) : f[n] = add[n] \o f[n - back[n]]
  BY <1>1, <1>5, Recursion
<1>8. ASSUME NEW n \in 0 .. Len(s) PROVE f[n] = At(f, n)
  <2>1. n = 0 \/ n \in 1 .. Len(s)
    BY <1>1, SMTT(30)
  <2>. QED
    BY <1>6, <1>7, <2>1
<1>9. f = [n \in 0 .. Len(s) |-> At(f, n)]
  <2>. HIDE DEF At
  <2>. QED
    BY <1>8
<1>10. frames = [n \in 0 .. Len(s) |-> At(frames, n)]
  <2>. HIDE DEF At
  <2>. QED
    BY <1>9
<1>. HIDE DEF frames
<1>11. /\ frames[0] = <<>>
       /\ \A n \in 1 .. Len(s) : frames[n] = first[n].messages \o frames[n - first[n].bytes]
  <2>1. 0 \in 0 .. Len(s) /\ \A n \in 1 .. Len(s) : n \in 0 .. Len(s) /\ n # 0
    BY <1>1, SMTT(30)
  <2>2. \A n \in 0 .. Len(s) : frames[n] = At(frames, n)
    <3>. HIDE DEF At
    <3>. QED
      BY <1>10
  <2>. QED
    BY <2>1, <2>2
<1>12. ASSUME NEW n \in 0 .. Len(s) PROVE frames[n] = f[n]
  <2>. DEFINE T == {k \in 0 .. Len(s) : frames[k] # f[k]}
  <2>1. CASE T = {}
    BY <2>1
  <2>2. CASE T # {}
    <3>1. T \in SUBSET Nat
      BY <1>1, SMTT(30)
    <3>2. PICK k \in T : \A m \in T : k <= m
      <4>. HIDE DEF T
      <4>. QED
        BY <2>2, <3>1, Least
    <3>3. k \in 0 .. Len(s) /\ frames[k] # f[k]
      BY <3>2
    <3>4. k \in 1 .. Len(s)
      <4>1. k # 0
        BY <1>7, <1>11, <3>3
      <4>. QED
        BY <1>1, <3>3, <4>1, SMTT(30)
    <3>5. back[k] \in 1 .. k
      BY <1>5, <3>4
    <3>6. k - back[k] \in 0 .. Len(s) /\ ~(k <= k - back[k])
      BY <1>1, <3>4, <3>5, SMTT(30)
    <3>7. frames[k - back[k]] = f[k - back[k]]
      BY <3>2, <3>6
    <3>. QED
      BY <1>6, <1>7, <1>11, <3>3, <3>4, <3>7
  <2>. QED
    BY <2>1, <2>2
<1>13. Len(s) \in 0 .. Len(s)
  BY <1>1, SMTT(30)
<1>14. FramesOf(s, f)
  BY <1>3, <1>6, <1>7 DEF FramesOf
<1>. QED
  BY <1>4, <1>12, <1>13, <1>14

\* The frames of the end of s are the frames of s from there on.
LEMMA FramesAgree ==
    ASSUME NEW s \in Seq(Byte), NEW k \in 0 .. Len(s), NEW f, FramesOf(s, f),
           NEW g, FramesOf(Drop(s, k), g), NEW n \in 0 .. Len(s) - k
    PROVE  f[n] = g[n]
<1>. DEFINE T == {m \in 0 .. Len(s) - k : f[m] # g[m]}
<1>1. PICK d \in Seq(Byte) : d = Drop(s, k) /\ Len(d) = Len(s) - k
  BY Cut
<1>2. CASE T = {}
  BY <1>2
<1>3. CASE T # {}
  <2>1. T \in SUBSET Nat
    BY SMTT(30)
  <2>2. PICK m \in T : \A i \in T : m <= i
    <3>. HIDE DEF T
    <3>. QED
      BY <1>3, <2>1, Least
  <2>3. m \in 0 .. Len(s) - k /\ f[m] # g[m]
    BY <2>2
  <2>4. m \in 1 .. Len(s) - k
    <3>1. m # 0
      BY <2>3 DEF FramesOf
    <3>. QED
      BY <2>3, <3>1, SMTT(30)
  <2>5. m \in 1 .. Len(s) /\ m \in 1 .. Len(d)
    BY <1>1, <2>4, SMTT(30)
  <2>6. PICK first : first = FirstFrame(Drop(s, Len(s) - m))
    OBVIOUS
  <2>7. first.bytes \in 1 .. m
    BY <2>5, <2>6, FirstFrames
  <2>8. f[m] = first.messages \o f[m - first.bytes]
    BY <2>5, <2>6 DEF FramesOf
  <2>9. Drop(d, Len(d) - m) = Drop(s, Len(s) - m)
    BY <1>1, <2>3, DropDrop
  <2>10. g[m] = first.messages \o g[m - first.bytes]
    BY <1>1, <2>5, <2>6, <2>9 DEF FramesOf
  <2>11. m - first.bytes \in 0 .. Len(s) - k /\ ~(m <= m - first.bytes)
    <3>1. \A b \in 1 .. m : m - b \in 0 .. Len(s) - k /\ ~(m <= m - b)
      BY <2>4, SMTT(30)
    <3>. QED
      BY <2>7, <3>1
  <2>12. f[m - first.bytes] = g[m - first.bytes]
    BY <2>2, <2>11
  <2>. QED
    BY <2>3, <2>8, <2>10, <2>12
<1>. QED
  BY <1>2, <1>3

\* The frames of a stream are a sequence of messages, none for an empty one.
LEMMA FramesTyped ==
    ASSUME NEW s \in Seq(Byte)
    PROVE  Frames(s) \in Seq(Seq(Byte)) /\ (s = <<>> => Frames(s) = <<>>)
<1>1. PICK f : FramesOf(s, f) /\ Frames(s) = f[Len(s)]
  BY FramesExist
<1>2. Len(s) \in 0 .. Len(s) /\ (s = <<>> => Len(s) = 0)
  BY SMTT(30)
<1>. QED
  BY <1>1, <1>2 DEF FramesOf

\* They are the first frame and the frames of what comes after it.
LEMMA FramesUnfold ==
    ASSUME NEW s \in Seq(Byte), s # <<>>
    PROVE  /\ FirstFrame(s).bytes \in 1 .. Len(s) /\ FirstFrame(s).messages \in Seq(Seq(Byte))
           /\ Frames(s) = FirstFrame(s).messages \o Frames(Drop(s, FirstFrame(s).bytes))
<1>1. PICK f : FramesOf(s, f) /\ Frames(s) = f[Len(s)]
  BY FramesExist
<1>2. Len(s) \in 1 .. Len(s) /\ Len(s) - Len(s) = 0
  BY SMTT(30)
<1>3. Drop(s, 0) = s
  <2>1. 0 + 1 = 1
    BY SMTT(30)
  <2>. QED
    BY <2>1, SubSeqFull DEF Drop
<1>4. PICK first : first = FirstFrame(s)
  OBVIOUS
<1>5. FirstFrame(Drop(s, Len(s) - Len(s))) = first
  BY <1>2, <1>3, <1>4
<1>6. first.bytes \in 1 .. Len(s) /\ first.messages \in Seq(Seq(Byte))
  BY <1>2, <1>5, FirstFrames
<1>7. f[Len(s)] = first.messages \o f[Len(s) - first.bytes]
  BY <1>1, <1>2, <1>5 DEF FramesOf
<1>8. PICK k \in 0 .. Len(s) : k = first.bytes
  <2>1. \A b \in 1 .. Len(s) : b \in 0 .. Len(s)
    BY SMTT(30)
  <2>. QED
    BY <1>6, <2>1
<1>9. PICK d \in Seq(Byte) : d = Drop(s, k) /\ Len(d) = Len(s) - k
  BY Cut
<1>10. PICK g : FramesOf(d, g) /\ Frames(d) = g[Len(d)]
  BY FramesExist
<1>11. Len(s) - k \in 0 .. Len(s) - k
  BY SMTT(30)
<1>12. f[Len(s) - k] = g[Len(s) - k]
  <2>1. FramesOf(s, f) /\ FramesOf(Drop(s, k), g)
    BY <1>1, <1>9, <1>10
  <2>. QED
    BY <1>11, <2>1, FramesAgree, SMTT(30)
<1>. QED
  BY <1>1, <1>4, <1>6, <1>7, <1>8, <1>9, <1>10, <1>12

-----------------------------------------------------------------------------
(* The first frame of what is in the buffer and what is still to come *)

\* A frame that ends the stream leaves no frames.
LEMMA EndsFrames ==
    ASSUME NEW w \in Seq(Byte), w # <<>>, FirstFrame(w) = Ends(w)
    PROVE  Frames(w) = <<>>
<1>1. Ends(w).messages = <<>> /\ Ends(w).bytes = Len(w)
  BY DEF Ends
<1>2. Drop(w, Len(w)) = <<>>
  <2>1. Len(w) \in Int /\ Len(w) + 1 \in Int /\ Len(w) < Len(w) + 1
    BY SMTT(30)
  <2>. QED
    BY <2>1, SubSeqEmpty DEF Drop
<1>3. <<>> \in Seq(Byte)
  BY SMTT(30)
<1>4. Frames(w) = <<>> \o <<>>
  BY <1>1, <1>2, <1>3, FramesUnfold, FramesTyped
<1>. QED
  BY <1>4, SMTT(30)

\* A frame that is a message, in the buffer, and the frames after it.
Begins(w, b, n) == FirstFrame(w) = [messages |-> <<b>>, bytes |-> n]
GoesOn(s, t, b, n) == Frames(s \o t) = <<b>> \o Frames(Drop(s, n) \o t)

LEMMA MessageFrames ==
    ASSUME NEW s \in Seq(Byte), s # <<>>, NEW t \in Seq(Byte), NEW b \in Seq(Byte),
           NEW n \in 0 .. Len(s), Begins(s \o t, b, n)
    PROVE  GoesOn(s, t, b, n)
<1>1. s \o t \in Seq(Byte) /\ Drop(s \o t, n) = Drop(s, n) \o t
  BY Joined
<1>2. s \o t # <<>>
  BY ConcatEqualIffEmpty, SMTT(30)
<1>3. FirstFrame(s \o t).messages = <<b>> /\ FirstFrame(s \o t).bytes = n
  BY SMTT(30) DEF Begins
<1>. QED
  BY <1>1, <1>2, <1>3, FramesUnfold DEF GoesOn

\* What the buffer and the whole stream have in common.
LEMMA Whole ==
    ASSUME NEW s \in Seq(Byte), s # <<>>, NEW t \in Seq(Byte)
    PROVE  /\ s \o t \in Seq(Byte) /\ s \o t # <<>> /\ Len(s \o t) = Len(s) + Len(t)
           /\ (s \o t)[1] = s[1]
<1>1. 1 \in 1 .. Len(s)
  BY SMTT(30)
<1>2. s \o t # <<>>
  BY ConcatEqualIffEmpty, SMTT(30)
<1>. QED
  BY <1>1, <1>2, Joined

\* A line that ends in the buffer.
LEMMA LineFrames ==
    ASSUME NEW s \in Seq(Byte), s # <<>>, s[1] \notin 1 .. 9, NEW t \in Seq(Byte),
           Position(s, Newline) \in 1 .. MaxLength + 1
    PROVE  LET nl == Position(s, Newline)
               line == First(s, nl - 1) IN
           /\ Utf8(line) => Frames(s \o t) = <<WithoutReturn(line)>> \o Frames(Drop(s, nl) \o t)
           /\ ~Utf8(line) => Frames(s \o t) = <<>>
<1>1. PICK nl, line : /\ nl = Position(s, Newline) /\ nl \in 1 .. MaxLength + 1
                      /\ line = First(s, nl - 1)
  OBVIOUS
<1>. DEFINE w == s \o t
<1>2. w \in Seq(Byte) /\ w # <<>> /\ w[1] = s[1]
  BY Whole
<1>3. nl \in 0 .. Len(s)
  BY <1>1, Found
<1>4. /\ nl # 0 /\ nl - 1 \in 0 .. Len(s) /\ ~(nl - 1 > MaxLength)
  BY <1>1, <1>3, FramingAssumption, SMTT(30)
<1>5. Position(w, Newline) = nl
  BY <1>1, <1>4, PositionJoined
<1>6. First(w, nl - 1) = line
  BY <1>1, <1>4, Joined
<1>7. line \in Seq(Byte) /\ Len(line) = nl - 1
  BY <1>1, <1>4, Cut
<1>8. FirstFrame(w) = TextFrame(w)
  BY <1>2 DEF FirstFrame
<1>9. TextFrame(w) = IF ~Utf8(line) THEN Ends(w)
                     ELSE [messages |-> <<WithoutReturn(line)>>, bytes |-> nl]
  BY <1>4, <1>5, <1>6, <1>7 DEF TextFrame
<1>10. CASE Utf8(line)
  <2>1. PICK b \in Seq(Byte) : b = WithoutReturn(line)
    BY <1>7, WithoutReturnTyped
  <2>2. PICK n \in 0 .. Len(s) : n = nl
    BY <1>3
  <2>3. Begins(s \o t, b, n)
    BY <1>8, <1>9, <1>10, <2>1, <2>2 DEF Begins
  <2>4. GoesOn(s, t, b, n)
    BY <2>3, MessageFrames
  <2>. QED
    BY <1>1, <1>10, <2>1, <2>2, <2>4 DEF GoesOn
<1>11. CASE ~Utf8(line)
  <2>1. Frames(s \o t) = <<>>
    BY <1>2, <1>8, <1>9, <1>11, EndsFrames
  <2>. QED
    BY <1>1, <1>11, <2>1
<1>. QED
  BY <1>1, <1>10, <1>11

\* The unfinished line at the end of the stream.
LEMMA LastLine ==
    ASSUME NEW s \in Seq(Byte), s # <<>>, s[1] \notin 1 .. 9, Position(s, Newline) = 0,
           Len(s) <= MaxLength
    PROVE  /\ s = <<Return>> => Frames(s) = <<>>
           /\ s # <<Return>> /\ Utf8(s) => Frames(s) = <<WithoutReturn(s)>> \o Frames(<<>>)
           /\ s # <<Return>> /\ ~Utf8(s) => Frames(s) = <<>>
<1>1. ~(Len(s) > MaxLength)
  BY FramingAssumption, SMTT(30)
<1>2. FirstFrame(s) = IF s = <<Return>> THEN [messages |-> <<>>, bytes |-> Len(s)]
                      ELSE IF ~Utf8(s) THEN Ends(s)
                      ELSE [messages |-> <<WithoutReturn(s)>>, bytes |-> Len(s)]
  BY <1>1 DEF FirstFrame, TextFrame
<1>3. CASE s = <<Return>> \/ ~Utf8(s)
  <2>1. FirstFrame(s) = Ends(s)
    BY <1>2, <1>3 DEF Ends
  <2>. QED
    BY <1>3, <2>1, EndsFrames
<1>4. CASE s # <<Return>> /\ Utf8(s)
  <2>1. /\ FirstFrame(s).messages = <<WithoutReturn(s)>> /\ FirstFrame(s).bytes = Len(s)
    <3>1. FirstFrame(s) = [messages |-> <<WithoutReturn(s)>>, bytes |-> Len(s)]
      BY <1>2, <1>4
    <3>. QED
      BY <3>1, SMTT(30)
  <2>2. Drop(s, Len(s)) = <<>>
    <3>1. Len(s) \in Int /\ Len(s) + 1 \in Int /\ Len(s) < Len(s) + 1
      BY SMTT(30)
    <3>. QED
      BY <3>1, SubSeqEmpty DEF Drop
  <2>. QED
    BY <1>4, <2>1, <2>2, FramesUnfold
<1>. QED
  BY <1>3, <1>4

\* A counted frame whose length is in the buffer.
LEMMA CountedFrames ==
    ASSUME NEW s \in Seq(Byte), s # <<>>, s[1] \in 1 .. 9, NEW t \in Seq(Byte),
           Position(s, Space) \in 1 .. MaxLength
    PROVE  LET space == Position(s, Space)
               digits == First(s, space - 1)
               len == Number(digits) IN
           /\ len \in Nat /\ space \in 1 .. Len(s)
           /\ ~IsNumber(digits) \/ len > MaxLength => Frames(s \o t) = <<>>
           /\ IsNumber(digits) /\ ~(len > MaxLength) /\ space + len <= Len(s) =>
                LET body == SubSeq(s, space + 1, space + len) IN
                /\ Utf8(body) => Frames(s \o t) = <<body>> \o Frames(Drop(s, space + len) \o t)
                /\ ~Utf8(body) => Frames(s \o t) = <<>>
           /\ IsNumber(digits) /\ ~(len > MaxLength) /\ Len(s) + Len(t) < space + len =>
                Frames(s \o t) = <<>>
<1>1. PICK space, digits, len :
         /\ space = Position(s, Space) /\ space \in 1 .. MaxLength
         /\ digits = First(s, space - 1) /\ len = Number(digits)
  OBVIOUS
<1>. DEFINE w == s \o t
            whole == SubSeq(w, space + 1, space + len)
<1>2. w \in Seq(Byte) /\ w # <<>> /\ Len(w) = Len(s) + Len(t) /\ w[1] = s[1]
  BY Whole
<1>3. space \in 0 .. Len(s)
  BY <1>1, Found
<1>4. space # 0 /\ space \in 1 .. Len(s) /\ space - 1 \in 0 .. Len(s)
  BY <1>1, <1>3, FramingAssumption, SMTT(30)
<1>5. Position(w, Space) = space
  BY <1>1, <1>4, PositionJoined
<1>6. First(w, space - 1) = digits
  BY <1>1, <1>4, Joined
<1>7. digits \in Seq(Byte) /\ len \in Nat
  BY <1>1, <1>4, Cut, NumberNat
<1>8. FirstFrame(w) = CountedFrame(w)
  BY <1>2 DEF FirstFrame
<1>9. CountedFrame(w) = IF ~IsNumber(digits) \/ len > MaxLength THEN Ends(w)
                        ELSE IF Len(w) < space + len \/ ~Utf8(whole) THEN Ends(w)
                        ELSE [messages |-> <<whole>>, bytes |-> space + len]
  BY <1>1, <1>5, <1>6 DEF CountedFrame
<1>10. CASE ~IsNumber(digits) \/ len > MaxLength
  <2>1. Frames(w) = <<>>
    BY <1>2, <1>8, <1>9, <1>10, EndsFrames
  <2>. QED
    BY <1>1, <1>4, <1>7, <1>10, <2>1
<1>11. CASE IsNumber(digits) /\ ~(len > MaxLength) /\ Len(s) + Len(t) < space + len
  <2>1. Frames(w) = <<>>
    BY <1>2, <1>8, <1>9, <1>11, EndsFrames
  <2>2. ~(space + len <= Len(s))
    BY <1>4, <1>7, <1>11, SMTT(30)
  <2>. QED
    BY <1>1, <1>4, <1>7, <1>11, <2>1, <2>2
<1>12. CASE IsNumber(digits) /\ ~(len > MaxLength) /\ space + len <= Len(s)
  <2>1. PICK n \in 0 .. Len(s) : n = space + len
    BY <1>4, <1>7, <1>12, SMTT(30)
  <2>2. PICK body : body = SubSeq(s, space + 1, n)
    OBVIOUS
  <2>3. whole = body
    <3>1. SubSeq(w, space + 1, n) = SubSeq(s, space + 1, n)
      BY <1>3, Joined
    <3>. QED
      BY <2>1, <2>2, <3>1
  <2>4. body \in Seq(Byte)
    <3>1. space + 1 \in Int /\ n \in Int /\ \A i \in space + 1 .. n : s[i] \in Byte
      BY <1>4, SMTT(30)
    <3>. QED
      BY <2>2, <3>1, SubSeqProperties
  <2>5. ~(Len(w) < space + len) /\ ~(Len(s) + Len(t) < space + len)
    BY <1>2, <1>4, <1>7, <1>12, SMTT(30)
  <2>6. CASE Utf8(body)
    <3>1. Begins(s \o t, body, n)
      BY <1>8, <1>9, <1>12, <2>1, <2>3, <2>5, <2>6 DEF Begins
    <3>2. GoesOn(s, t, body, n)
      BY <2>4, <3>1, MessageFrames
    <3>. QED
      BY <1>1, <1>4, <1>7, <1>12, <2>1, <2>2, <2>5, <2>6, <3>2 DEF GoesOn
  <2>7. CASE ~Utf8(body)
    <3>1. Frames(w) = <<>>
      BY <1>2, <1>8, <1>9, <1>12, <2>3, <2>7, EndsFrames
    <3>. QED
      BY <1>1, <1>4, <1>7, <1>12, <2>1, <2>2, <2>5, <2>7, <3>1
  <2>. QED
    BY <2>6, <2>7
<1>13. CASE /\ IsNumber(digits) /\ ~(len > MaxLength)
            /\ ~(space + len <= Len(s)) /\ ~(Len(s) + Len(t) < space + len)
  BY <1>1, <1>4, <1>7, <1>13
<1>. QED
  BY <1>10, <1>11, <1>12, <1>13

\* A count that is not followed by a space in time: no frames, whatever comes.
LEMMA UncountedFrames ==
    ASSUME NEW s \in Seq(Byte), s # <<>>, s[1] \in 1 .. 9, NEW t \in Seq(Byte),
           Position(s, Space) \notin 1 .. MaxLength,
           Position(s, Newline) # 0 \/ Len(s) >= MaxLength \/ t = <<>>
    PROVE  Frames(s \o t) = <<>>
<1>. DEFINE w == s \o t
<1>1. w \in Seq(Byte) /\ w # <<>> /\ Len(w) = Len(s) + Len(t) /\ w[1] = s[1]
  BY Whole
<1>2. FirstFrame(w) = CountedFrame(w)
  BY <1>1 DEF FirstFrame
<1>3. PICK q \in 0 .. Len(w) : q = Position(w, Space)
  BY <1>1, Found
<1>4. CASE q \notin 1 .. MaxLength
  <2>1. CountedFrame(w) = Ends(w)
    BY <1>3, <1>4 DEF CountedFrame
  <2>. QED
    BY <1>1, <1>2, <2>1, EndsFrames
<1>5. CASE q \in 1 .. MaxLength
  <2>1. Position(s, Space) = 0
    BY <1>3, <1>5, PositionJoined
  <2>2. q \notin 1 .. Len(s)
    BY <1>3, <2>1, PositionJoined
  <2>3. q > Len(s) /\ ~(Len(s) >= MaxLength) /\ t # <<>>
    BY <1>1, <1>3, <1>5, <2>2, FramingAssumption, SMTT(30)
  <2>4. PICK nl \in 0 .. Len(s) : nl = Position(s, Newline) /\ nl # 0 /\ s[nl] = Newline
    BY <2>3, Found
  <2>5. nl \in 1 .. Len(s) /\ nl \in 1 .. q - 1 /\ q - 1 \in 0 .. Len(w)
    BY <1>3, <2>3, <2>4, SMTT(30)
  <2>6. w[nl] = Newline
    BY <2>4, <2>5, Joined
  <2>7. First(w, q - 1) \in Seq(Byte) /\ Len(First(w, q - 1)) = q - 1
    BY <1>1, <2>5, Cut
  <2>8. First(w, q - 1)[nl] = w[nl]
    <3>1. \A i \in 1 .. q - 1 : w[i] \in Byte
      BY <1>1, <2>5, SMTT(30)
    <3>2. 1 \in Int /\ q - 1 \in Int /\ nl \in 1 .. (q - 1) - 1 + 1 /\ 1 + nl - 1 = nl
      BY <2>5, SMTT(30)
    <3>3. \A i \in 1 .. (q - 1) - 1 + 1 : SubSeq(w, 1, q - 1)[i] = w[1 + i - 1]
      BY <3>1, <3>2, SubSeqProperties, SMTT(30)
    <3>. QED
      BY <3>2, <3>3 DEF First
  <2>9. ~IsNumber(First(w, q - 1))
    <3>1. nl \in DOMAIN First(w, q - 1)
      BY <2>5, <2>7, SMTT(30)
    <3>2. First(w, q - 1)[nl] \notin Digits
      <4>1. Newline \notin Digits
        BY SMTT(30) DEF Digits, Newline
      <4>. QED
        BY <2>6, <2>8, <4>1
    <3>. QED
      BY <3>1, <3>2 DEF IsNumber
  <2>10. CountedFrame(w) = Ends(w)
    BY <1>3, <2>9 DEF CountedFrame
  <2>. QED
    BY <1>1, <1>2, <2>10, EndsFrames
<1>. QED
  BY <1>4, <1>5

-----------------------------------------------------------------------------
(* A call of decode *)

\* The states of the octet count.
Octets == {NoOctets, NotDiscarding, DiscardingToEol} \cup {Discarding(n) : n \in Nat}

\* What a call of decode can return.
Results ==
    [kind : {"none", "message", "skipped", "fatal"}, body : Seq(Byte), src : Seq(Byte),
     octet : Octets, discarding : BOOLEAN]

\* What BufferBound says of the state that a call leaves.
Bounded(r) ==
    \/ Len(r.src) < 2 * MaxLength
    \/ r.octet.state = "discarding" /\ r.octet.left > MaxLength

Good(r) == r \in Results /\ (r.kind = "none" => Bounded(r))

LEMMA OctetsTyped ==
    /\ NoOctets \in Octets /\ NotDiscarding \in Octets /\ DiscardingToEol \in Octets
    /\ \A n \in Nat : Discarding(n) \in Octets
    /\ \A o \in Octets : /\ o.state \in {"none", "not discarding", "discarding", "to eol"}
                         /\ o.left \in Nat
                         /\ o.state = "none" => o = NoOctets
<1>1. ASSUME NEW n \in Nat PROVE Discarding(n) \in Octets
  BY DEF Octets
<1>2. ASSUME NEW o \in Octets
      PROVE  /\ o.state \in {"none", "not discarding", "discarding", "to eol"}
             /\ o.left \in Nat
             /\ o.state = "none" => o = NoOctets
  <2>1. CASE o \in {NoOctets, NotDiscarding, DiscardingToEol}
    <3>1. CASE o = NoOctets
      BY <3>1 DEF NoOctets
    <3>2. CASE o = NotDiscarding
      BY <3>2 DEF NotDiscarding
    <3>3. CASE o = DiscardingToEol
      BY <3>3 DEF DiscardingToEol
    <3>. QED
      BY <2>1, <3>1, <3>2, <3>3
  <2>2. CASE \E n \in Nat : o = Discarding(n)
    BY <2>2, SMTT(30) DEF Discarding
  <2>. QED
    BY <2>1, <2>2 DEF Octets
<1>. QED
  BY <1>1, <1>2 DEF Octets

\* The four ways to return.
LEMMA Returns ==
    ASSUME NEW s \in Seq(Byte), NEW b \in Seq(Byte), NEW o \in Octets, NEW d \in BOOLEAN
    PROVE  /\ Good(Frame(b, s, o, d)) /\ Good(Skipped(s, o, d)) /\ Good(Fatal(s, o, d))
           /\ Len(s) < 2 * MaxLength \/ (o.state = "discarding" /\ o.left > MaxLength)
                => Good(Nothing(s, o, d))
<1>1. <<>> \in Seq(Byte)
  BY SMTT(30)
<1>. QED
  BY <1>1 DEF Good, Results, Bounded, Frame, Skipped, Fatal, Nothing

\* An empty buffer is small.
LEMMA Empty == <<>> \in Seq(Byte) /\ Len(<<>>) = 0 /\ Len(<<>>) < 2 * MaxLength
BY FramingAssumption, SMTT(30)

LEMMA LineFrameGood ==
    ASSUME NEW l \in Seq(Byte), NEW s \in Seq(Byte)
    PROVE  Good(LineFrame(l, s)) /\ LineFrame(l, s).kind # "none"
<1>1. WithoutReturn(l) \in Seq(Byte)
  <2>1. CASE l = <<>>
    BY <2>1 DEF WithoutReturn
  <2>2. CASE l # <<>>
    <3>1. Len(l) - 1 \in 0 .. Len(l)
      BY <2>2, SMTT(30)
    <3>. QED
      BY <3>1, Cut DEF WithoutReturn
  <2>. QED
    BY <2>1, <2>2
<1>2. Good(Frame(WithoutReturn(l), s, NoOctets, FALSE)) /\ Good(Fatal(s, NoOctets, FALSE))
  BY <1>1, Returns, OctetsTyped
<1>. QED
  BY <1>2 DEF LineFrame, Frame, Fatal

LEMMA NextLineGood ==
    ASSUME NEW s \in Seq(Byte)
    PROVE  Good(NextLine(s))
<1>. DEFINE nl == Position(s, Newline)
<1>1. nl \in 0 .. Len(s)
  BY Found
<1>2. CASE nl \in 1 .. MaxLength + 1
  <2>1. nl - 1 \in 0 .. Len(s)
    BY <1>1, <1>2, SMTT(30)
  <2>2. Good(LineFrame(First(s, nl - 1), Drop(s, nl)))
    BY <1>1, <2>1, Cut, LineFrameGood
  <2>. QED
    BY <1>2, <2>2 DEF NextLine
<1>3. CASE nl \notin 1 .. MaxLength + 1 /\ Len(s) > MaxLength
  <2>1. NextLine(s) = Skipped(s, NoOctets, TRUE)
    BY <1>3 DEF NextLine
  <2>. QED
    BY <2>1, Returns, OctetsTyped
<1>4. CASE nl \notin 1 .. MaxLength + 1 /\ ~(Len(s) > MaxLength)
  <2>1. NextLine(s) = Nothing(s, NoOctets, FALSE)
    BY <1>4 DEF NextLine
  <2>2. Len(s) < 2 * MaxLength
    BY <1>4, FramingAssumption, SMTT(30)
  <2>. QED
    BY <2>1, <2>2, Returns, OctetsTyped
<1>. QED
  BY <1>2, <1>3, <1>4

LEMMA LineDecodeGood ==
    ASSUME NEW s \in Seq(Byte), NEW d \in BOOLEAN
    PROVE  Good(LineDecode(s, d))
<1>1. Position(s, Newline) \in 0 .. Len(s)
  BY Found
<1>2. Good(NextLine(s)) /\ Good(NextLine(Drop(s, Position(s, Newline))))
  BY <1>1, Cut, NextLineGood
<1>3. Good(Nothing(<<>>, NoOctets, TRUE))
  BY Empty, Returns, OctetsTyped
<1>. QED
  BY <1>2, <1>3 DEF LineDecode

LEMMA LineDecodeEofGood ==
    ASSUME NEW s \in Seq(Byte), NEW d \in BOOLEAN
    PROVE  Good(LineDecodeEof(s, d))
<1>. DEFINE r == LineDecode(s, d)
<1>1. Good(r)
  BY LineDecodeGood
<1>. HIDE DEF r
<1>2. r.src \in Seq(Byte) /\ r.discarding \in BOOLEAN
  BY <1>1 DEF Good, Results
<1>3. Good(LineFrame(r.src, <<>>)) /\ LineFrame(r.src, <<>>).kind # "none"
  BY <1>2, Empty, LineFrameGood
<1>4. Good([LineFrame(r.src, <<>>) EXCEPT !.discarding = r.discarding])
  BY <1>2, <1>3 DEF Good, Results
<1>. QED
  BY <1>1, <1>4 DEF LineDecodeEof, r

\* A counted frame: the length and the place of the space are within the limit
\* when the body is waited for, and their sum does not wrap.
LEMMA CountedGood ==
    ASSUME NEW s \in Seq(Byte), NEW space \in 1 .. Len(s), space <= MaxLength, NEW d \in BOOLEAN
    PROVE  Good(CountedDecode(s, space, d))
<1>. DEFINE len == Number(First(s, space - 1))
            to == (space + len) % UsizeModulus
            body == SubSeq(s, space + 1, to)
<1>1. len \in Nat
  <2>1. space - 1 \in 0 .. Len(s)
    BY SMTT(30)
  <2>. QED
    BY <2>1, Cut, NumberNat
<1>. HIDE DEF len
<1>2. Drop(s, space) \in Seq(Byte)
  BY Cut, SMTT(30)
<1>3. CASE ~IsNumber(First(s, space - 1)) \/ len >= UsizeModulus
  <2>1. CountedDecode(s, space, d) = Fatal(Drop(s, space), NoOctets, d)
    BY <1>3 DEF CountedDecode, len
  <2>. QED
    BY <1>2, <2>1, Returns, OctetsTyped
<1>4. CASE /\ ~(~IsNumber(First(s, space - 1)) \/ len >= UsizeModulus)
           /\ len > MaxLength
  <2>1. CountedDecode(s, space, d) = Nothing(Drop(s, space), Discarding(len), d)
    BY <1>4 DEF CountedDecode, len
  <2>2. Discarding(len).state = "discarding" /\ Discarding(len).left > MaxLength
    BY <1>4 DEF Discarding
  <2>. QED
    BY <1>1, <1>2, <2>1, <2>2, Returns, OctetsTyped
<1>5. CASE /\ ~(~IsNumber(First(s, space - 1)) \/ len >= UsizeModulus)
           /\ ~(len > MaxLength)
  <2>1. to = space + len /\ to <= 2 * MaxLength /\ to \in Nat /\ ~(to < space)
    BY <1>1, <1>5, FramingAssumption, SMTT(30)
  <2>2. CASE Len(s) < to
    <3>1. CountedDecode(s, space, d) = Nothing(s, NotDiscarding, d)
      BY <1>5, <2>2 DEF CountedDecode, len
    <3>2. Len(s) < 2 * MaxLength
      BY <2>1, <2>2, FramingAssumption, SMTT(30)
    <3>. QED
      BY <3>1, <3>2, Returns, OctetsTyped
  <2>3. CASE ~(Len(s) < to)
    <3>. HIDE DEF to
    <3>1. to \in 0 .. Len(s)
      BY <2>1, <2>3, SMTT(30)
    <3>2. Drop(s, to) \in Seq(Byte)
      BY <3>1, Cut
    <3>3. body \in Seq(Byte)
      BY <3>1, SMTT(30)
    <3>4. \/ CountedDecode(s, space, d) = Frame(body, Drop(s, to), NoOctets, d)
          \/ CountedDecode(s, space, d) = Fatal(Drop(s, to), NoOctets, d)
      BY <1>5, <2>1, <2>3 DEF CountedDecode, len, to
    <3>. HIDE DEF body
    <3>. QED
      BY <3>2, <3>3, <3>4, Returns, OctetsTyped
  <2>. QED
    BY <2>2, <2>3
<1>. QED
  BY <1>3, <1>4, <1>5

\* One call with an octet count in hand.
LEMMA OctetGood ==
    ASSUME NEW o \in Octets, o # NoOctets, NEW s \in Seq(Byte), NEW d \in BOOLEAN
    PROVE  Good(octet_decode(o, s, d))
<1>. DEFINE space == Position(s, Space)
            nl == Position(s, Newline)
<1>1. space \in 0 .. Len(s) /\ nl \in 0 .. Len(s)
  BY Found
<1>2. o.state \in {"not discarding", "discarding", "to eol"} /\ o.left \in Nat
  BY OctetsTyped
<1>3. Good(Nothing(<<>>, o, d)) /\ Good(Nothing(<<>>, DiscardingToEol, d))
  BY Empty, Returns, OctetsTyped
<1>4. Good(Fatal(Drop(s, nl), NoOctets, d)) /\ Good(Fatal(Drop(s, nl), o, d))
  BY <1>1, Cut, Returns, OctetsTyped
<1>5. CASE o.state = "discarding" /\ Len(s) >= o.left
  <2>1. Drop(s, o.left) \in Seq(Byte)
    BY <1>2, <1>5, Cut, SMTT(30)
  <2>2. ~(Len(s) < o.left)
    BY <1>2, <1>5, SMTT(30)
  <2>3. octet_decode(o, s, d) = Fatal(Drop(s, o.left), NoOctets, d)
    BY <1>5, <2>2 DEF octet_decode
  <2>. QED
    BY <2>1, <2>3, Returns, OctetsTyped
<1>6. CASE o.state = "discarding" /\ Len(s) < o.left
  <2>1. o.left - Len(s) \in Nat
    BY <1>2, <1>6, SMTT(30)
  <2>2. CountDown(o, s) \in Octets
    BY <2>1, OctetsTyped DEF CountDown
  <2>3. octet_decode(o, s, d) = Nothing(<<>>, CountDown(o, s), d)
    BY <1>6, SMTT(30) DEF octet_decode
  <2>. QED
    BY <2>2, <2>3, Empty, Returns
<1>7. CASE o.state = "to eol"
  <2>1. octet_decode(o, s, d) \in {Fatal(Drop(s, nl), NoOctets, d), Nothing(<<>>, o, d)}
    BY <1>7 DEF octet_decode
  <2>. QED
    BY <1>3, <1>4, <2>1
<1>8. CASE o.state = "not discarding" /\ space \in 1 .. MaxLength
  <2>1. space \in 1 .. Len(s) /\ space <= MaxLength
    <3>1. \A k \in 0 .. Len(s) : k \in 1 .. MaxLength => k \in 1 .. Len(s) /\ k <= MaxLength
      BY FramingAssumption, SMTT(30)
    <3>. QED
      BY <1>1, <1>8, <3>1
  <2>2. octet_decode(o, s, d) = CountedDecode(s, space, d)
    BY <1>8 DEF octet_decode
  <2>. QED
    BY <2>1, <2>2, CountedGood
<1>9. CASE o.state = "not discarding" /\ space \notin 1 .. MaxLength
  <2>1. octet_decode(o, s, d) \in {Fatal(Drop(s, nl), o, d), Unsynced(o, s, d)}
    BY <1>9 DEF octet_decode
  <2>2. Len(s) < MaxLength => Len(s) < 2 * MaxLength
    BY FramingAssumption, SMTT(30)
  <2>3. Good(Unsynced(o, s, d))
    BY <1>3, <2>2, Returns DEF Unsynced
  <2>. QED
    BY <1>4, <2>1, <2>3
<1>10. Len(s) >= o.left \/ Len(s) < o.left
  <2>1. Len(s) \in Nat
    BY SMTT(30)
  <2>2. \A a, b \in Nat : a >= b \/ a < b
    BY SMTT(30)
  <2>. QED
    BY <1>2, <2>1, <2>2
<1>. QED
  BY <1>2, <1>5, <1>6, <1>7, <1>8, <1>9, <1>10

LEMMA DecodeGood ==
    ASSUME TypeOK, octet \in Octets, NEW eof \in BOOLEAN
    PROVE  Good(Decode(eof))
<1>1. src \in Seq(Byte) /\ discarding \in BOOLEAN
  BY DEF TypeOK
<1>2. StartsCounted(octet, src) \in Octets
  BY OctetsTyped DEF StartsCounted
<1>. QED
  BY <1>1, <1>2, OctetGood, LineDecodeGood, LineDecodeEofGood DEF Decode

-----------------------------------------------------------------------------
(* A call of decode and the frames of the stream *)

\* The decoder has a count in hand that it may still find a frame for, or none.
Open == {NoOctets, NotDiscarding}

\* It starts a count at a digit.
Started(o, s) == o = NotDiscarding => s # <<>> /\ s[1] \in 1 .. 9

\* A call returned r for the buffer s, with t still to come: a message is the
\* first frame, an error and the end of the stream mean that there is none, and
\* otherwise the buffer is kept until there is more of it or the count is known
\* to be bad.
Right(r, s, t, eof) ==
    /\ r.kind = "message" => /\ r.octet = NoOctets /\ r.discarding = FALSE
                             /\ Frames(s \o t) = <<r.body>> \o Frames(r.src \o t)
    /\ r.kind = "fatal" => Frames(s \o t) = <<>>
    /\ r.kind = "none" => r.discarding = FALSE
    /\ r.kind = "none" /\ (eof \/ r.octet \notin Open) => Frames(s \o t) = <<>>
    /\ r.kind = "none" /\ r.octet \in Open => r.src = s /\ Started(r.octet, s)

LEMMA OpenStates ==
    /\ NoOctets # NotDiscarding /\ DiscardingToEol \notin Open
    /\ \A n : Discarding(n) \notin Open
    /\ \A o \in Open : o.state \in {"none", "not discarding"}
    /\ NotDiscarding.state = "not discarding"
<1>1. NoOctets.state = "none" /\ NotDiscarding.state = "not discarding"
  BY DEF NoOctets, NotDiscarding
<1>2. DiscardingToEol.state = "to eol" /\ \A n : Discarding(n).state = "discarding"
  BY DEF DiscardingToEol, Discarding
<1>3. /\ "none" # "not discarding" /\ "none" # "to eol" /\ "none" # "discarding"
      /\ "not discarding" # "to eol" /\ "not discarding" # "discarding"
  OBVIOUS
<1>. QED
  BY <1>1, <1>2, <1>3 DEF Open

\* The four ways to return, again.
LEMMA RightReturns ==
    ASSUME NEW s, NEW t, NEW eof, NEW b, NEW u, NEW o
    PROVE  /\ Frames(s \o t) = <<b>> \o Frames(u \o t) =>
                Right(Frame(b, u, NoOctets, FALSE), s, t, eof)
           /\ \A d : Right(Skipped(u, o, d), s, t, eof)
           /\ Frames(s \o t) = <<>> => \A d : Right(Fatal(u, o, d), s, t, eof)
           /\ Frames(s \o t) = <<>> /\ o \notin Open => Right(Nothing(u, o, FALSE), s, t, eof)
           /\ (eof => Frames(s \o t) = <<>>) /\ o \in Open /\ Started(o, s) =>
                Right(Nothing(s, o, FALSE), s, t, eof)
<1>1. /\ "none" # "message" /\ "none" # "fatal" /\ "none" # "skipped"
      /\ "message" # "fatal" /\ "message" # "skipped" /\ "fatal" # "skipped"
  OBVIOUS
<1>2. \A d : /\ Skipped(u, o, d).kind = "skipped" /\ Fatal(u, o, d).kind = "fatal"
  BY DEF Skipped, Fatal
<1>3. /\ Frame(b, u, NoOctets, FALSE).kind = "message" /\ Frame(b, u, NoOctets, FALSE).body = b
      /\ Frame(b, u, NoOctets, FALSE).src = u /\ Frame(b, u, NoOctets, FALSE).octet = NoOctets
      /\ Frame(b, u, NoOctets, FALSE).discarding = FALSE
  BY DEF Frame
<1>4. \A v : /\ Nothing(v, o, FALSE).kind = "none" /\ Nothing(v, o, FALSE).src = v
             /\ Nothing(v, o, FALSE).octet = o /\ Nothing(v, o, FALSE).discarding = FALSE
  BY DEF Nothing
<1>5. Frames(s \o t) = <<b>> \o Frames(u \o t) => Right(Frame(b, u, NoOctets, FALSE), s, t, eof)
  BY <1>1, <1>3 DEF Right
<1>6. \A d : Right(Skipped(u, o, d), s, t, eof)
  BY <1>1, <1>2 DEF Right
<1>7. Frames(s \o t) = <<>> => \A d : Right(Fatal(u, o, d), s, t, eof)
  BY <1>1, <1>2 DEF Right
<1>8. Frames(s \o t) = <<>> /\ o \notin Open => Right(Nothing(u, o, FALSE), s, t, eof)
  BY <1>1, <1>4 DEF Right
<1>9. (eof => Frames(s \o t) = <<>>) /\ o \in Open /\ Started(o, s) =>
         Right(Nothing(s, o, FALSE), s, t, eof)
  BY <1>1, <1>4 DEF Right
<1>. QED
  BY <1>5, <1>6, <1>7, <1>8, <1>9

\* What NextLine does, case by case.
LEMMA NextLineCases ==
    ASSUME NEW s \in Seq(Byte)
    PROVE  LET nl == Position(s, Newline) IN
           \/ /\ nl \in 1 .. MaxLength + 1
              /\ NextLine(s) = LineFrame(First(s, nl - 1), Drop(s, nl))
           \/ NextLine(s) = Skipped(s, NoOctets, TRUE)
           \/ /\ nl = 0 /\ Len(s) <= MaxLength
              /\ NextLine(s) = Nothing(s, NoOctets, FALSE)
<1>. DEFINE nl == Position(s, Newline)
<1>1. nl \in 0 .. Len(s)
  BY Found
<1>2. CASE nl \in 1 .. MaxLength + 1
  BY <1>2 DEF NextLine
<1>3. CASE nl \notin 1 .. MaxLength + 1 /\ Len(s) > MaxLength
  BY <1>3 DEF NextLine
<1>4. CASE nl \notin 1 .. MaxLength + 1 /\ ~(Len(s) > MaxLength)
  <2>1. NextLine(s) = Nothing(s, NoOctets, FALSE)
    BY <1>4 DEF NextLine
  <2>2. nl = 0 /\ Len(s) <= MaxLength
    <3>. HIDE DEF nl
    <3>. QED
      BY <1>1, <1>4, FramingAssumption, SMTT(30)
  <2>. QED
    BY <2>1, <2>2
<1>. QED
  BY <1>2, <1>3, <1>4

LEMMA LineRight ==
    ASSUME NEW s \in Seq(Byte), NEW t \in Seq(Byte), s = <<>> \/ s[1] \notin 1 .. 9
    PROVE  Right(LineDecode(s, FALSE), s, t, FALSE)
<1>1. PICK nl \in 0 .. Len(s) : nl = Position(s, Newline)
  BY Found
<1>2. LineDecode(s, FALSE) = NextLine(s)
  BY DEF LineDecode
<1>3. CASE nl \in 1 .. MaxLength + 1 /\ NextLine(s) = LineFrame(First(s, nl - 1), Drop(s, nl))
  <2>1. PICK line : line = First(s, nl - 1)
    OBVIOUS
  <2>2. s # <<>>
    BY <1>1, <1>3, SMTT(30)
  <2>3. /\ Utf8(line) => Frames(s \o t) = <<WithoutReturn(line)>> \o Frames(Drop(s, nl) \o t)
        /\ ~Utf8(line) => Frames(s \o t) = <<>>
    <3>1. Position(s, Newline) \in 1 .. MaxLength + 1 /\ s[1] \notin 1 .. 9
      BY <1>1, <1>3, <2>2
    <3>. QED
      BY <1>1, <2>1, <2>2, <3>1, LineFrames
  <2>4. CASE Utf8(line)
    <3>1. NextLine(s) = Frame(WithoutReturn(line), Drop(s, nl), NoOctets, FALSE)
      BY <1>3, <2>1, <2>4 DEF LineFrame
    <3>2. Frames(s \o t) = <<WithoutReturn(line)>> \o Frames(Drop(s, nl) \o t)
      BY <2>3, <2>4
    <3>3. Right(Frame(WithoutReturn(line), Drop(s, nl), NoOctets, FALSE), s, t, FALSE)
      BY <3>2, RightReturns
    <3>. QED
      BY <1>2, <3>1, <3>3
  <2>5. CASE ~Utf8(line)
    <3>1. NextLine(s) = Fatal(Drop(s, nl), NoOctets, FALSE)
      BY <1>3, <2>1, <2>5 DEF LineFrame
    <3>2. Right(Fatal(Drop(s, nl), NoOctets, FALSE), s, t, FALSE)
      BY <2>3, <2>5, RightReturns
    <3>. QED
      BY <1>2, <3>1, <3>2
  <2>. QED
    BY <2>4, <2>5
<1>4. CASE NextLine(s) = Skipped(s, NoOctets, TRUE)
  BY <1>2, <1>4, RightReturns
<1>5. CASE NextLine(s) = Nothing(s, NoOctets, FALSE)
  <2>1. NoOctets \in Open /\ Started(NoOctets, s)
    BY OpenStates DEF Open, Started
  <2>2. Right(Nothing(s, NoOctets, FALSE), s, t, FALSE)
    BY <2>1, RightReturns
  <2>. QED
    BY <1>2, <1>5, <2>2
<1>. QED
  BY <1>1, <1>3, <1>4, <1>5, NextLineCases

LEMMA LineEofRight ==
    ASSUME NEW s \in Seq(Byte), s = <<>> \/ s[1] \notin 1 .. 9
    PROVE  Right(LineDecodeEof(s, FALSE), s, <<>>, TRUE)
<1>. DEFINE r == LineDecode(s, FALSE)
<1>1. <<>> \in Seq(Byte) /\ <<>> \o <<>> = <<>> /\ s \o <<>> = s
  BY ConcatEmptySeq, SMTT(30)
<1>2. r = NextLine(s)
  BY DEF LineDecode
<1>3. Right(r, s, <<>>, FALSE)
  BY <1>1, LineRight
<1>. HIDE DEF r
<1>4. CASE r.kind # "none"
  <2>1. LineDecodeEof(s, FALSE) = r
    BY <1>4 DEF LineDecodeEof, r
  <2>2. Right(r, s, <<>>, TRUE)
    BY <1>3, <1>4 DEF Right
  <2>. QED
    BY <2>1, <2>2
<1>5. CASE r.kind = "none"
  <2>1. r = Nothing(s, NoOctets, FALSE) /\ Position(s, Newline) = 0 /\ Len(s) <= MaxLength
    <3>1. LineFrame(First(s, Position(s, Newline) - 1), Drop(s, Position(s, Newline))).kind # "none"
      BY DEF LineFrame, Frame, Fatal
    <3>2. Skipped(s, NoOctets, TRUE).kind # "none"
      BY DEF Skipped
    <3>. QED
      <4>1. PICK nl : nl = Position(s, Newline)
        OBVIOUS
      <4>2. \/ r = LineFrame(First(s, nl - 1), Drop(s, nl))
            \/ r = Skipped(s, NoOctets, TRUE)
            \/ nl = 0 /\ Len(s) <= MaxLength /\ r = Nothing(s, NoOctets, FALSE)
        BY <1>2, <4>1, NextLineCases
      <4>. QED
        BY <1>5, <3>1, <3>2, <4>1, <4>2
  <2>2. r.src = s /\ r.discarding = FALSE
    BY <2>1 DEF Nothing
  <2>3. NoOctets \in Open /\ Started(NoOctets, s)
    BY OpenStates DEF Open, Started
  <2>4. CASE s \in {<<>>, <<Return>>}
    <3>1. LineDecodeEof(s, FALSE) = r
      BY <2>2, <2>4 DEF LineDecodeEof, r
    <3>2. Frames(s) = <<>>
      <4>1. CASE s = <<>>
        BY <4>1, FramesTyped
      <4>2. CASE s # <<>>
        BY <2>1, <2>4, <4>2, LastLine
      <4>. QED
        BY <4>1, <4>2
    <3>3. Frames(s \o <<>>) = <<>>
      BY <1>1, <3>2
    <3>4. Right(Nothing(s, NoOctets, FALSE), s, <<>>, TRUE)
      BY <2>3, <3>3, RightReturns
    <3>. QED
      BY <2>1, <3>1, <3>4
  <2>5. CASE s \notin {<<>>, <<Return>>}
    <3>1. LineDecodeEof(s, FALSE) = [LineFrame(s, <<>>) EXCEPT !.discarding = FALSE]
      BY <1>5, <2>2, <2>5 DEF LineDecodeEof, r
    <3>2. LineDecodeEof(s, FALSE) = LineFrame(s, <<>>)
      <4>1. [LineFrame(s, <<>>) EXCEPT !.discarding = FALSE] = LineFrame(s, <<>>)
        <5>. DEFINE Reset(x, d) == [x EXCEPT !.discarding = d]
        <5>1. ASSUME NEW b, NEW u, NEW o, NEW d
              PROVE  /\ Reset(Frame(b, u, o, d), d) = Frame(b, u, o, d)
                     /\ Reset(Fatal(u, o, d), d) = Fatal(u, o, d)
          BY SMTT(30) DEF Frame, Fatal
        <5>. HIDE DEF Reset
        <5>2. ASSUME Utf8(s) PROVE Reset(LineFrame(s, <<>>), FALSE) = LineFrame(s, <<>>)
          <6>1. LineFrame(s, <<>>) = Frame(WithoutReturn(s), <<>>, NoOctets, FALSE)
            BY <5>2 DEF LineFrame
          <6>2. PICK b : b = WithoutReturn(s)
            OBVIOUS
          <6>3. Reset(Frame(b, <<>>, NoOctets, FALSE), FALSE) = Frame(b, <<>>, NoOctets, FALSE)
            BY <5>1
          <6>. QED
            BY <6>1, <6>2, <6>3
        <5>3. ASSUME ~Utf8(s) PROVE Reset(LineFrame(s, <<>>), FALSE) = LineFrame(s, <<>>)
          <6>1. LineFrame(s, <<>>) = Fatal(<<>>, NoOctets, FALSE)
            BY <5>3 DEF LineFrame
          <6>. QED
            BY <5>1, <6>1
        <5>4. Reset(LineFrame(s, <<>>), FALSE) = LineFrame(s, <<>>)
          BY <5>2, <5>3
        <5>. QED
          BY <5>4 DEF Reset
      <4>. QED
        BY <3>1, <4>1
    <3>3. CASE Utf8(s)
      <4>1. LineFrame(s, <<>>) = Frame(WithoutReturn(s), <<>>, NoOctets, FALSE)
        BY <3>3 DEF LineFrame
      <4>2. Frames(s) = <<WithoutReturn(s)>> \o Frames(<<>>)
        BY <2>1, <2>5, <3>3, LastLine
      <4>3. Frames(s \o <<>>) = <<WithoutReturn(s)>> \o Frames(<<>> \o <<>>)
        BY <1>1, <4>2
      <4>4. Right(Frame(WithoutReturn(s), <<>>, NoOctets, FALSE), s, <<>>, TRUE)
        BY <4>3, RightReturns
      <4>. QED
        BY <3>2, <4>1, <4>4
    <3>4. CASE ~Utf8(s)
      <4>1. LineFrame(s, <<>>) = Fatal(<<>>, NoOctets, FALSE)
        BY <3>4 DEF LineFrame
      <4>2. Frames(s) = <<>>
        BY <2>1, <2>5, <3>4, LastLine
      <4>3. Frames(s \o <<>>) = <<>>
        BY <1>1, <4>2
      <4>4. Right(Fatal(<<>>, NoOctets, FALSE), s, <<>>, TRUE)
        BY <4>3, RightReturns
      <4>. QED
        BY <3>2, <4>1, <4>4
    <3>. QED
      BY <3>3, <3>4
  <2>. QED
    BY <2>4, <2>5
<1>. QED
  BY <1>4, <1>5

LEMMA CountedRight ==
    ASSUME NEW s \in Seq(Byte), s # <<>>, s[1] \in 1 .. 9, NEW t \in Seq(Byte),
           NEW eof \in BOOLEAN, eof => t = <<>>, Position(s, Space) \in 1 .. MaxLength
    PROVE  Right(CountedDecode(s, Position(s, Space), FALSE), s, t, eof)
<1>1. PICK space, digits, len : /\ space = Position(s, Space) /\ space \in 1 .. MaxLength
                                /\ digits = First(s, space - 1) /\ len = Number(digits)
  OBVIOUS
<1>2. /\ len \in Nat /\ space \in 1 .. Len(s)
      /\ ~IsNumber(digits) \/ len > MaxLength => Frames(s \o t) = <<>>
      /\ IsNumber(digits) /\ ~(len > MaxLength) /\ space + len <= Len(s) =>
           LET body == SubSeq(s, space + 1, space + len) IN
           /\ Utf8(body) => Frames(s \o t) = <<body>> \o Frames(Drop(s, space + len) \o t)
           /\ ~Utf8(body) => Frames(s \o t) = <<>>
      /\ IsNumber(digits) /\ ~(len > MaxLength) /\ Len(s) + Len(t) < space + len =>
           Frames(s \o t) = <<>>
  BY <1>1, CountedFrames
<1>. DEFINE to == (space + len) % UsizeModulus
            body == SubSeq(s, space + 1, to)
<1>3. CountedDecode(s, space, FALSE) =
         IF ~IsNumber(digits) \/ len >= UsizeModulus THEN Fatal(Drop(s, space), NoOctets, FALSE)
         ELSE IF len > MaxLength THEN Nothing(Drop(s, space), Discarding(len), FALSE)
         ELSE IF to < space \/ Len(s) < to THEN Nothing(s, NotDiscarding, FALSE)
         ELSE IF Utf8(body) THEN Frame(body, Drop(s, to), NoOctets, FALSE)
         ELSE Fatal(Drop(s, to), NoOctets, FALSE)
  BY <1>1 DEF CountedDecode
<1>4. CASE ~IsNumber(digits) \/ len >= UsizeModulus
  <2>1. ~IsNumber(digits) \/ len > MaxLength
    BY <1>2, <1>4, FramingAssumption, SMTT(30)
  <2>2. Right(Fatal(Drop(s, space), NoOctets, FALSE), s, t, eof)
    BY <1>2, <2>1, RightReturns
  <2>. QED
    BY <1>1, <1>3, <1>4, <2>2
<1>5. CASE ~(~IsNumber(digits) \/ len >= UsizeModulus) /\ len > MaxLength
  <2>1. Right(Nothing(Drop(s, space), Discarding(len), FALSE), s, t, eof)
    BY <1>2, <1>5, OpenStates, RightReturns
  <2>. QED
    BY <1>1, <1>3, <1>5, <2>1
<1>6. CASE ~(~IsNumber(digits) \/ len >= UsizeModulus) /\ ~(len > MaxLength)
  <2>1. to = space + len /\ ~(to < space) /\ to \in Nat
    <3>1. len \in Nat /\ space \in 1 .. Len(s) /\ space \in 1 .. MaxLength /\ ~(len > MaxLength)
      BY <1>1, <1>2, <1>6
    <3>. QED
      BY <3>1, FramingAssumption, SMTT(30)
  <2>. HIDE DEF to
  <2>2. CASE Len(s) < to
    <3>1. eof => Len(s) + Len(t) < space + len
      <4>1. Len(<<>>) = 0 /\ Len(s) + 0 = Len(s)
        BY SMTT(30)
      <4>. QED
        BY <2>1, <2>2, <4>1
    <3>2. eof => Frames(s \o t) = <<>>
      BY <1>2, <1>6, <3>1
    <3>3. NotDiscarding \in Open /\ Started(NotDiscarding, s)
      BY DEF Open, Started
    <3>4. Right(Nothing(s, NotDiscarding, FALSE), s, t, eof)
      BY <3>2, <3>3, RightReturns
    <3>. QED
      BY <1>1, <1>3, <1>6, <2>2, <3>4
  <2>3. CASE ~(Len(s) < to)
    <3>1. space + len <= Len(s)
      BY <1>2, <2>1, <2>3, SMTT(30)
    <3>2. /\ Utf8(body) => Frames(s \o t) = <<body>> \o Frames(Drop(s, to) \o t)
          /\ ~Utf8(body) => Frames(s \o t) = <<>>
      BY <1>2, <1>6, <2>1, <3>1
    <3>. HIDE DEF body
    <3>3. CASE Utf8(body)
      <4>1. Right(Frame(body, Drop(s, to), NoOctets, FALSE), s, t, eof)
        BY <3>2, <3>3, RightReturns
      <4>. QED
        BY <1>1, <1>3, <1>6, <2>1, <2>3, <3>3, <4>1
    <3>4. CASE ~Utf8(body)
      <4>1. Right(Fatal(Drop(s, to), NoOctets, FALSE), s, t, eof)
        BY <3>2, <3>4, RightReturns
      <4>. QED
        BY <1>1, <1>3, <1>6, <2>1, <2>3, <3>4, <4>1
    <3>. QED
      BY <3>3, <3>4
  <2>. QED
    BY <2>2, <2>3
<1>. QED
  BY <1>4, <1>5, <1>6

LEMMA OctetRight ==
    ASSUME NEW s \in Seq(Byte), s # <<>>, s[1] \in 1 .. 9, NEW t \in Seq(Byte),
           NEW eof \in BOOLEAN, eof => t = <<>>
    PROVE  Right(octet_decode(NotDiscarding, s, FALSE), s, t, eof)
<1>. DEFINE space == Position(s, Space)
            nl == Position(s, Newline)
            r == octet_decode(NotDiscarding, s, FALSE)
<1>1. /\ NotDiscarding.state = "not discarding" /\ NotDiscarding.state # "discarding"
      /\ NotDiscarding.state # "to eol"
  BY DEF NotDiscarding
<1>2. CASE space \in 1 .. MaxLength
  <2>1. r = CountedDecode(s, space, FALSE)
    BY <1>1, <1>2 DEF octet_decode
  <2>. QED
    BY <1>2, <2>1, CountedRight
<1>3. CASE space \notin 1 .. MaxLength /\ nl # 0
  <2>1. r = Fatal(Drop(s, nl), NotDiscarding, FALSE)
    BY <1>1, <1>3 DEF octet_decode
  <2>2. Frames(s \o t) = <<>>
    BY <1>3, UncountedFrames
  <2>. QED
    BY <2>1, <2>2, RightReturns
<1>4. CASE space \notin 1 .. MaxLength /\ nl = 0
  <2>1. r = Unsynced(NotDiscarding, s, FALSE)
    BY <1>1, <1>4 DEF octet_decode
  <2>2. CASE Len(s) < MaxLength
    <3>1. r = Nothing(s, NotDiscarding, FALSE)
      BY <2>1, <2>2 DEF Unsynced
    <3>2. eof => Frames(s \o t) = <<>>
      BY <1>4, UncountedFrames
    <3>3. NotDiscarding \in Open /\ Started(NotDiscarding, s)
      BY DEF Open, Started
    <3>. QED
      BY <3>1, <3>2, <3>3, RightReturns
  <2>3. CASE ~(Len(s) < MaxLength)
    <3>1. r = Nothing(<<>>, DiscardingToEol, FALSE)
      BY <2>1, <2>3 DEF Unsynced
    <3>2. Len(s) >= MaxLength
      BY <2>3, FramingAssumption, SMTT(30)
    <3>3. Frames(s \o t) = <<>>
      BY <1>4, <3>2, UncountedFrames
    <3>. QED
      BY <3>1, <3>3, OpenStates, RightReturns
  <2>. QED
    BY <2>2, <2>3
<1>. QED
  BY <1>2, <1>3, <1>4

LEMMA DecodeRight ==
    ASSUME TypeOK, octet \in Open, Started(octet, src), discarding = FALSE,
           NEW eof \in BOOLEAN, eof => rest = <<>>
    PROVE  Right(Decode(eof), src, rest, eof)
<1>. DEFINE o == StartsCounted(octet, src)
<1>1. src \in Seq(Byte) /\ rest \in Seq(Byte)
  BY DEF TypeOK
<1>2. CASE src # <<>> /\ src[1] \in 1 .. 9
  <2>1. o = NotDiscarding
    BY <1>2 DEF StartsCounted, Open
  <2>2. Decode(eof) = octet_decode(NotDiscarding, src, FALSE)
    BY <2>1, OpenStates DEF Decode
  <2>. QED
    BY <1>1, <1>2, <2>2, OctetRight
<1>3. CASE ~(src # <<>> /\ src[1] \in 1 .. 9)
  <2>1. o = NoOctets
    BY <1>3 DEF StartsCounted, Open, Started
  <2>2. Decode(eof) = IF eof THEN LineDecodeEof(src, FALSE) ELSE LineDecode(src, FALSE)
    BY <2>1 DEF Decode
  <2>3. CASE eof
    <3>1. Right(LineDecodeEof(src, FALSE), src, <<>>, TRUE)
      BY <1>1, <1>3, LineEofRight
    <3>. QED
      BY <2>2, <2>3, <3>1
  <2>4. CASE ~eof
    <3>1. Right(LineDecode(src, FALSE), src, rest, FALSE)
      BY <1>1, <1>3, LineRight
    <3>. QED
      BY <2>2, <2>4, <3>1
  <2>. QED
    BY <2>3, <2>4
<1>. QED
  BY <1>2, <1>3

\* A call that drops what a bad count announced finds no frame.
Drops(r) ==
    /\ r.kind \in {"none", "fatal"}
    /\ r.kind = "none" => r.octet \notin Open /\ r.discarding = FALSE

LEMMA DropsFrames ==
    ASSUME TypeOK, octet \in Octets, octet \notin Open, discarding = FALSE, NEW eof \in BOOLEAN
    PROVE  Drops(Decode(eof))
<1>. DEFINE nl == Position(src, Newline)
            r == Decode(eof)
<1>1. octet # NoOctets /\ StartsCounted(octet, src) = octet
  BY DEF Open, StartsCounted
<1>2. r = octet_decode(octet, src, FALSE)
  BY <1>1 DEF Decode
<1>3. ASSUME NEW u, NEW o PROVE Drops(Fatal(u, o, FALSE))
  BY DEF Fatal, Drops
<1>4. ASSUME NEW u, NEW o, o \notin Open PROVE Drops(Nothing(u, o, FALSE))
  <2>1. /\ Nothing(u, o, FALSE).kind = "none" /\ Nothing(u, o, FALSE).octet = o
        /\ Nothing(u, o, FALSE).discarding = FALSE
    BY DEF Nothing
  <2>. QED
    BY <1>4, <2>1 DEF Drops
<1>5. "discarding" # "to eol" /\ "discarding" # "not discarding" /\ "to eol" # "not discarding"
  OBVIOUS
<1>6. CASE octet = DiscardingToEol
  <2>1. octet.state = "to eol"
    BY <1>6 DEF DiscardingToEol
  <2>2. \/ r = Fatal(Drop(src, nl), NoOctets, FALSE)
        \/ r = Nothing(<<>>, octet, FALSE)
    BY <1>2, <1>5, <2>1 DEF octet_decode
  <2>. QED
    BY <1>3, <1>4, <2>2
<1>7. CASE \E n \in Nat : octet = Discarding(n)
  <2>1. octet.state = "discarding" /\ octet.left \in Nat
    BY <1>7, SMTT(30) DEF Discarding
  <2>2. Len(src) \in Nat
    <3>1. src \in Seq(Byte)
      BY DEF TypeOK
    <3>. QED
      BY <3>1, SMTT(30)
  <2>3. /\ Len(src) >= octet.left \/ Len(src) < octet.left
        /\ ~(Len(src) >= octet.left /\ Len(src) < octet.left)
    <3>1. \A a, b \in Nat : (a >= b \/ a < b) /\ ~(a >= b /\ a < b)
      BY SMTT(30)
    <3>. QED
      BY <2>1, <2>2, <3>1
  <2>4. \/ r = Fatal(Drop(src, octet.left), NoOctets, FALSE)
        \/ r = Nothing(<<>>, CountDown(octet, src), FALSE)
    BY <1>2, <1>5, <2>1, <2>3 DEF octet_decode
  <2>5. CountDown(octet, src) \notin Open
    BY OpenStates DEF CountDown
  <2>. QED
    BY <1>3, <1>4, <2>4, <2>5
<1>. QED
  BY <1>6, <1>7 DEF Octets, Open

-----------------------------------------------------------------------------
(* The decode loop *)

\* The count in hand is one of the states of the count.
IInv == TypeOK /\ octet \in Octets /\ BufferBound

LEMMA InitIInv == Init => IInv
<1>. SUFFICES ASSUME Init PROVE IInv
  OBVIOUS
<1>1. input \in Seq(Byte)
  BY FramingAssumption DEF Init, Byte
<1>2. octet \in Octets /\ octet.state = "none" /\ octet.left \in Nat
  BY OctetsTyped DEF Init, NoOctets
<1>3. Len(src) < 2 * MaxLength
  BY Empty DEF Init
<1>4. src \in Seq(Byte) /\ out \in Seq(Seq(Byte))
  BY SMTT(30) DEF Init
<1>. QED
  BY <1>1, <1>2, <1>3, <1>4 DEF Init, IInv, TypeOK, BufferBound

LEMMA ReadIInv == IInv /\ Read => IInv'
<1>. SUFFICES ASSUME IInv, Read PROVE IInv'
  OBVIOUS
<1>1. PICK n \in 1 .. Len(rest) : src' = src \o First(rest, n) /\ rest' = Drop(rest, n)
  BY DEF Read
<1>2. src \in Seq(Byte) /\ rest \in Seq(Byte)
  BY DEF IInv, TypeOK
<1>3. n \in 0 .. Len(rest)
  BY <1>1, <1>2, SMTT(30)
<1>4. First(rest, n) \in Seq(Byte) /\ Drop(rest, n) \in Seq(Byte)
  BY <1>2, <1>3, Cut
<1>5. src' \in Seq(Byte) /\ rest' \in Seq(Byte)
  BY <1>1, <1>2, <1>4, SMTT(30)
<1>. QED
  BY <1>5 DEF Read, IInv, TypeOK, BufferBound

LEMMA DecodeIInv == IInv /\ DecodeFrame => IInv'
<1>. SUFFICES ASSUME IInv, DecodeFrame PROVE IInv'
  OBVIOUS
<1>. DEFINE r == Decode(mode = "eof")
<1>1. Good(r)
  BY DecodeGood DEF IInv
<1>2. /\ src' = r.src /\ octet' = r.octet /\ discarding' = r.discarding
      /\ out' = IF r.kind = "message" THEN Append(out, r.body) ELSE out
      /\ overlong' = (overlong \/ r.kind = "skipped")
      /\ mode' = CASE r.kind = "fatal" -> "closed"
                   [] r.kind = "none" -> IF mode = "eof" THEN "closed" ELSE "reading"
                   [] OTHER -> mode
      /\ mode \in {"decoding", "eof"}
      /\ UNCHANGED <<input, rest>>
  BY DEF DecodeFrame
<1>. HIDE DEF r
<1>3. /\ r.kind \in {"none", "message", "skipped", "fatal"}
      /\ r.body \in Seq(Byte) /\ r.src \in Seq(Byte)
      /\ r.octet \in Octets /\ r.discarding \in BOOLEAN
      /\ r.kind = "none" => Bounded(r)
  BY <1>1 DEF Good, Results
<1>4. src' \in Seq(Byte) /\ octet' \in Octets /\ discarding' \in BOOLEAN
  BY <1>2, <1>3
<1>5. /\ octet'.state \in {"none", "not discarding", "discarding", "to eol"}
      /\ octet'.left \in Nat
  BY <1>4, OctetsTyped
<1>6. out' \in Seq(Seq(Byte))
  <2>1. out \in Seq(Seq(Byte))
    BY DEF IInv, TypeOK
  <2>2. Append(out, r.body) \in Seq(Seq(Byte))
    BY <1>3, <2>1, SMTT(30)
  <2>. QED
    BY <1>2, <2>1, <2>2
<1>7. overlong' \in BOOLEAN
  BY <1>2
<1>8. mode' \in {"reading", "decoding", "eof", "closed"} /\ (mode' = "reading" => r.kind = "none")
  BY <1>2, <1>3
<1>9. BufferBound'
  BY <1>2, <1>3, <1>8 DEF BufferBound, Bounded
<1>10. input' \in Seq(Byte) /\ rest' \in Seq(Byte)
  BY <1>2 DEF IInv, TypeOK
<1>. QED
  BY <1>4, <1>5, <1>6, <1>7, <1>8, <1>9, <1>10 DEF IInv, TypeOK

LEMMA Invariant == Spec => []IInv
<1>1. IInv /\ [Next]_vars => IInv'
  <2>. SUFFICES ASSUME IInv, [Next]_vars PROVE IInv'
    OBVIOUS
  <2>1. CASE EndOfStream
    BY <2>1 DEF EndOfStream, IInv, TypeOK, BufferBound
  <2>2. CASE UNCHANGED vars
    BY <2>2 DEF vars, IInv, TypeOK, BufferBound
  <2>. QED
    BY <2>1, <2>2, ReadIInv, DecodeIInv DEF Next
<1>. QED
  BY InitIInv, <1>1, PTL DEF Spec

\* The buffer, the count and the messages keep their types; in particular the
\* count of a discarded body never goes below zero (framing.rs:146-150).
THEOREM TypeCorrect == Spec => []TypeOK
BY Invariant, PTL DEF IInv

\* Unfinished frames do not make the buffer grow, whatever is sent and however
\* it is cut into reads.
THEOREM BufferBounded == Spec => []BufferBound
BY Invariant, PTL DEF IInv

-----------------------------------------------------------------------------
(* The messages and the frames of the stream *)

Undecided == mode # "closed" /\ octet \in Open

\* As long as no line was over the limit, the messages so far and the frames of
\* what is left are the frames of the stream; once a count is known to be bad, the
\* messages so far are.
AsDefined ==
    ~overlong =>
        /\ mode # "closed" => discarding = FALSE
        /\ mode = "eof" => rest = <<>>
        /\ Undecided => out \o Frames(src \o rest) = Frames(input) /\ Started(octet, src)
        /\ ~Undecided => out = Frames(input)

LEMMA AsDefinedInit == Init => AsDefined
<1>. SUFFICES ASSUME Init PROVE AsDefined
  OBVIOUS
<1>1. input \in Seq(Byte)
  BY InitIInv DEF IInv, TypeOK
<1>2. Frames(input) \in Seq(Seq(Byte))
  BY <1>1, FramesTyped
<1>3. <<>> \o input = input
  BY <1>1, ConcatEmptySeq
<1>4. <<>> \o Frames(input) = Frames(input)
  BY <1>2, ConcatEmptySeq
<1>5. out \o Frames(src \o rest) = Frames(input)
  BY <1>3, <1>4 DEF Init
<1>6. mode # "closed" /\ mode # "eof" /\ octet = NoOctets /\ discarding = FALSE
  BY DEF Init
<1>7. Started(octet, src) /\ Undecided
  BY <1>6, OpenStates DEF Started, Undecided, Open
<1>. QED
  BY <1>5, <1>6, <1>7 DEF AsDefined

LEMMA AsDefinedRead == IInv /\ AsDefined /\ Read => AsDefined'
<1>. SUFFICES ASSUME IInv, AsDefined, Read PROVE AsDefined'
  OBVIOUS
<1>1. src \in Seq(Byte) /\ rest \in Seq(Byte)
  BY DEF IInv, TypeOK
<1>2. PICK n \in 1 .. Len(rest) : src' = src \o First(rest, n) /\ rest' = Drop(rest, n)
  BY DEF Read
<1>3. n \in 0 .. Len(rest)
  BY <1>1, SMTT(30)
<1>4. PICK f \in Seq(Byte), d \in Seq(Byte) : f = First(rest, n) /\ d = Drop(rest, n)
  BY <1>1, <1>3, Cut
<1>5. f \o d = rest
  <2>1. /\ 1 \in 1 .. Len(rest) + 1 /\ n \in (1 - 1) .. Len(rest) /\ Len(rest) \in n .. Len(rest)
    BY <1>1, <1>3, SMTT(30)
  <2>2. SubSeq(rest, 1, n) \o SubSeq(rest, n + 1, Len(rest)) = SubSeq(rest, 1, Len(rest))
    BY <1>1, <2>1, ConcatAdjacentSubSeq
  <2>3. SubSeq(rest, 1, Len(rest)) = rest
    BY <1>1, SubSeqFull
  <2>. QED
    BY <1>4, <2>2, <2>3 DEF First, Drop
<1>6. src' \o rest' = src \o rest
  <2>1. Regroups(src, f, d)
    BY <1>1, Regroup
  <2>. QED
    BY <1>2, <1>4, <1>5, <2>1 DEF Regroups
<1>7. Started(octet, src) => Started(octet, src')
  <2>1. src # <<>> => src \o f # <<>> /\ (src \o f)[1] = src[1]
    BY <1>1, Whole
  <2>. QED
    BY <1>2, <1>4, <2>1 DEF Started
<1>8. /\ mode = "reading" /\ mode' = "decoding"
      /\ UNCHANGED <<input, octet, discarding, out, overlong>>
  BY DEF Read
<1>9. "decoding" # "eof" /\ "decoding" # "closed" /\ "reading" # "closed"
  OBVIOUS
<1>10. Undecided' <=> Undecided
  BY <1>8, <1>9 DEF Undecided
<1>. QED
  BY <1>6, <1>7, <1>8, <1>9, <1>10 DEF AsDefined

LEMMA AsDefinedEnd == AsDefined /\ EndOfStream => AsDefined'
<1>. SUFFICES ASSUME AsDefined, EndOfStream PROVE AsDefined'
  OBVIOUS
<1>1. /\ mode = "reading" /\ mode' = "eof" /\ rest = <<>>
      /\ UNCHANGED <<input, rest, src, octet, discarding, out, overlong>>
  BY DEF EndOfStream
<1>2. "eof" # "closed" /\ "reading" # "closed"
  OBVIOUS
<1>3. Undecided' <=> Undecided
  BY <1>1, <1>2 DEF Undecided
<1>. QED
  BY <1>1, <1>3 DEF AsDefined

\* What a step of the decode loop does with the result of decode.
LEMMA DecodeFrameSteps ==
    ASSUME DecodeFrame
    PROVE  LET r == Decode(mode = "eof") IN
           /\ mode \in {"decoding", "eof"} /\ input' = input /\ rest' = rest
           /\ src' = r.src /\ octet' = r.octet /\ discarding' = r.discarding
           /\ r.kind = "message" => out' = Append(out, r.body) /\ mode' = mode
           /\ r.kind # "message" => out' = out
           /\ overlong' = (overlong \/ r.kind = "skipped")
           /\ r.kind = "fatal" => mode' = "closed"
           /\ r.kind = "none" => mode' = IF mode = "eof" THEN "closed" ELSE "reading"
<1>1. "message" # "fatal" /\ "message" # "none" /\ "none" # "fatal"
  OBVIOUS
<1>. QED
  BY <1>1 DEF DecodeFrame

LEMMA AsDefinedDecode == IInv /\ AsDefined /\ DecodeFrame => AsDefined'
<1>. SUFFICES ASSUME IInv, AsDefined, DecodeFrame, ~overlong' PROVE AsDefined'
  BY DEF AsDefined
<1>. DEFINE eof == mode = "eof"
            r == Decode(eof)
<1>1. /\ mode \in {"decoding", "eof"} /\ input' = input /\ rest' = rest
      /\ src' = r.src /\ octet' = r.octet /\ discarding' = r.discarding
      /\ r.kind = "message" => out' = Append(out, r.body) /\ mode' = mode
      /\ r.kind # "message" => out' = out
      /\ overlong' = (overlong \/ r.kind = "skipped")
      /\ r.kind = "fatal" => mode' = "closed"
      /\ r.kind = "none" => mode' = IF mode = "eof" THEN "closed" ELSE "reading"
  BY DecodeFrameSteps
<1>2. ~overlong /\ r.kind # "skipped"
  BY <1>1
<1>3. /\ TypeOK /\ octet \in Octets /\ out \in Seq(Seq(Byte))
      /\ src \in Seq(Byte) /\ rest \in Seq(Byte)
  BY DEF IInv, TypeOK
<1>7. /\ "decoding" # "closed" /\ "eof" # "closed" /\ "reading" # "closed" /\ "closed" # "eof"
      /\ "reading" # "eof" /\ "message" # "none" /\ "message" # "fatal" /\ "none" # "fatal"
  OBVIOUS
<1>4. /\ discarding = FALSE /\ (eof => rest = <<>>)
      /\ Undecided => out \o Frames(src \o rest) = Frames(input) /\ Started(octet, src)
      /\ ~Undecided => out = Frames(input)
  BY <1>1, <1>2, <1>7 DEF AsDefined
<1>5. Good(r)
  BY <1>3, DecodeGood
<1>6. /\ r.kind \in {"none", "message", "skipped", "fatal"}
      /\ r.body \in Seq(Byte) /\ r.src \in Seq(Byte)
  BY <1>5 DEF Good, Results
<1>8. CASE octet \in Open
  <2>1. Undecided
    BY <1>1, <1>7, <1>8 DEF Undecided
  <2>2. out \o Frames(src \o rest) = Frames(input)
    BY <1>4, <2>1
  <2>3. Right(r, src, rest, eof)
    BY <1>3, <1>4, <1>8, <2>1, DecodeRight
  <2>. HIDE DEF r
  <2>4. Frames(src \o rest) = <<>> => out = Frames(input)
    <3>1. out \o <<>> = out
      BY <1>3, ConcatEmptySeq
    <3>. QED
      BY <2>2, <3>1
  <2>5. CASE r.kind = "message"
    <3>1. /\ octet' = NoOctets /\ discarding' = FALSE
          /\ Frames(src \o rest) = <<r.body>> \o Frames(r.src \o rest)
      BY <1>1, <2>3, <2>5 DEF Right
    <3>2. PICK b \in Seq(Byte) : b = r.body
      BY <1>6
    <3>3. PICK g \in Seq(Seq(Byte)) : g = Frames(r.src \o rest)
      BY <1>3, <1>6, ConcatProperties, FramesTyped
    <3>4. Append(out, b) \o g = out \o (<<b>> \o g)
      <4>1. Append(out, b) = out \o <<b>>
        BY <1>3, AppendIsConcat
      <4>2. <<b>> \in Seq(Seq(Byte))
        BY SMTT(30)
      <4>3. Regroups(out, <<b>>, g)
        BY <1>3, <4>2, Regroup
      <4>. QED
        BY <4>1, <4>3 DEF Regroups
    <3>5. out' \o Frames(src' \o rest') = Frames(input')
      BY <1>1, <2>2, <2>5, <3>1, <3>2, <3>3, <3>4
    <3>6. Undecided' /\ Started(octet', src') /\ (mode' = "eof" => rest' = <<>>)
      BY <1>1, <1>4, <1>7, <2>5, <3>1, OpenStates DEF Undecided, Open, Started
    <3>. QED
      BY <3>1, <3>5, <3>6 DEF AsDefined
  <2>6. CASE r.kind = "fatal"
    <3>1. out = Frames(input)
      BY <2>3, <2>4, <2>6 DEF Right
    <3>2. out' = Frames(input') /\ ~Undecided' /\ mode' # "eof"
      BY <1>1, <1>7, <2>6, <3>1 DEF Undecided
    <3>. QED
      BY <1>1, <2>6, <3>2 DEF AsDefined
  <2>7. CASE r.kind = "none"
    <3>1. discarding' = FALSE /\ out' = out /\ mode' # "eof"
      BY <1>1, <1>7, <2>3, <2>7 DEF Right
    <3>2. CASE eof \/ r.octet \notin Open
      <4>1. out = Frames(input)
        BY <2>3, <2>4, <2>7, <3>2 DEF Right
      <4>2. ~Undecided'
        BY <1>1, <1>7, <2>7, <3>2 DEF Undecided
      <4>. QED
        BY <1>1, <3>1, <4>1, <4>2 DEF AsDefined
    <3>3. CASE ~eof /\ r.octet \in Open
      <4>1. src' = src /\ Started(octet', src')
        BY <1>1, <2>3, <2>7, <3>3 DEF Right
      <4>2. out' \o Frames(src' \o rest') = Frames(input')
        BY <1>1, <2>2, <3>1, <4>1
      <4>3. Undecided'
        BY <1>1, <1>7, <2>7, <3>3 DEF Undecided
      <4>. QED
        BY <3>1, <4>1, <4>2, <4>3 DEF AsDefined
    <3>. QED
      BY <3>2, <3>3
  <2>. QED
    BY <1>2, <1>6, <2>5, <2>6, <2>7
<1>9. CASE octet \notin Open
  <2>1. out = Frames(input)
    BY <1>4, <1>9 DEF Undecided
  <2>2. /\ r.kind \in {"none", "fatal"}
        /\ r.kind = "none" => r.octet \notin Open /\ r.discarding = FALSE
    BY <1>3, <1>4, <1>9, DropsFrames DEF Drops
  <2>. HIDE DEF r
  <2>3. /\ out' = Frames(input') /\ ~Undecided' /\ mode' # "eof"
        /\ mode' # "closed" => discarding' = FALSE
    BY <1>1, <1>7, <2>1, <2>2 DEF Undecided
  <2>. QED
    BY <2>3 DEF AsDefined
<1>. QED
  BY <1>8, <1>9

\* For every stream and every way of cutting it into reads, the messages are the
\* frames of the stream, unless a line was over the limit.
THEOREM FramesCorrect == Spec => []FramesAsDefined
<1>1. IInv /\ AsDefined /\ [Next]_vars => AsDefined'
  <2>. SUFFICES ASSUME IInv, AsDefined, [Next]_vars PROVE AsDefined'
    OBVIOUS
  <2>1. CASE UNCHANGED vars
    BY <2>1 DEF vars, AsDefined, Undecided
  <2>. QED
    BY <2>1, AsDefinedRead, AsDefinedEnd, AsDefinedDecode DEF Next
<1>2. AsDefined => FramesAsDefined
  BY DEF AsDefined, Undecided, FramesAsDefined
<1>. QED
  BY <1>1, <1>2, AsDefinedInit, Invariant, PTL DEF Spec
=============================================================================

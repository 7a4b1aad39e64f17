------------------------------ MODULE Framing ------------------------------
(***************************************************************************)
(* RFC 6587 framing of a syslog stream: Framer in                          *)
(* ext/hyper_ruby/src/syslog/framing.rs, and the decode loop of            *)
(* serve_stream that feeds it whatever a read returns.  A byte is one of   *)
(* the classes the decoder tells apart.                                    *)
(***************************************************************************)
EXTENDS Integers, Sequences, FiniteSets

CONSTANTS
    MaxLength,    \* config.max_frame_bytes, which the default leaves far from 0
    UsizeModulus, \* 2^64: lengths are usize
    Inputs        \* bound: what a sender may send

ASSUME FramingAssumption ==
    /\ MaxLength \in Nat \ {0}
    /\ UsizeModulus \in Nat /\ 2 * MaxLength < UsizeModulus
    /\ Inputs \subseteq Seq(0 .. 14)

VARIABLES
    input,       \* history: all that the sender sends
    rest,        \* what has not been read
    src,         \* the read buffer
    octet,       \* Framer.octet_decoding, with the count of Discarding
    discarding,  \* LinesCodec.is_discarding
    mode,        \* serve_stream: "reading", "decoding", "eof", "closed"
    out,         \* history: the messages framed
    overlong     \* history: a line was over the limit

vars == <<input, rest, src, octet, discarding, mode, out, overlong>>

\* Bytes: 0 to 9 are the digits.
Byte == 0 .. 14
Digits == 0 .. 9
Space == 10
Newline == 11
Letter == 12
Return == 13
NotUtf8 == 14

\* The place of the first b in s, 0 when there is none.
Position(s, b) ==
    IF \E i \in DOMAIN s : s[i] = b
    THEN CHOOSE i \in DOMAIN s : s[i] = b /\ \A j \in 1 .. i - 1 : s[j] # b
    ELSE 0

Drop(s, n) == SubSeq(s, n + 1, Len(s))
First(s, n) == SubSeq(s, 1, n)
Utf8(s) == \A i \in DOMAIN s : s[i] # NotUtf8

NoOctets == [state |-> "none", left |-> 0]
NotDiscarding == [state |-> "not discarding", left |-> 0]
Discarding(n) == [state |-> "discarding", left |-> n]
DiscardingToEol == [state |-> "to eol", left |-> 0]

\* What a call of decode returns (Ok(None), a message, an error) and leaves.
Nothing(s, o, d) == [kind |-> "none", body |-> <<>>, src |-> s, octet |-> o, discarding |-> d]
Frame(b, s, o, d) == [kind |-> "message", body |-> b, src |-> s, octet |-> o, discarding |-> d]
Skipped(s, o, d) == [kind |-> "skipped", body |-> <<>>, src |-> s, octet |-> o, discarding |-> d]
Fatal(s, o, d) == [kind |-> "fatal", body |-> <<>>, src |-> s, octet |-> o, discarding |-> d]

-----------------------------------------------------------------------------
(* LinesCodec of tokio-util *)

WithoutReturn(l) == IF l # <<>> /\ l[Len(l)] = Return THEN First(l, Len(l) - 1) ELSE l

LineFrame(l, s) ==
    IF Utf8(l) THEN Frame(WithoutReturn(l), s, NoOctets, FALSE) ELSE Fatal(s, NoOctets, FALSE)

\* Mutant: the rest of a long line is not marked to be discarded.
NextLineForgets(s) ==
    LET nl == Position(s, Newline) IN
    IF nl \in 1 .. MaxLength + 1 THEN LineFrame(First(s, nl - 1), Drop(s, nl))
    ELSE IF Len(s) > MaxLength THEN Skipped(s, NoOctets, FALSE)
    ELSE Nothing(s, NoOctets, FALSE)

NextLine(s) ==
    LET nl == Position(s, Newline) IN
    CASE nl \in 1 .. MaxLength + 1 -> LineFrame(First(s, nl - 1), Drop(s, nl))
      [] nl \notin 1 .. MaxLength + 1 /\ Len(s) > MaxLength -> Skipped(s, NoOctets, TRUE)
      [] OTHER -> Nothing(s, NoOctets, FALSE)

\* While it discards it drops everything up to a newline, then goes on.
LineDecode(s, d) ==
    LET nl == Position(s, Newline) IN
    IF ~d THEN NextLine(s)
    ELSE IF nl = 0 THEN Nothing(<<>>, NoOctets, TRUE)
    ELSE NextLine(Drop(s, nl))

\* At the end of the stream the unterminated line is released.
LineDecodeEof(s, d) ==
    LET r == LineDecode(s, d) IN
    IF r.kind # "none" \/ r.src \in {<<>>, <<Return>>} THEN r
    ELSE [LineFrame(r.src, <<>>) EXCEPT !.discarding = r.discarding]

-----------------------------------------------------------------------------
(* Framer *)

\* The declared length, if the bytes before the space are one.
IsNumber(s) == \A i \in DOMAIN s : s[i] \in Digits

Number(s) ==
    LET value[n \in 0 .. Len(s)] == IF n = 0 THEN 0 ELSE 10 * value[n - 1] + s[n]
    IN value[Len(s)]

\* A length, a space and a body, the space within the limit.  The end of the
\* body wraps, before the length is compared with the limit.
CountedDecode(s, space, d) ==
    LET len == Number(First(s, space - 1))
        to == (space + len) % UsizeModulus
        body == SubSeq(s, space + 1, to) IN
    IF ~IsNumber(First(s, space - 1)) \/ len >= UsizeModulus
    THEN Fatal(Drop(s, space), NoOctets, d)
    ELSE IF len > MaxLength THEN Nothing(Drop(s, space), Discarding(len), d)
    ELSE IF to < space \/ Len(s) < to THEN Nothing(s, NotDiscarding, d)
    ELSE IF Utf8(body) THEN Frame(body, Drop(s, to), NoOctets, d)
    ELSE Fatal(Drop(s, to), NoOctets, d)

\* Part of an oversize body is dropped.
CountDown(o, s) == Discarding(o.left - Len(s))

\* Mutant: the buffer is kept whatever its size.
UnsyncedKept(o, s, d) == Nothing(s, o, d)

\* Neither a space nor a newline yet.
Unsynced(o, s, d) ==
    IF Len(s) < MaxLength THEN Nothing(s, o, d) ELSE Nothing(<<>>, DiscardingToEol, d)

octet_decode(o, s, d) ==
    LET space == Position(s, Space)
        nl == Position(s, Newline) IN
    CASE o.state = "discarding" /\ Len(s) >= o.left -> Fatal(Drop(s, o.left), NoOctets, d)
      [] o.state = "discarding" /\ Len(s) < o.left -> Nothing(<<>>, CountDown(o, s), d)
      [] o.state = "to eol" /\ nl # 0 -> Fatal(Drop(s, nl), NoOctets, d)
      [] o.state = "to eol" /\ nl = 0 -> Nothing(<<>>, o, d)
      [] o.state = "not discarding" /\ space \in 1 .. MaxLength -> CountedDecode(s, space, d)
      [] o.state = "not discarding" /\ space \notin 1 .. MaxLength /\ nl # 0 ->
           Fatal(Drop(s, nl), o, d)
      [] o.state = "not discarding" /\ space \notin 1 .. MaxLength /\ nl = 0 ->
           Unsynced(o, s, d)

\* Mutant: a digit starts a count whatever state the decoder is in.
StartsCountedAnew(o, s) == IF s # <<>> /\ s[1] \in 1 .. 9 THEN NotDiscarding ELSE o

\* checked_decode: a decoder without an octet count in hand starts one at a
\* non-zero digit; LinesCodec's own state is not asked.
StartsCounted(o, s) ==
    IF o = NoOctets /\ s # <<>> /\ s[1] \in 1 .. 9 THEN NotDiscarding ELSE o

Decode(eof) ==
    LET o == StartsCounted(octet, src) IN
    IF o # NoOctets THEN octet_decode(o, src, discarding)
    ELSE IF eof THEN LineDecodeEof(src, discarding) ELSE LineDecode(src, discarding)

-----------------------------------------------------------------------------
(* serve_stream *)

Init ==
    /\ input \in Inputs
    /\ rest = input
    /\ src = <<>> /\ octet = NoOctets /\ discarding = FALSE
    /\ mode = "reading" /\ out = <<>> /\ overlong = FALSE

\* A read returns any part of what has been sent.
Read ==
    /\ mode = "reading" /\ rest # <<>>
    /\ \E n \in 1 .. Len(rest) : src' = src \o First(rest, n) /\ rest' = Drop(rest, n)
    /\ mode' = "decoding"
    /\ UNCHANGED <<input, octet, discarding, out, overlong>>

EndOfStream ==
    /\ mode = "reading" /\ rest = <<>>
    /\ mode' = "eof"
    /\ UNCHANGED <<input, rest, src, octet, discarding, out, overlong>>

\* One round of the loop: a message is handed on, a rejection counted; a fatal
\* one closes the connection.  Without a frame the stream is read again, or
\* closed at its end.
DecodeFrame ==
    /\ mode \in {"decoding", "eof"}
    /\ LET r == Decode(mode = "eof") IN
       /\ src' = r.src /\ octet' = r.octet /\ discarding' = r.discarding
       /\ out' = IF r.kind = "message" THEN Append(out, r.body) ELSE out
       /\ overlong' = (overlong \/ r.kind = "skipped")
       /\ mode' = CASE r.kind = "fatal" -> "closed"
                    [] r.kind = "none" -> IF mode = "eof" THEN "closed" ELSE "reading"
                    [] OTHER -> mode
    /\ UNCHANGED <<input, rest>>

Next == Read \/ EndOfStream \/ DecodeFrame

Spec == Init /\ [][Next]_vars

\* The task runs, and the sender sends the rest or closes.
FairSpec == Spec /\ WF_vars(Next)

-----------------------------------------------------------------------------
(* Properties *)

\* Types of the variables.
TypeOK ==
    /\ input \in Seq(Byte) /\ rest \in Seq(Byte) /\ src \in Seq(Byte)
    /\ octet.state \in {"none", "not discarding", "discarding", "to eol"} /\ octet.left \in Nat
    /\ discarding \in BOOLEAN
    /\ mode \in {"reading", "decoding", "eof", "closed"}
    /\ out \in Seq(Seq(Byte))
    /\ overlong \in BOOLEAN

\* A sender cannot make the buffer grow by leaving frames unfinished: when the
\* stream is read again the decoder keeps less than a length and a body of the
\* maximum size.  The exception is the body of an oversize frame that came in the
\* same read as its length (framing.rs:179-181 returns before it is dropped): it
\* stays until the next read, and what is kept of it then is nothing.
BufferBound ==
    mode = "reading" =>
        \/ Len(src) < 2 * MaxLength
        \/ octet.state = "discarding" /\ octet.left > MaxLength

\* The decoder never stays with the same bytes: every stream is decoded to its
\* end or closed (framing.rs:165-166).
DecodingEnds == <>(mode = "closed")
=============================================================================

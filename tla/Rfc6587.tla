------------------------------ MODULE Rfc6587 ------------------------------
(***************************************************************************)
(* The frames of a stream as RFC 6587 defines them and framing.rs:1-3 sums *)
(* them up, read off the whole input, against what Framer makes of the     *)
(* same input read in pieces.                                              *)
(***************************************************************************)
EXTENDS Framing

\* What the first frame of s comes to: the message, if it is one, and how many
\* bytes it takes.  A frame that ends the stream takes them all.
Ends(s) == [messages |-> <<>>, bytes |-> Len(s)]

\* An octet counted frame: a bad one ends the stream.
CountedFrame(s) ==
    LET space == Position(s, Space)
        len == Number(First(s, space - 1))
        body == SubSeq(s, space + 1, space + len) IN
    IF space \notin 1 .. MaxLength THEN Ends(s)
    ELSE IF ~IsNumber(First(s, space - 1)) \/ len > MaxLength THEN Ends(s)
    ELSE IF Len(s) < space + len \/ ~Utf8(body) THEN Ends(s)
    ELSE [messages |-> <<body>>, bytes |-> space + len]

\* A line: one that is too long is skipped.
TextFrame(s) ==
    LET nl == Position(s, Newline)
        line == IF nl = 0 THEN s ELSE First(s, nl - 1)
        bytes == IF nl = 0 THEN Len(s) ELSE nl IN
    IF Len(line) > MaxLength \/ (nl = 0 /\ line = <<Return>>)
    THEN [messages |-> <<>>, bytes |-> bytes]
    ELSE IF ~Utf8(line) THEN Ends(s)
    ELSE [messages |-> <<WithoutReturn(line)>>, bytes |-> bytes]

FirstFrame(s) == IF s[1] \in 1 .. 9 THEN CountedFrame(s) ELSE TextFrame(s)

\* The frames of s, from those of the parts of s after each frame: frames[n] are
\* those of its last n bytes.
Frames(s) ==
    LET first == [n \in 1 .. Len(s) |-> FirstFrame(Drop(s, Len(s) - n))]
        frames[n \in 0 .. Len(s)] ==
            IF n = 0 THEN <<>> ELSE first[n].messages \o frames[n - first[n].bytes]
    IN frames[Len(s)]

-----------------------------------------------------------------------------
(* Properties *)

\* Wherever the reads fall, the messages Framer hands over are the frames of
\* the stream, as long as no line was over the limit: a length, a body or a line
\* cut in two by a read is put together again.
FramesAsDefined ==
    mode = "closed" /\ ~overlong => out = Frames(input)

\* framing.rs:37-38: "A non-fatal error skips the offending frame only."
SkipsOffendingFrameOnly == mode = "closed" => out = Frames(input)
=============================================================================

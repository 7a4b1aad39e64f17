---------------------------- MODULE ProxyHeader ----------------------------
(***************************************************************************)
(* The PROXY v2 header in front of a syslog stream: proxy::parse in        *)
(* ext/hyper_ruby/src/syslog/proxy.rs, and read_proxy_header of syslog.rs, *)
(* which calls it again after every read until it has a header, an error,  *)
(* the end of the stream or the end of its time.  A byte is a number, an   *)
(* address is its octets.                                                  *)
(***************************************************************************)
EXTENDS Integers, Sequences

CONSTANTS
    MaxHeader,      \* MAX_PROXY_HEADER_BYTES
    Deadline,       \* config.proxy_header_timeout, in ticks
    Streams,        \* what a client may send
    TransportPeer   \* the peer that accept returned

SIGNATURE == <<13, 10, 13, 10, 0, 13, 10, 81, 85, 73, 84, 10>>
V1_SIGNATURE == <<80, 82, 79, 88, 89, 32>>
PREFIX_LEN == 16
Byte == 0 .. 255

ASSUME ProxyAssumption ==
    /\ MaxHeader \in Nat /\ MaxHeader >= PREFIX_LEN
    /\ Deadline \in Nat
    /\ Streams \subseteq Seq(Byte)

VARIABLES
    stream,   \* the bytes the client sends before it closes
    taken,    \* how many of them have been read
    buffer,   \* the read buffer, which the framer goes on with
    state,    \* serve_stream: "reading" the header, "serving", "closed"
    failure,  \* ProxyFailure::as_str(), "none" when there is none
    peer,     \* whom the messages are attributed to
    timer,    \* what is left of the deadline
    age,      \* history: how long the header has been waited for
    proxy_header_errors,
    proxy_read_errors

vars == <<stream, taken, buffer, state, failure, peer, timer, age,
          proxy_header_errors, proxy_read_errors>>

-----------------------------------------------------------------------------
(* proxy::parse                                                            *)

\* ProxyHeader::Incomplete, ProxyHeader::Complete and the errors.
None == <<>>
Incomplete == [kind |-> "incomplete", source |-> None, length |-> 0, error |-> "none"]
Complete(s, n) == [kind |-> "complete", source |-> s, length |-> n, error |-> "none"]
Error(e) == [kind |-> "error", source |-> None, length |-> 0, error |-> e]

\* buf and sig agree as far as both go.
Agrees(buf, sig) == \A i \in 1 .. Len(sig) : i <= Len(buf) => buf[i] = sig[i]

AddressLength(buf) == 256 * buf[15] + buf[16]

IPv4 == {17, 18}          \* 0x11, 0x12
IPv6 == {33, 34}          \* 0x21, 0x22
NoNetworkPeer == {0, 49, 50}   \* 0x00, 0x31, 0x32

\* The source of a header whose bytes are all there.
Source(buf) ==
    LET command == buf[13] % 16
        family == buf[14]
        length == PREFIX_LEN + AddressLength(buf) IN
    CASE command = 0 -> Complete(None, length)
      [] command # 0 /\ family \in IPv4 ->
            IF AddressLength(buf) < 12 THEN Error("family")
            ELSE Complete(SubSeq(buf, 17, 20), length)
      [] command # 0 /\ family \in IPv6 ->
            IF AddressLength(buf) < 36 THEN Error("family")
            ELSE Complete(SubSeq(buf, 17, 32), length)
      [] command # 0 /\ family \in NoNetworkPeer -> Complete(None, length)
      [] OTHER -> Error("family")

\* Mutant: the limit is asked for only once the whole header is there.
ParsePrefixLimitLast(buf) ==
    LET length == PREFIX_LEN + AddressLength(buf) IN
    IF buf[13] \div 16 # 2 THEN Error("version")
    ELSE IF buf[13] % 16 > 1 THEN Error("command")
    ELSE IF Len(buf) < length THEN Incomplete
    ELSE IF length > MaxHeader THEN Error("too_long")
    ELSE Source(buf)

ParsePrefix(buf) ==
    LET length == PREFIX_LEN + AddressLength(buf) IN
    IF buf[13] \div 16 # 2 THEN Error("version")
    ELSE IF buf[13] % 16 > 1 THEN Error("command")
    ELSE IF length > MaxHeader THEN Error("too_long")
    ELSE IF Len(buf) < length THEN Incomplete
    ELSE Source(buf)

\* Mutant: a signature that is not all there yet is taken for a wrong one.
ParseWholeSignature(buf) ==
    IF buf = <<>> THEN Incomplete
    ELSE IF Agrees(buf, V1_SIGNATURE) THEN Error("version")
    ELSE IF Len(buf) < 12 \/ ~Agrees(buf, SIGNATURE) THEN Error("signature")
    ELSE IF Len(buf) < PREFIX_LEN THEN Incomplete
    ELSE ParsePrefix(buf)

Parse(buf) ==
    IF buf = <<>> THEN Incomplete
    ELSE IF Agrees(buf, V1_SIGNATURE) THEN Error("version")
    ELSE IF ~Agrees(buf, SIGNATURE) THEN Error("signature")
    ELSE IF Len(buf) < PREFIX_LEN THEN Incomplete
    ELSE ParsePrefix(buf)

-----------------------------------------------------------------------------
(* read_proxy_header                                                       *)

Init ==
    /\ stream \in Streams
    /\ taken = 0
    /\ buffer = <<>>
    /\ state = "reading"
    /\ failure = "none"
    /\ peer = TransportPeer
    /\ timer = Deadline
    /\ age = 0
    /\ proxy_header_errors = 0
    /\ proxy_read_errors = 0

\* serve_stream on Err(failure): record, close_stream, return.
Fail(reason, header, read) ==
    /\ state' = "closed"
    /\ failure' = reason
    /\ proxy_header_errors' = proxy_header_errors + header
    /\ proxy_read_errors' = proxy_read_errors + read
    /\ UNCHANGED peer

\* Mutant: the buffer is cleared, with the first messages in it.
LoopClears(b) ==
    LET header == Parse(b) IN
    \/ /\ header.kind = "complete"
       /\ buffer' = <<>>
       /\ state' = "serving"
       /\ peer' = IF header.source = None THEN peer ELSE header.source
       /\ UNCHANGED <<failure, proxy_header_errors, proxy_read_errors>>
    \/ /\ header.kind = "incomplete"
       /\ buffer' = b
       /\ UNCHANGED <<state, failure, peer, proxy_header_errors, proxy_read_errors>>
    \/ /\ header.kind = "error"
       /\ buffer' = b
       /\ Fail(header.error, 1, 0)

\* The loop goes round with what it has read: Ok(Some(source)) names the peer,
\* Ok(None) leaves the transport's.
Loop(b) ==
    LET header == Parse(b) IN
    \/ /\ header.kind = "complete"
       /\ buffer' = SubSeq(b, header.length + 1, Len(b))
       /\ state' = "serving"
       /\ peer' = IF header.source = None THEN peer ELSE header.source
       /\ UNCHANGED <<failure, proxy_header_errors, proxy_read_errors>>
    \/ /\ header.kind = "incomplete"
       /\ buffer' = b
       /\ UNCHANGED <<state, failure, peer, proxy_header_errors, proxy_read_errors>>
    \/ /\ header.kind = "error"
       /\ buffer' = b
       /\ Fail(header.error, 1, 0)

\* Mutant: every read has the deadline to itself.
ReadRestartsTimer ==
    /\ state = "reading"
    /\ \E n \in 1 .. Len(stream) - taken :
        /\ taken' = taken + n
        /\ Loop(buffer \o SubSeq(stream, taken + 1, taken + n))
    /\ timer' = Deadline
    /\ UNCHANGED <<stream, age>>

\* read_buf returns some bytes.
Read ==
    /\ state = "reading"
    /\ \E n \in 1 .. Len(stream) - taken :
        /\ taken' = taken + n
        /\ Loop(buffer \o SubSeq(stream, taken + 1, taken + n))
    /\ UNCHANGED <<stream, timer, age>>

\* read_buf returns 0: the client has closed after what it had sent so far.
ReadEof ==
    /\ state = "reading"
    /\ stream' = SubSeq(stream, 1, taken)
    /\ Fail("eof", 0, 1)
    /\ UNCHANGED <<taken, buffer, timer, age>>

ReadError ==
    /\ state = "reading"
    /\ Fail("io", 0, 1)
    /\ UNCHANGED <<stream, taken, buffer, timer, age>>

Tick ==
    /\ state = "reading" /\ timer > 0
    /\ timer' = timer - 1
    /\ age' = age + 1
    /\ UNCHANGED <<stream, taken, buffer, state, failure, peer,
                   proxy_header_errors, proxy_read_errors>>

\* Mutant: only a client that has sent nothing at all is timed out.
TimeoutOfSilent ==
    /\ state = "reading" /\ timer = 0 /\ buffer = <<>>
    /\ Fail("timeout", 0, 1)
    /\ UNCHANGED <<stream, taken, buffer, timer, age>>

\* The deadline elapses.  timeout polls the read first, so a read may still
\* win when the timer is at 0.
Timeout ==
    /\ state = "reading" /\ timer = 0
    /\ Fail("timeout", 0, 1)
    /\ UNCHANGED <<stream, taken, buffer, timer, age>>

Next == Read \/ ReadEof \/ ReadError \/ Tick \/ Timeout

Spec == Init /\ [][Next]_vars
\* Time passes and the runtime polls a task whose timer has elapsed.
FairSpec == Spec /\ WF_vars(Tick) /\ WF_vars(Timeout)

-----------------------------------------------------------------------------
(* Properties                                                              *)

\* The first n bytes of s are a v2 header within the limit.
HeaderOf(s, n) ==
    /\ n <= Len(s) /\ PREFIX_LEN <= n /\ n <= MaxHeader
    /\ \A i \in 1 .. 12 : s[i] = SIGNATURE[i]
    /\ n = PREFIX_LEN + AddressLength(s)
    /\ \/ s[13] = 32
       \/ s[13] = 33 /\ s[14] \in NoNetworkPeer
       \/ s[13] = 33 /\ s[14] \in IPv4 /\ AddressLength(s) >= 12
       \/ s[13] = 33 /\ s[14] \in IPv6 /\ AddressLength(s) >= 36

\* The peer a header names: the transport's for LOCAL connections and the
\* families without a network address.
PeerOf(s) ==
    IF s[13] = 33 /\ s[14] \in IPv4 THEN SubSeq(s, 17, 20)
    ELSE IF s[13] = 33 /\ s[14] \in IPv6 THEN SubSeq(s, 17, 32)
    ELSE TransportPeer

HeaderErrors == {"version", "command", "signature", "family", "too_long"}
ReadErrors == {"eof", "io", "timeout"}

TypeOK ==
    /\ stream \in Seq(Byte) /\ buffer \in Seq(Byte)
    /\ taken \in 0 .. Len(stream)
    /\ state \in {"reading", "serving", "closed"}
    /\ failure \in {"none"} \cup HeaderErrors \cup ReadErrors
    /\ timer \in 0 .. Deadline /\ age \in Nat
    /\ proxy_header_errors \in 0 .. 1 /\ proxy_read_errors \in 0 .. 1

\* proxy.rs parses a prefix again and again: wherever the reads cut the header,
\* the connection is served exactly when the stream begins with a header, is
\* counted as a header error only when it does not and never could, and is
\* given up on for the end of the stream, an error or the time only while no
\* header had arrived.
OutcomeAsDefined ==
    /\ state = "serving" => \E n \in 0 .. taken : HeaderOf(stream, n) /\ peer = PeerOf(stream)
    /\ failure \in HeaderErrors => \A n \in 0 .. Len(stream) : ~HeaderOf(stream, n)
    /\ failure \in ReadErrors => \A n \in 0 .. taken : ~HeaderOf(stream, n)

\* The header is consumed and nothing after it: what is in the buffer and what
\* is still to be read are together the bytes behind the header, so no message
\* loses its beginning and none begins with a piece of the header.
PayloadIntact ==
    state = "serving" =>
        \E n \in 0 .. taken :
            /\ HeaderOf(stream, n)
            /\ buffer = SubSeq(stream, n + 1, taken)

\* A client cannot make the server hold MAX_PROXY_HEADER_BYTES or more waiting
\* for the rest of a header.
HeaderBufferBound == state = "reading" => Len(buffer) < MaxHeader

\* The deadline is for the whole header: reads do not extend it.
OneDeadline == state = "reading" => age <= Deadline

\* Every connection gets past the header or is closed, also when the client
\* sends nothing more.
HeaderEnds == <>(state # "reading")
=============================================================================

-------------------------- MODULE MCSyslogDelivery --------------------------
(* Instances of SyslogDelivery for TLC. *)
EXTENDS SyslogDelivery

\* Reads that bring two messages at once, a recoverable and a fatal error, and
\* the end of the stream with and without a trailing message.
SomeChunks == {<<"message">>, <<"message", "message">>, <<"skip">>, <<"fatal">>,
               <<"eof">>, <<"message", "eof">>}

MessageChunks == {<<"message">>, <<"message", "message">>}
=============================================================================

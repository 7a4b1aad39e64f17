------------------------------ MODULE MCFraming ------------------------------
(***************************************************************************)
(* The inputs of the runs of Framing.                                      *)
(***************************************************************************)
EXTENDS Rfc6587

Strings(bytes, n) == UNION {[1 .. k -> bytes] : k \in 0 .. n}

\* Two lengths (one of a body within the limit), text, and both separators.
TextInputs == Strings({1, 4, Space, Newline, Letter}, 6)
\* The same with the bytes that make lines and bodies differ from plain text.
MixedInputs ==
    Strings({1, 4, Space, Newline, Return}, 6) \cup Strings({1, 4, Space, Newline, Return, NotUtf8}, 5)
=============================================================================

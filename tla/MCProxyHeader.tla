--------------------------- MODULE MCProxyHeader ---------------------------
(***************************************************************************)
(* The streams that ProxyHeader is checked on: every kind of header, with  *)
(* each length at and next to a limit, followed by a piece of a message.   *)
(***************************************************************************)
EXTENDS ProxyHeader

\* The signature, the signature with one byte wrong, and the v1 header.
Signatures == {SIGNATURE, [SIGNATURE EXCEPT ![12] = 13], V1_SIGNATURE \o <<84, 67, 80, 52, 32, 49>>,
               <<80, 82, 79, 88, 89, 0, 0, 0, 0, 0, 0, 0>>}
\* LOCAL, PROXY, an unknown command, another version.
VersionCommands == {32, 33, 34, 49}
Families == {0, 17, 18, 33, 34, 49, 65}
\* 60 is the limit: the last two lengths are too long.
Lengths == {0, 11, 12, 35, 36, 44, 45, 300}
Message == <<60, 49, 62>>

Bytes(n) == [i \in 1 .. n |-> i % 256]
Header(sig, vc, family, n) ==
    sig \o <<vc, family, n \div 256, n % 256>> \o Bytes(n)

SomeStreams ==
    {Header(SIGNATURE, vc, f, n) \o Message : vc \in {32, 33}, f \in Families, n \in Lengths}
    \cup {Header(sig, vc, 17, 12) \o Message : sig \in Signatures, vc \in VersionCommands}
=============================================================================

------------------------------- MODULE MCEngine -------------------------------
(***************************************************************************)
(* Records for the engine: hellos of chosen lengths, hellos that lack      *)
(* something, and records the reader or the engine turns away.             *)
(***************************************************************************)
EXTENDS AxonEngineProperties

Share == [type |-> "KEY_SHARE", len |-> 38, key_len |-> 32]
Other(l) == [type |-> "OTHER", len |-> l, key_len |-> 0]

\* 45 bytes in front of the extensions, then the given ones.
HelloWith(exts, block, suite) ==
  [len |-> 45 + block, sid |-> 0, cs |-> 2, suites |-> <<suite>>, comp |-> 1,
   total |-> block, exts |-> exts]

\* A hello with a share and as much padding as the length asks for.
Sized(len) == HelloWith(<<Share, Other(len - 91)>>, len - 45, "CHACHA20_POLY1305")

NoShare == HelloWith(<<>>, 0, "AES_128_GCM")
NoCommonSuite == HelloWith(<<Share>>, 42, "OTHER")

\* A 32-byte session id and a share as the only extension.
LongSessionId ==
  [len |-> 119, sid |-> 32, cs |-> 2, suites |-> <<"AES_256_GCM">>, comp |-> 1,
   total |-> 42, exts |-> <<Share>>]

\* A fragment of n bytes that carries no hello at all.
Stub(n) == [len |-> n, sid |-> 0, cs |-> 0, suites |-> <<>>, comp |-> 0,
            total |-> 0, exts |-> <<>>]

\* The record around a hello whose header bytes 1 and 2 hold 0x0304.
Taken(h) == [whole |-> TRUE, content |-> "HANDSHAKE", version |-> "TLS13",
             msg_type |-> "CLIENT_HELLO", high |-> 772, hello |-> h]

\* The record around a hello whose header holds its length.
Conforming(h) == [Taken(h) EXCEPT !.high = (h.len - 4) \div 256]

Unreadable == {[Taken(Sized(100)) EXCEPT !.whole = FALSE],
               [Taken(Sized(100)) EXCEPT !.content = "ALERT"],
               [Taken(Sized(100)) EXCEPT !.version = "OTHER"],
               Taken(Stub(0))}

Unwanted == {[Taken(Sized(100)) EXCEPT !.content = "OTHER"],
             [Taken(Sized(100)) EXCEPT !.msg_type = "OTHER"],
             [Taken(Stub(2)) EXCEPT !.high = 0],
             Conforming(Sized(100))}

Application == {[Taken(Stub(n)) EXCEPT !.content = "APPLICATION_DATA"] : n \in {8, 40}}

\* 100 leaves room; 133, 143 and 97 reach the padding limit at the server's
\* Finished, at CertificateVerify and at the client's Finished; 7977 fills the
\* buffer exactly, 8013 up to the server's Finished; with 8100 the buffer is
\* full in mid-flight and 8193 is dropped itself.
Lengths == {97, 100, 133, 143, 7977, 8013, 8100, 8193}

MCRecords ==
  {Taken(Sized(n)) : n \in Lengths}
  \cup {Taken(NoShare), Taken(NoCommonSuite), Taken(LongSessionId)}
  \cup Unreadable \cup Unwanted \cup Application

\* A hello that is answered and one cut short by the padding limit.
MCPaddingRecords == {Taken(Sized(100)), Taken(Sized(133))}

\* A hello in the protocol's own encoding (header bytes 1 and 2 zero, as in
\* tests/c/test_handshake.c:25-27) and two the engine takes in.
MCTestRecords == {Conforming(Sized(100)), Taken(Sized(100)), Taken(LongSessionId)}

MCBehindSet == {[cs |-> 0, suite |-> "OTHER", comp |-> 0, key_len |-> 32]}

===============================================================================

--------------------------- MODULE ClientHelloCheck ---------------------------
(***************************************************************************)
(* The hello parser driven by its environment: fragments arrive one after  *)
(* another, each with whatever bytes the heap holds behind it.             *)
(***************************************************************************)
EXTENDS ClientHello

CONSTANTS HelloSet,   \* the fragments that may arrive
          BehindSet   \* what the heap may hold behind a fragment

ASSUME HelloSetAssumption  == HelloSet \subseteq Hello
ASSUME BehindSetAssumption == BehindSet \subseteq Behind

VARIABLES hello,    \* the fragment being parsed
          result    \* what the last call left behind; NotParsed before it

vars == <<hello, result>>

NotParsed == [ok |-> FALSE, random |-> FALSE, suite |-> "NOT_PARSED", share |-> FALSE]

Init == hello \in HelloSet /\ result = NotParsed

Parse == /\ result = NotParsed
         /\ \E b \in BehindSet : result' = axon_parse_client_hello(hello, b)
         /\ UNCHANGED hello

\* The same bytes again, from a heap that may hold other bytes behind them.
Again == /\ result # NotParsed
         /\ result' = NotParsed
         /\ UNCHANGED hello

Next == Parse \/ Again
Spec == Init /\ [][Next]_vars

-------------------------------------------------------------------------------

\* What a complete hello with exact lengths looks like to its sender.
FixedPart(h)  == 37 + h.sid + 2 + h.cs + 1 + h.comp + 2
BlockSize(h)  == ExtOffset(h, Len(h.exts) + 1)
Exact(h)      == h.total = BlockSize(h) /\ h.len = FixedPart(h) + BlockSize(h)

\* The offset checks come after the reads they should guard (handshake.c:39-67,
\* 75-81), yet no byte from behind the fragment ever decides the outcome: the
\* verdict and the key share taken are those of the fragment alone, and so is
\* the cipher suite of an accepted hello.
BehindNeverDecides ==
  result # NotParsed =>
    \A b \in BehindSet :
      LET other == axon_parse_client_hello(hello, b)
      IN  /\ result.ok = other.ok
          /\ result.random = other.random
          /\ result.share = other.share
          /\ result.ok => result.suite = other.suite

\* A key share the parser copies (handshake.c:70-85) lies wholly inside the
\* fragment and inside the extension block the client declared, for every
\* hello with a whole cipher suite and a compression method: the parser never
\* takes for a key share bytes the client did not send as an extension.
StoredShareInsideBlock ==
  (result.share /\ hello.cs >= 2 /\ hello.comp >= 1)
    => \E k \in 1..Len(hello.exts) :
         /\ IsKeyShare(hello.exts[k])
         /\ FixedPart(hello) + ExtOffset(hello, k) + 42 <= hello.len
         /\ ExtOffset(hello, k) + 42 <= hello.total

\* The loop condition of handshake.c:70 mixes an absolute offset with a
\* relative length.  Its exact effect on an untruncated hello: the first X25519
\* share is taken if and only if the bytes in front of the extension block
\* number fewer than four plus the bytes from the share's extension to the end.
ShareTakenExactlyWhen ==
  \A k \in 1..Len(hello.exts) :
    ( /\ Exact(hello)
      /\ result.ok
      /\ IsKeyShare(hello.exts[k])
      /\ hello.exts[k].len >= 38
      /\ hello.exts[k].key_len = 32
      /\ \A j \in 1..(k - 1) : ~IsKeyShare(hello.exts[j]) )
    => (result.share
          <=> FixedPart(hello) < 4 + BlockSize(hello) - ExtOffset(hello, k))

===============================================================================

----------------------------- MODULE ClientHello -----------------------------
(***************************************************************************)
(* axon_parse_client_hello (core/source/handshake.c) as constant operators *)
(* over a structured hello.  A hello is the layout the parser walks:       *)
(*                                                                         *)
(*   len     bytes in the fragment; the layout may claim more than that    *)
(*   sid     the session id length byte                                    *)
(*   cs      the cipher suite block's declared length, possibly odd        *)
(*   suites  the 16-bit entries read from that block                       *)
(*   comp    the compression method length byte                            *)
(*   total   the extension block's declared length                         *)
(*   exts    the extension headers that follow one another, each with its  *)
(*           type, its declared len and the key_len field of a key share   *)
(*                                                                         *)
(* The parser checks a length after it has read the bytes that carry it,   *)
(* so a truncated hello makes it read bytes behind the fragment.  Those    *)
(* bytes are a parameter here, b (for "behind"): one value for every field *)
(* such a read can reach.                                                  *)
(***************************************************************************)
EXTENDS Integers, Sequences

SupportedSuites == {"AES_128_GCM", "AES_256_GCM", "CHACHA20_POLY1305"}
Suites == SupportedSuites \cup {"OTHER"}

Byte == 0..255
Word == 0..65535

ExtensionHeader == [type: {"KEY_SHARE", "OTHER"}, len: Nat, key_len: Nat]

Hello == [len: Nat, sid: Byte, cs: Word, suites: Seq(Suites),
          comp: Byte, total: Word, exts: Seq(ExtensionHeader)]

Behind == [cs: Word, suite: Suites, comp: Byte, key_len: Word]

\* Offsets of the variable part: the session id length is byte 36, behind the
\* 4-byte handshake header and the 32-byte random.
CsAt(h)     == 37 + h.sid
SuitesAt(h) == CsAt(h) + 2

CsLen(h, b)   == IF SuitesAt(h) <= h.len THEN h.cs ELSE b.cs
CompAt(h, b)  == SuitesAt(h) + CsLen(h, b)
CompLen(h, b) == IF CompAt(h, b) < h.len THEN h.comp ELSE b.comp
ExtAt(h, b)   == CompAt(h, b) + 1 + CompLen(h, b)

\* The checks up to the extension block, in the order the parser makes them.
Fits(h, b) ==
  /\ CsAt(h) <= h.len
  /\ CompAt(h, b) <= h.len

\* Entry k of the cipher suite block.  With an odd block length the last entry
\* takes its second byte from behind the block, maybe from behind the fragment.
Entries(h, b)  == {k \in 1..Len(h.suites) : 2 * (k - 1) < CsLen(h, b)}
Entry(h, b, k) == IF SuitesAt(h) + 2 * k <= h.len THEN h.suites[k] ELSE b.suite

Chosen(h, b) ==
  {k \in Entries(h, b) :
     /\ Entry(h, b, k) \in SupportedSuites
     /\ \A j \in Entries(h, b) : j < k => Entry(h, b, j) \notin SupportedSuites}

RestFits(h, b) ==
  /\ CompAt(h, b) + 1 + CompLen(h, b) <= h.len
  /\ ExtAt(h, b) + 2 <= h.len

Accepts(h, b) == Fits(h, b) /\ Chosen(h, b) # {} /\ RestFits(h, b)

\* Where extension k starts, in bytes from the first extension.
ExtOffset(h, k) ==
  LET sum[i \in 0..Len(h.exts)] ==
        IF i = 0 THEN 0 ELSE sum[i - 1] + 4 + h.exts[i].len
  IN  sum[k - 1]

ExtStart(h, b, k) == ExtAt(h, b) + 2 + ExtOffset(h, k)

\* Variants of the loop condition: the declared length is not looked at, or is
\* compared with the wrong relation.
ignores_declared_length(h, start) == start + 4 <= h.len
one_byte_more(h, start) == start + 4 <= h.len /\ start - 4 <= h.total

\* The loop condition, evaluated at the start of an extension header.
\* "offset - 4 < extensions_len" measures from the start of the message, not
\* from the start of the extension block.
InLoop(h, start) == start + 4 <= h.len /\ start - 4 < h.total

IsKeyShare(e) == e.type = "KEY_SHARE" /\ e.len >= 32

\* The extension the walk stops at: the first long enough key share, provided
\* the loop condition held at it and at every extension before it.
ShareSeen(h, b) ==
  {k \in 1..Len(h.exts) :
     /\ IsKeyShare(h.exts[k])
     /\ \A j \in 1..k : InLoop(h, ExtStart(h, b, j))
     /\ \A j \in 1..(k - 1) : ~IsKeyShare(h.exts[j])}

KeyLen(h, b, k) ==
  IF ExtStart(h, b, k) + 10 <= h.len THEN h.exts[k].key_len ELSE b.key_len

\* Variant: the key is copied without a look at the bytes that are left.
copied_unchecked(h, b) == {k \in ShareSeen(h, b) : KeyLen(h, b, k) = 32}

ShareStored(h, b) ==
  {k \in ShareSeen(h, b) :
     KeyLen(h, b, k) = 32 /\ ExtStart(h, b, k) + 10 + 32 <= h.len}

(***************************************************************************)
(* What a call leaves behind.  random, suite and share say whether the     *)
(* context field is overwritten; a field that is not keeps what an earlier *)
(* call left in it, on success too.                                        *)
(***************************************************************************)
NoSuite == "NONE"

SuiteChosen(h, b) ==
  IF Fits(h, b) /\ Chosen(h, b) # {}
  THEN Entry(h, b, CHOOSE k \in Chosen(h, b) : TRUE)
  ELSE NoSuite

axon_parse_client_hello(h, b) ==
  IF h.len < 40
  THEN [ok |-> FALSE, random |-> FALSE, suite |-> NoSuite, share |-> FALSE]
  ELSE [ok     |-> Accepts(h, b),
        random |-> TRUE,
        suite  |-> SuiteChosen(h, b),
        share  |-> Accepts(h, b) /\ ShareStored(h, b) # {}]

==============================================================================

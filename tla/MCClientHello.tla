---------------------------- MODULE MCClientHello ----------------------------
(***************************************************************************)
(* Hellos with no, short, long and late key shares, cut at every boundary  *)
(* the parser tests and one byte to either side of it.                     *)
(***************************************************************************)
EXTENDS ClientHelloCheck

Share(l, kl) == [type |-> "KEY_SHARE", len |-> l, key_len |-> kl]
Other(l)     == [type |-> "OTHER", len |-> l, key_len |-> 0]

ExtLists == {<<>>, <<Share(38, 32)>>, <<Share(36, 32)>>, <<Share(31, 32)>>,
             <<Share(38, 16)>>, <<Other(0), Share(38, 32)>>,
             <<Share(38, 32), Other(3)>>, <<Share(38, 32), Other(60)>>,
             <<Other(60), Share(38, 32)>>,
             <<Share(31, 32), Share(38, 32), Other(7)>>}

SuiteBlocks == {[cs |-> 0, suites |-> <<>>],
                [cs |-> 1, suites |-> <<"AES_128_GCM">>],
                [cs |-> 2, suites |-> <<"OTHER">>],
                [cs |-> 2, suites |-> <<"AES_128_GCM">>],
                [cs |-> 3, suites |-> <<"OTHER", "AES_256_GCM">>],
                [cs |-> 4, suites |-> <<"OTHER", "CHACHA20_POLY1305">>]}

Whole(sid, blk, comp, exts) ==
  LET h == [len |-> 0, sid |-> sid, cs |-> blk.cs, suites |-> blk.suites,
            comp |-> comp, total |-> 0, exts |-> exts]
  IN  [h EXCEPT !.total = BlockSize(h), !.len = FixedPart(h) + BlockSize(h)]

Wholes == {Whole(sid, blk, comp, exts) :
             sid \in {0, 32}, blk \in SuiteBlocks, comp \in {0, 1}, exts \in ExtLists}

\* Boundaries of a whole hello: after each field, inside the first extension's
\* header, after its key length and its key, and before the end.
Cuts(h) == {39, 40, 37 + h.sid, 39 + h.sid, 39 + h.sid + h.cs,
            FixedPart(h) - 2, FixedPart(h), FixedPart(h) + 5, FixedPart(h) + 10,
            FixedPart(h) + 42, h.len - 6, h.len}

Truncated(h) == {[h EXCEPT !.len = n] :
                   n \in {c + d : c \in Cuts(h), d \in {-1, 0}} \cap (0..h.len)}

Mislabelled(h) == {[h EXCEPT !.total = t] : t \in {0, 41, 42, h.total, h.total + 40}}

MCHelloSet  == UNION {Truncated(h) \cup Mislabelled(h) : h \in Wholes}
MCBehindSet == [cs: {0, 65535}, suite: {"AES_256_GCM", "OTHER"},
                comp: {0, 255}, key_len: {0, 32}]

==============================================================================

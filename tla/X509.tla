--------------------------------- MODULE X509 ---------------------------------
(***************************************************************************)
(* parser/source/x509.c: one x509_cert_t that is parsed into, freed and    *)
(* parsed into again, on top of the ASN.1 parser.  The tree lives from     *)
(* asn1_parse to the asn1_free at the end of x509_parse_certificate; the   *)
(* copy of the input in der_data lives until x509_free_certificate.        *)
(***************************************************************************)
EXTENDS Asn1

CONSTANTS
  Documents,   \* what the callers hand in
  MaxCalls,    \* bound on the calls of x509_parse_certificate
  SerialCap,   \* sizeof cert->serial_number, 20
  NameCap,     \* sizeof cert->issuer and cert->subject, 256
  KeyCap       \* sizeof cert->public_key and cert->signature, 256

ASSUME X509Assumption ==
  /\ Documents \subseteq Seq(Byte) \ {<<>>}
  /\ MaxCalls \in Nat
  /\ {SerialCap, NameCap, KeyCap} \subseteq Nat \ {0}

VARIABLES
  cert,      \* the caller's x509_cert_t
  copies,    \* the copies of the last call, see Copied
  der,       \* how many der_data blocks are allocated
  calls,     \* calls of x509_parse_certificate so far
  reused     \* history: calls that were given a cert with a der_data

x509 == <<cert, copies, der, calls, reused>>
vars == <<pc, parser, x509>>

Blank == [der_data |-> FALSE, serial_number |-> <<>>, issuer |-> <<>>,
          subject |-> <<>>, public_key |-> <<>>, signature |-> <<>>]

Value(n) == SubSeq(input, nodes[n].at + 1, EndOf(n))

\* A memcpy of count bytes out of the value of n, from its byte `from` on, to
\* offset `at` of a field that has `room` bytes for text.
Copied(n, from, count, at, room) ==
  [from |-> from, count |-> count, size |-> nodes[n].length, at |-> at, room |-> room]

-------------------------------------------------------------------------------
(* What is taken out of the tree.  Each operator yields the text stored and *)
(* the copies made for it.                                                  *)

Nothing == [text |-> <<>>, copies |-> {}]

\* Lines 28-32.
Serial(tbs) ==
  LET n     == asn1_find(tbs, ASN1_INTEGER)
      count == Min({nodes[n].length, SerialCap})
  IN  IF n = 0 THEN Nothing
      ELSE [text |-> SubSeq(Value(n), 1, count), copies |-> {Copied(n, 0, count, 0, SerialCap)}]

\* The strings the two loops of a name come by: the second child of each set,
\* where it is a PrintableString (lines 36-52).
Strings(n) ==
  LET sets == UNION {Range(nodes[m].kids) : m \in Following(n)}
  IN  {nodes[s].kids[2] : s \in {s \in sets : Len(nodes[s].kids) >= 2}}
        \cap {m \in 1..Len(nodes) : nodes[m].tag = ASN1_PRINTABLE_STRING}

\* Lines 43-47.
room_for_text_only(len, copy_len) == len + copy_len <= NameCap   \* variant

HasRoom(len, copy_len) == len + copy_len + 1 < NameCap

\* Lines 34-54 and 56-76: the strings that fit, each with a '/' behind it, in the
\* order of the tree, which is that of the numbers; in the end without the last '/'.
Name(n) ==
  LET strings == IF n = 0 THEN {} ELSE Strings(n)
      name[i \in 0..Len(nodes)] ==
        IF i = 0 THEN Nothing
        ELSE LET text == name[i - 1].text
             IN  IF i \in strings /\ HasRoom(Len(text), nodes[i].length)
                 THEN [text   |-> text \o Value(i) \o <<47>>,
                       copies |-> name[i - 1].copies
                                    \cup {Copied(i, 0, nodes[i].length, Len(text), NameCap - 1)}]
                 ELSE name[i - 1]
      all == name[Len(nodes)]
  IN  [all EXCEPT !.text = SubSeq(@, 1, Len(@) - 1)]

\* Lines 79-84 and 87-92.  length - 1 is a size_t; the text is as much of the
\* copy as lies in the value.
KeyBytes(n) ==
  LET count == IF nodes[n].length = 0 THEN KeyCap ELSE Min({nodes[n].length - 1, KeyCap})
  IN  [text   |-> SubSeq(Value(n), 2, Min({1 + count, nodes[n].length})),
       copies |-> {Copied(n, 1, count, 0, KeyCap)}]

\* Lines 28-92, for a tree whose first SEQUENCE is tbs.
Extracted(tbs) ==
  LET later   == Following(tbs) \ {tbs}
      next    == IF later = {} THEN tbs ELSE Min(later)
      pub_key == asn1_find(root, ASN1_BIT_STRING)
      sig     == asn1_find(root, ASN1_BIT_STRING)
  IN  [serial_number |-> Serial(tbs),
       issuer        |-> Name(asn1_find(tbs, ASN1_SEQUENCE)),
       subject       |-> Name(asn1_find(next, ASN1_SEQUENCE)),
       public_key    |-> IF pub_key = 0 THEN Nothing ELSE KeyBytes(pub_key),
       signature     |-> IF sig = 0 \/ sig = pub_key THEN Nothing ELSE KeyBytes(sig)]

-------------------------------------------------------------------------------
(* Calls *)

\* Lines 7-17 as far as the call of asn1_parse.  A der_data that was still in
\* cert is forgotten.
x509_parse_certificate(d) ==
  /\ pc = "idle" /\ calls < MaxCalls
  /\ asn1_parse(d)
  /\ cert' = [Blank EXCEPT !.der_data = TRUE]
  /\ der' = der + 1
  /\ reused' = IF cert.der_data THEN reused + 1 ELSE reused
  /\ calls' = calls + 1 /\ copies' = {}
  /\ UNCHANGED live

\* Line 12.
der_data_unavailable ==
  /\ pc = "idle" /\ calls < MaxCalls /\ AllocMayFail
  /\ cert' = Blank
  /\ reused' = IF cert.der_data THEN reused + 1 ELSE reused
  /\ calls' = calls + 1 /\ copies' = {}
  /\ UNCHANGED <<pc, parser, der>>

\* x509_parse_certificate returns; the parser's variables are no more.
Returns ==
  /\ pc' = "idle" /\ pos' = 0 /\ root' = 0 /\ starved' = FALSE
  /\ input' = <<>> /\ stack' = <<>> /\ nodes' = <<>>
  /\ UNCHANGED <<der, calls, reused>>

\* Lines 17-20.
parse_failed ==
  /\ pc = "parsed" /\ root = 0
  /\ Returns
  /\ UNCHANGED <<live, cert, copies>>

\* Lines 22-26.
no_sequence ==
  /\ pc = "parsed" /\ root # 0
  /\ asn1_find(root, ASN1_SEQUENCE) = 0
  /\ live' = asn1_free(root)
  /\ Returns
  /\ UNCHANGED <<cert, copies>>

\* Lines 28-95.
extract ==
  /\ pc = "parsed" /\ root # 0
  /\ LET tbs == asn1_find(root, ASN1_SEQUENCE)
         got == Extracted(tbs)
     IN  /\ tbs # 0
         /\ cert' = [f \in DOMAIN cert |-> IF f = "der_data" THEN cert[f] ELSE got[f].text]
         /\ copies' = UNION {got[f].copies : f \in DOMAIN got}
  /\ live' = asn1_free(root)
  /\ Returns

\* A cert without der_data is left as it is.
x509_free_certificate ==
  /\ pc = "idle"
  /\ IF cert.der_data THEN der' = der - 1 /\ cert' = Blank ELSE UNCHANGED <<der, cert>>
  /\ copies' = {}
  /\ UNCHANGED <<pc, parser, calls, reused>>

Init ==
  /\ pc = "idle" /\ input = <<>> /\ pos = 0 /\ stack = <<>> /\ nodes = <<>>
  /\ root = 0 /\ live = {} /\ starved = FALSE
  /\ cert = Blank /\ copies = {} /\ der = 0 /\ calls = 0 /\ reused = 0

Next ==
  \/ \E d \in Documents : x509_parse_certificate(d)
  \/ der_data_unavailable
  \/ ParserStep /\ UNCHANGED x509
  \/ parse_failed \/ no_sequence \/ extract
  \/ x509_free_certificate

Spec == Init /\ [][Next]_vars

\* asn1_parse runs on in one thread until it returns.
FairSpec == Spec /\ WF_vars(ParserStep /\ UNCHANGED x509)

===============================================================================

-------------------------------- MODULE MCX509 --------------------------------
(***************************************************************************)
(* Inputs for the certificate parser: every short string over the bytes    *)
(* that make a difference to it, and small certificates whole, cut and     *)
(* with one byte changed.                                                  *)
(***************************************************************************)
EXTENDS X509Properties

\* INTEGER, BIT STRING, SEQUENCE, lengths 0 to 3, and the long form with 0, 1
\* and 5 bytes of length.
Short == UNION {[1..n -> {0, 1, 2, 3, 48, 128, 129, 133}] : n \in 1..3}
           \cup [1..5 -> {0, 1, 2, 48}]

Enc(tag, content) == <<tag, Len(content)>> \o content
EncLong(tag, content) == <<tag, 129, Len(content)>> \o content
EncLonger(tag, content) == <<tag, 130, 0, Len(content)>> \o content

Integer(n)    == Enc(ASN1_INTEGER, [i \in 1..n |-> i])
Bits(n)       == Enc(ASN1_BIT_STRING, [i \in 1..n |-> i - 1])
Attribute(n)  == Enc(49, Enc(6, <<85>>) \o Enc(ASN1_PRINTABLE_STRING, [i \in 1..n |-> 64 + i]))

\* Two names, the first with strings that fill the field exactly, that are one
\* byte too long, and that fit one behind the other.
Certificate(a, b, bits) ==
  Enc(ASN1_SEQUENCE, Attribute(a) \o Attribute(b) \o Enc(ASN1_SEQUENCE, Attribute(2))
                       \o Integer(4) \o bits)

\* The first SEQUENCE is not the root and has something behind it.
Wrapped == Enc(49, EncLong(ASN1_SEQUENCE, Integer(1)) \o EncLonger(48, Attribute(1)) \o Bits(5))

Whole ==
  {Certificate(a, b, bits) : a \in {1, 4, 5, 6}, b \in {1, 2}, bits \in {<<>>, Bits(1), Bits(2), Bits(6)}}
  \cup {Wrapped, Integer(1), Enc(49, Integer(2) \o Bits(1)), Integer(1) \o Integer(1)}

\* One byte of a certificate is another.
Patched == {[Wrapped EXCEPT ![i] = b] : i \in 1..Len(Wrapped), b \in {0, 2, 48, 129}}

MCDocuments == Short \cup Whole \cup Patched
                 \cup {SubSeq(d, 1, n) : d \in {Wrapped, Certificate(1, 1, Bits(2))}, n \in 1..25}

===============================================================================

------------------------------ MODULE X509Proofs ------------------------------
(***************************************************************************)
(* What holds of the certificate parser for every set of documents, every  *)
(* bound on the calls and every size of the fields.                        *)
(***************************************************************************)
EXTENDS X509Properties, DataInduction, SequenceTheorems, TLAPS

Node == [tag : Byte, at : Nat, length : Nat, value : BOOLEAN, kids : Seq(Nat)]

-------------------------------------------------------------------------------
(* Reading a header *)

\* A byte is a number.
LEMMA ByteAt ==
  ASSUME NEW d \in Seq(Byte), NEW k \in 1..Len(d)
  PROVE  d[k] \in 0..255
<1>1. d[k] \in Byte
  OBVIOUS
<1> QED BY <1>1 DEF Byte

\* One of the digits of a length.
LEMMA DigitNat ==
  ASSUME NEW d \in Seq(Byte), NEW p \in Nat, NEW n \in 0..4, p + n <= Len(d),
         NEW j \in 0..3
  PROVE  (IF j >= n THEN 0 ELSE d[p + n - j]) \in Nat
<1>1. CASE j < n
  <2>1. p + n - j \in 1..Len(d)
    BY <1>1
  <2>2. d[p + n - j] \in 0..255
    BY <2>1, ByteAt, Zenon
  <2>3. \A i \in 0..255 : i \in Nat
    OBVIOUS
  <2> QED BY <1>1, <2>2, <2>3, Zenon
<1> QED BY <1>1

\* Four digits make a number that is not negative.
LEMMA BigEndianNat ==
  ASSUME NEW d \in Seq(Byte), NEW p \in Nat, NEW n \in 0..4, p + n <= Len(d)
  PROVE  BigEndian(d, p, n) \in Nat
<1> DEFINE byte(j) == IF j >= n THEN 0 ELSE d[p + n - j]
<1>1. byte(0) \in Nat /\ byte(1) \in Nat /\ byte(2) \in Nat /\ byte(3) \in Nat
  BY DigitNat
<1> HIDE DEF byte
<1>2. ASSUME NEW b0 \in Nat, NEW b1 \in Nat, NEW b2 \in Nat, NEW b3 \in Nat
      PROVE  Scaled(b0, b1, b2, b3) \in Nat
  BY DEF Scaled
<1>3. Scaled(byte(0), byte(1), byte(2), byte(3)) \in Nat
  BY <1>1, <1>2
<1> QED BY <1>3, Zenon DEF BigEndian, byte

\* A length that is read lies behind where it was looked for, and in the rest.
LEMMA LengthRead ==
  ASSUME NEW d \in Seq(Byte), NEW p \in Nat, NEW end \in 0..Len(d),
         NEW h \in asn1_read_length(d, p, end)
  PROVE  /\ h.length \in Nat /\ h.next \in Nat
         /\ p < h.next /\ h.next <= end
<1> DEFINE first == d[p + 1]
<1> DEFINE more  == first % 128
<1>1. p < end
  BY DEF asn1_read_length
<1>2. first \in 0..255
  <2>1. p + 1 \in 1..Len(d)
    BY <1>1
  <2> QED BY <2>1, ByteAt
<1>3. h \in IF first < 128 THEN {[length |-> first, next |-> p + 1]}
            ELSE IF more <= 4 /\ p + 1 + more <= end
                 THEN {[length |-> BigEndian(d, p + 1, more), next |-> p + 1 + more]}
                 ELSE {}
  BY <1>1, Zenon DEF asn1_read_length
<1> HIDE DEF first
<1>4. more \in 0..127
  BY <1>2
<1> HIDE DEF more
<1>5. CASE first < 128
  <2>1. h = [length |-> first, next |-> p + 1]
    BY <1>3, <1>5, Zenon
  <2> QED BY <2>1, <1>1, <1>2
<1>6. CASE ~(first < 128) /\ more <= 4 /\ p + 1 + more <= end
  <2>1. h = [length |-> BigEndian(d, p + 1, more), next |-> p + 1 + more]
    BY <1>3, <1>6, Zenon
  <2>2. more \in 0..4 /\ p + 1 \in Nat /\ p + 1 + more <= Len(d)
    BY <1>4, <1>6
  <2>3. BigEndian(d, p + 1, more) \in Nat
    BY <2>2, BigEndianNat
  <2> QED BY <2>1, <2>2, <2>3, <1>6
<1>7. CASE ~(first < 128) /\ ~(more <= 4 /\ p + 1 + more <= end)
  BY <1>3, <1>7, Zenon
<1> QED BY <1>5, <1>6, <1>7

\* The header at pos leaves its content inside the element that is open.
LEMMA HeaderInside ==
  ASSUME input \in Seq(Byte), pos \in Nat, End \in 0..Len(input), NEW h \in Header
  PROVE  /\ h.length \in Nat /\ h.next \in Nat
         /\ pos + 2 <= h.next /\ h.next + h.length <= End
<1>1. h \in asn1_read_length(input, pos + 1, End) /\ h.next + h.length <= End
  BY DEF Header
<1> QED BY <1>1, LengthRead

-------------------------------------------------------------------------------
(* The parser *)

ParserTypes ==
  /\ pc \in {"idle", "parse", "unwind", "parsed"}
  /\ input \in Seq(Byte) /\ pos \in Nat /\ starved \in BOOLEAN
  /\ nodes \in Seq(Node) /\ stack \in Seq(1..Len(nodes)) /\ root \in 0..Len(nodes)
  /\ live \subseteq {"node", "value"} \X Nat

\* Linking a node changes the children of the top of the stack, nothing else.
LEMMA LinkKeeps ==
  ASSUME NEW ns \in Seq(Node), NEW s \in Seq(1..Len(ns)), NEW n \in 1..Len(ns)
  PROVE  /\ Link(ns, n, s) \in Seq(Node) /\ Len(Link(ns, n, s)) = Len(ns)
         /\ \A i \in 1..Len(ns) :
              Link(ns, n, s)[i] =
                IF s # <<>> /\ i = Top(s)
                THEN [ns[i] EXCEPT !.kids = Append(ns[i].kids, n)] ELSE ns[i]
<1>1. CASE s = <<>>
  BY <1>1 DEF Link
<1>2. CASE s # <<>>
  <2>1. Top(s) \in 1..Len(ns)
    <3>1. Len(s) \in 1..Len(s)
      BY <1>2, EmptySeq
    <3> QED BY <3>1, ElementOfSeq DEF Top
  <2> DEFINE nd == [ns[Top(s)] EXCEPT !.kids = Append(ns[Top(s)].kids, n)]
  <2>2. ns[Top(s)] \in Node
    BY <2>1, ElementOfSeq
  <2>3. Append(ns[Top(s)].kids, n) \in Seq(Nat)
    <3>1. ns[Top(s)].kids \in Seq(Nat) /\ n \in Nat
      BY <2>2 DEF Node
    <3> QED BY <3>1, AppendProperties
  <2>4. nd \in Node
    BY <2>2, <2>3 DEF Node
  <2>5. Link(ns, n, s) = [ns EXCEPT ![Top(s)] = nd]
    BY <1>2 DEF Link
  <2> HIDE DEF nd
  <2>6. /\ Link(ns, n, s) \in Seq(Node) /\ Len(Link(ns, n, s)) = Len(ns)
        /\ \A i \in 1..Len(ns) : Link(ns, n, s)[i] = IF i = Top(s) THEN nd ELSE ns[i]
    BY <2>1, <2>4, <2>5, ExceptSeq
  <2> QED BY <1>2, <2>6 DEF nd
<1> QED BY <1>1, <1>2

\* The frames below the top are frames.
LEMMA BelowKeeps ==
  ASSUME NEW S, NEW s \in Seq(S), s # <<>>
  PROVE  /\ Below(s) \in Seq(S) /\ Len(Below(s)) = Len(s) - 1
         /\ \A i \in 1..(Len(s) - 1) : i \in 1..Len(s) /\ Below(s)[i] = s[i]
<1>1. Len(s) \in Nat \ {0}
  BY EmptySeq
<1>2. 1 \in Int /\ Len(s) - 1 \in Int /\ \A i \in 1..(Len(s) - 1) : s[i] \in S
  BY <1>1, ElementOfSeq
<1>3. PICK m \in Int, n \in Int : m = 1 /\ n = Len(s) - 1
  BY <1>2
<1>4. Below(s) = SubSeq(s, m, n)
  BY <1>3 DEF Below
<1>5. \A i \in m..n : s[i] \in S
  BY <1>2, <1>3
<1>6. /\ SubSeq(s, m, n) \in Seq(S)
      /\ Len(SubSeq(s, m, n)) = IF m <= n THEN n - m + 1 ELSE 0
      /\ \A i \in 1..(n - m + 1) : SubSeq(s, m, n)[i] = s[m + i - 1]
  BY <1>5, SubSeqProperties
<1> HIDE DEF Below
<1>7. \A i \in 1..(Len(s) - 1) : Below(s)[i] = s[i]
  BY <1>1, <1>3, <1>4, <1>6
<1> QED BY <1>1, <1>3, <1>4, <1>6, <1>7

\* The place where the innermost call stops is in the input, not behind pos.
LEMMA EndInside ==
  ASSUME ParserTypes, ReadsStayInside
  PROVE  End \in 0..Len(input) /\ pos <= End
<1>1. CASE stack = <<>>
  BY <1>1 DEF End, ParserTypes, ReadsStayInside
<1>2. CASE stack # <<>>
  <2>1. Len(stack) \in Frames /\ End = EndOf(stack[Len(stack)])
    BY <1>2 DEF End, Top, Frames, ParserTypes
  <2>2. stack[Len(stack)] \in 1..Len(nodes)
    BY <1>2 DEF ParserTypes
  <2>3. nodes[stack[Len(stack)]] \in Node
    BY <2>2 DEF ParserTypes
  <2>4. End \in Nat
    BY <2>1, <2>3 DEF EndOf, Node
  <2> QED BY <2>1, <2>4 DEF ReadsStayInside, ParserTypes
<1> QED BY <1>1, <1>2

\* A call begins at the first byte of something and has no tree yet.
CallBegins ==
  /\ pc = "parse" => input # <<>> /\ (stack = <<>> => pos = 0)
  /\ pc \in {"parse", "unwind"} => root = 0

ParserInv == ParserTypes /\ ReadsStayInside /\ CallBegins

\* At an element there is a byte left to read.
LEMMA ByteLeft ==
  ASSUME ParserInv, AtElement
  PROVE  pos + 1 \in 1..Len(input)
<1>1. pos <= End /\ End \in 0..Len(input) /\ pos \in Nat
  BY EndInside DEF ParserInv, ParserTypes
<1>2. Len(input) \in Nat \ {0}
  BY EmptySeq DEF ParserInv, ParserTypes, CallBegins, AtElement
<1> QED BY <1>1, <1>2 DEF AtElement, ParserInv, CallBegins

\* The node a header makes.
LEMMA NodeTyped ==
  ASSUME ParserInv, AtElement, NEW h \in Header
  PROVE  NewNode(h) \in Node /\ NewNode(h).at = h.next /\ NewNode(h).length = h.length
<1>1. End \in 0..Len(input)
  BY EndInside DEF ParserInv
<1>2. h.length \in Nat /\ h.next \in Nat
  BY <1>1, HeaderInside DEF ParserInv, ParserTypes
<1>3. input[pos + 1] \in Byte
  BY ByteLeft, ElementOfSeq DEF ParserInv, ParserTypes
<1>4. <<>> \in Seq(Nat)
  BY EmptySeq
<1> QED BY <1>2, <1>3, <1>4 DEF NewNode, Node

\* A frame ends where its node says, which is a number.
LEMMA FrameEnds ==
  ASSUME ParserTypes, NEW i \in Frames
  PROVE  /\ stack[i] \in 1..Len(nodes) /\ nodes[stack[i]] \in Node
         /\ EndOf(stack[i]) \in Nat
<1>1. stack[i] \in 1..Len(nodes)
  BY ElementOfSeq DEF ParserTypes, Frames
<1>2. nodes[stack[i]] \in Node
  BY <1>1, ElementOfSeq DEF ParserTypes
<1> QED BY <1>1, <1>2 DEF EndOf, Node

\* The innermost frame ends first.
LEMMA EndInnermost ==
  ASSUME ParserTypes, ReadsStayInside, NEW i \in Frames
  PROVE  End <= EndOf(stack[i])
<1>1. Len(stack) \in Frames /\ stack # <<>>
  BY EmptySeq DEF Frames, ParserTypes
<1>2. End = EndOf(stack[Len(stack)])
  BY <1>1 DEF End, Top
<1>3. i < Len(stack) \/ i = Len(stack)
  BY LenProperties DEF Frames, ParserTypes
<1>4. EndOf(stack[i]) \in Nat
  BY FrameEnds
<1> QED BY <1>1, <1>2, <1>3, <1>4 DEF ReadsStayInside

\* Opening an element: it lies in the one around it.
LEMMA OpenKeeps ==
  ASSUME ParserInv, open_constructed
  PROVE  ParserInv'
<1>1. PICK h \in Header :
        /\ nodes' = Append(nodes, NewNode(h)) /\ pos' = h.next
  BY DEF open_constructed
<1>2. AtElement /\ stack' = Append(stack, Len(nodes) + 1)
      /\ live' = live \cup {<<"node", Len(nodes) + 1>>}
      /\ UNCHANGED <<pc, input, root, starved>>
  BY DEF open_constructed
<1>3. End \in 0..Len(input) /\ pos <= End /\ pos \in Nat
  BY EndInside DEF ParserInv, ParserTypes
<1>4. h.length \in Nat /\ h.next \in Nat /\ pos + 2 <= h.next /\ h.next + h.length <= End
  BY <1>3, HeaderInside DEF ParserInv, ParserTypes
<1>5. /\ nodes' \in Seq(Node) /\ Len(nodes') = Len(nodes) + 1
      /\ \A i \in 1..Len(nodes) : nodes'[i] = nodes[i]
      /\ nodes'[Len(nodes) + 1] = NewNode(h)
  BY <1>1, <1>2, NodeTyped, AppendProperties DEF ParserInv, ParserTypes
<1>6. Len(nodes) \in Nat /\ Len(stack) \in Nat
  BY LenProperties DEF ParserInv, ParserTypes
<1>7. stack \in Seq(1..Len(nodes')) /\ Len(nodes) + 1 \in 1..Len(nodes')
  <2>1. 1..Len(nodes) \subseteq 1..Len(nodes')
    BY <1>5, <1>6
  <2> QED BY <2>1, <1>5, <1>6, SeqMonotonic DEF ParserInv, ParserTypes
<1>8. /\ stack' \in Seq(1..Len(nodes')) /\ Len(stack') = Len(stack) + 1
      /\ \A i \in Frames : stack'[i] = stack[i]
      /\ stack'[Len(stack) + 1] = Len(nodes) + 1
  BY <1>2, <1>7, AppendProperties DEF Frames
<1>9. ParserTypes'
  <2>1. root' \in 0..Len(nodes')
    BY <1>2, <1>5, <1>6 DEF ParserInv, ParserTypes
  <2>2. live' \subseteq {"node", "value"} \X Nat
    BY <1>2, <1>5, <1>6 DEF ParserInv, ParserTypes
  <2> QED BY <1>1, <1>2, <1>4, <1>5, <1>8, <2>1, <2>2 DEF ParserInv, ParserTypes
<1>10. \A i \in Frames : EndOf(stack[i])' = EndOf(stack[i]) /\ EndOf(stack[i]) \in Nat
  BY <1>5, <1>8, FrameEnds DEF ParserInv, EndOf
<1>11. \A i : i = Len(stack) + 1 => EndOf(stack[i])' = h.next + h.length
  BY <1>2, <1>5, <1>8, NodeTyped DEF EndOf
<1>12. \A i \in Frames : End <= EndOf(stack[i])
  BY EndInnermost DEF ParserInv
<1>13. ReadsStayInside'
  <2>1. pos' <= Len(input')
    BY <1>1, <1>2, <1>3, <1>4
  <2>2. \A i \in Frames' : i \in Frames \/ i = Len(stack) + 1
    BY <1>6, <1>8 DEF Frames
  <2>3. \A i \in Frames' : pos' <= EndOf(stack[i])' /\ EndOf(stack[i])' <= Len(input')
    <3> TAKE i \in Frames'
    <3>1. CASE i \in Frames
      <4>1. End <= EndOf(stack[i]) /\ EndOf(stack[i])' = EndOf(stack[i])
        BY <3>1, <1>10, <1>12
      <4>2. EndOf(stack[i]) <= Len(input) /\ EndOf(stack[i]) \in Nat
        BY <3>1, <1>10 DEF ParserInv, ReadsStayInside
      <4> QED BY <4>1, <4>2, <1>1, <1>2, <1>3, <1>4
    <3>2. CASE i = Len(stack) + 1
      BY <3>2, <1>1, <1>2, <1>3, <1>4, <1>11
    <3> QED BY <2>2, <3>1, <3>2
  <2>4. ASSUME NEW i \in Frames', NEW j \in Frames', i < j
        PROVE  EndOf(stack[j])' <= EndOf(stack[i])'
    <3>1. i \in Frames
      BY <2>4, <1>6, <1>8 DEF Frames
    <3>2. CASE j \in Frames
      BY <3>1, <3>2, <2>4, <1>10 DEF ParserInv, ReadsStayInside
    <3>3. CASE j = Len(stack) + 1
      <4>1. End <= EndOf(stack[i]) /\ EndOf(stack[i])' = EndOf(stack[i])
        BY <3>1, <1>10, <1>12
      <4> QED BY <4>1, <3>1, <3>3, <1>3, <1>4, <1>10, <1>11
    <3> QED BY <2>2, <3>2, <3>3
  <2>5. 2 * Len(stack') <= pos'
    BY <1>1, <1>3, <1>4, <1>6, <1>8 DEF ParserInv, ReadsStayInside
  <2> QED BY <2>1, <2>3, <2>4, <2>5 DEF ReadsStayInside
<1>14. CallBegins'
  <2>1. stack' # <<>>
    BY <1>6, <1>8, EmptySeq
  <2> QED BY <2>1, <1>2 DEF CallBegins, ParserInv
<1> QED BY <1>9, <1>13, <1>14 DEF ParserInv

\* A primitive element: pos moves to its end.
LEMMA PrimitiveKeeps ==
  ASSUME ParserInv, parse_primitive
  PROVE  ParserInv'
<1> DEFINE n == Len(nodes) + 1
<1>1. PICK h \in Header :
        /\ nodes' = Link(Append(nodes, NewNode(h)), n, stack)
        /\ pos' = h.next + h.length
  BY DEF parse_primitive
<1>2. /\ AtElement /\ pc = "parse"
      /\ live' = live \cup {<<"node", n>>, <<"value", n>>}
      /\ root' = IF stack = <<>> THEN n ELSE root
      /\ pc' = IF stack = <<>> THEN "parsed" ELSE "parse"
      /\ UNCHANGED <<input, stack, starved>>
  BY DEF parse_primitive, Complete, AtElement
<1>3. End \in 0..Len(input) /\ pos <= End /\ pos \in Nat
  BY EndInside DEF ParserInv, ParserTypes
<1>4. h.length \in Nat /\ h.next \in Nat /\ pos + 2 <= h.next /\ h.next + h.length <= End
  BY <1>3, HeaderInside DEF ParserInv, ParserTypes
<1> DEFINE ns == Append(nodes, NewNode(h))
<1>5. /\ ns \in Seq(Node) /\ Len(ns) = Len(nodes) + 1
      /\ \A i \in 1..Len(nodes) : ns[i] = nodes[i]
  BY <1>2, NodeTyped, AppendProperties DEF ParserInv, ParserTypes
<1>6. Len(nodes) \in Nat /\ Len(stack) \in Nat
  BY LenProperties DEF ParserInv, ParserTypes
<1> HIDE DEF ns
<1>7. stack \in Seq(1..Len(ns)) /\ n \in 1..Len(ns)
  <2>1. 1..Len(nodes) \subseteq 1..Len(ns)
    BY <1>5, <1>6
  <2> QED BY <2>1, <1>5, <1>6, SeqMonotonic DEF ParserInv, ParserTypes
<1>8. /\ nodes' \in Seq(Node) /\ Len(nodes') = Len(ns)
      /\ \A i \in 1..Len(ns) : /\ nodes'[i].at = ns[i].at
                               /\ nodes'[i].length = ns[i].length
  <2>1. /\ Link(ns, n, stack) \in Seq(Node) /\ Len(Link(ns, n, stack)) = Len(ns)
        /\ \A i \in 1..Len(ns) : Link(ns, n, stack)[i] =
              IF stack # <<>> /\ i = Top(stack)
              THEN [ns[i] EXCEPT !.kids = Append(ns[i].kids, n)] ELSE ns[i]
    BY <1>5, <1>7, LinkKeeps
  <2>2. \A i \in 1..Len(ns) : ns[i] \in Node
    BY <1>5, ElementOfSeq
  <2>3. nodes' = Link(ns, n, stack)
    BY <1>1 DEF ns
  <2> QED BY <2>1, <2>2, <2>3 DEF Node
<1>9. ParserTypes'
  <2>1. root' \in 0..Len(nodes') /\ pc' \in {"parse", "parsed"}
    BY <1>2, <1>5, <1>6, <1>8 DEF ParserInv, ParserTypes
  <2>2. live' \subseteq {"node", "value"} \X Nat
    BY <1>2, <1>5, <1>6, <1>8 DEF ParserInv, ParserTypes
  <2>3. stack' \in Seq(1..Len(nodes')) /\ pos' \in Nat
    BY <1>1, <1>2, <1>4, <1>7, <1>8
  <2> QED BY <1>2, <1>8, <2>1, <2>2, <2>3 DEF ParserInv, ParserTypes
<1>10. \A i \in Frames : EndOf(stack[i])' = EndOf(stack[i]) /\ EndOf(stack[i]) \in Nat
  <2> TAKE i \in Frames
  <2>1. stack[i] \in 1..Len(nodes) /\ EndOf(stack[i]) \in Nat
    BY FrameEnds DEF ParserInv
  <2>2. stack[i] \in 1..Len(ns)
    BY <2>1, <1>5, <1>6
  <2> QED BY <2>1, <2>2, <1>2, <1>5, <1>8 DEF EndOf
<1>11. ReadsStayInside'
  <2>1. pos' <= Len(input')
    BY <1>1, <1>2, <1>3, <1>4
  <2>2. Frames' = Frames
    BY <1>2 DEF Frames
  <2>3. ASSUME NEW i \in Frames
        PROVE  pos' <= EndOf(stack[i])' /\ EndOf(stack[i])' <= Len(input')
    <3>1. End <= EndOf(stack[i]) /\ EndOf(stack[i])' = EndOf(stack[i])
      BY <1>10, EndInnermost DEF ParserInv
    <3>2. EndOf(stack[i]) <= Len(input) /\ EndOf(stack[i]) \in Nat
      BY <1>10 DEF ParserInv, ReadsStayInside
    <3> QED BY <3>1, <3>2, <1>1, <1>2, <1>3, <1>4
  <2>4. 2 * Len(stack') <= pos'
    BY <1>1, <1>2, <1>3, <1>4, <1>6 DEF ParserInv, ReadsStayInside
  <2> QED BY <2>1, <2>2, <2>3, <2>4, <1>10 DEF ReadsStayInside, ParserInv
<1>12. CallBegins'
  BY <1>2 DEF CallBegins, ParserInv
<1> QED BY <1>9, <1>11, <1>12 DEF ParserInv

\* Leaving an element, or a call, takes a frame away and moves nothing.
LEMMA LeavingKeeps ==
  ASSUME ParserInv, stack # <<>>, stack' = Below(stack), UNCHANGED <<input, pos>>,
         nodes' \in Seq(Node), Len(nodes') = Len(nodes),
         \A i \in 1..Len(nodes) : /\ nodes'[i].at = nodes[i].at
                                 /\ nodes'[i].length = nodes[i].length
  PROVE  stack' \in Seq(1..Len(nodes')) /\ ReadsStayInside'
<1>1. stack \in Seq(1..Len(nodes)) /\ Len(stack) \in Nat
  BY LenProperties DEF ParserInv, ParserTypes
<1>2. /\ stack' \in Seq(1..Len(nodes)) /\ Len(stack') = Len(stack) - 1
      /\ \A i \in 1..(Len(stack) - 1) : i \in 1..Len(stack) /\ stack'[i] = stack[i]
  BY <1>1, BelowKeeps
<1>3. Frames' \subseteq Frames
  BY <1>1, <1>2 DEF Frames
<1>4. \A i \in Frames' : EndOf(stack[i])' = EndOf(stack[i]) /\ EndOf(stack[i]) \in Nat
  <2> TAKE i \in Frames'
  <2>1. i \in Frames /\ stack'[i] = stack[i]
    BY <1>2, <1>3 DEF Frames
  <2>2. stack[i] \in 1..Len(nodes) /\ EndOf(stack[i]) \in Nat
    BY <2>1, FrameEnds DEF ParserInv
  <2> QED BY <2>1, <2>2 DEF EndOf
<1>5. 2 * Len(stack') <= pos'
  BY <1>1, <1>2 DEF ParserInv, ParserTypes, ReadsStayInside
<1>6. ReadsStayInside'
  BY <1>3, <1>4, <1>5 DEF ReadsStayInside, ParserInv
<1> QED BY <1>2, <1>6

LEMMA CloseKeeps ==
  ASSUME ParserInv, close_constructed
  PROVE  ParserInv'
<1>1. /\ pc = "parse" /\ stack # <<>> /\ stack' = Below(stack)
      /\ nodes' = Link(nodes, Top(stack), Below(stack))
      /\ UNCHANGED <<input, pos, live, starved>>
      /\ root' = IF Below(stack) = <<>> THEN Top(stack) ELSE root
      /\ pc' = IF Below(stack) = <<>> THEN "parsed" ELSE "parse"
  BY DEF close_constructed, Complete
<1>2. nodes \in Seq(Node) /\ stack \in Seq(1..Len(nodes)) /\ Len(nodes) \in Nat
  BY LenProperties DEF ParserInv, ParserTypes
<1>3. Below(stack) \in Seq(1..Len(nodes)) /\ Top(stack) \in 1..Len(nodes)
  <2>1. Len(stack) \in 1..Len(stack)
    BY <1>1, <1>2, EmptySeq
  <2> QED BY <1>1, <1>2, <2>1, BelowKeeps, ElementOfSeq DEF Top
<1>4. /\ nodes' \in Seq(Node) /\ Len(nodes') = Len(nodes)
      /\ \A i \in 1..Len(nodes) : /\ nodes'[i].at = nodes[i].at
                                  /\ nodes'[i].length = nodes[i].length
  <2>1. /\ nodes' \in Seq(Node) /\ Len(nodes') = Len(nodes)
        /\ \A i \in 1..Len(nodes) : nodes'[i] =
              IF Below(stack) # <<>> /\ i = Top(Below(stack))
              THEN [nodes[i] EXCEPT !.kids = Append(nodes[i].kids, Top(stack))]
              ELSE nodes[i]
    BY <1>1, <1>2, <1>3, LinkKeeps
  <2>2. \A i \in 1..Len(nodes) : nodes[i] \in Node
    BY <1>2, ElementOfSeq
  <2> QED BY <2>1, <2>2 DEF Node
<1>5. stack' \in Seq(1..Len(nodes')) /\ ReadsStayInside'
  BY <1>1, <1>4, LeavingKeeps
<1>6. ParserTypes'
  BY <1>1, <1>2, <1>3, <1>4, <1>5 DEF ParserTypes, ParserInv
<1>7. CallBegins'
  BY <1>1 DEF CallBegins, ParserInv
<1> QED BY <1>5, <1>6, <1>7 DEF ParserInv

\* Nothing but a failure is noted.
LEMMA FailureKeeps ==
  ASSUME ParserInv, node_refused \/ malloc_fails
  PROVE  ParserInv'
<1>1. /\ pc = "parse" /\ pc' = "unwind" /\ starved' \in BOOLEAN
      /\ UNCHANGED <<input, pos, stack, nodes, root, live>>
  BY DEF node_refused, malloc_fails, AtElement, parser, ParserInv, ParserTypes
<1>2. ParserTypes'
  BY <1>1 DEF ParserTypes, ParserInv
<1>3. ReadsStayInside'
  BY <1>1 DEF ReadsStayInside, Frames, EndOf, ParserInv
<1> QED BY <1>1, <1>2, <1>3 DEF ParserInv, CallBegins

LEMMA UnwindKeeps ==
  ASSUME ParserInv, unwind
  PROVE  ParserInv'
<1>1. pc = "unwind" /\ root = 0 /\ UNCHANGED <<input, pos, nodes, root, starved>>
  BY DEF unwind, ParserInv, CallBegins
<1>2. CASE stack = <<>>
  <2>1. pc' = "parsed" /\ UNCHANGED <<stack, live>>
    BY <1>2 DEF unwind
  <2> QED BY <1>1, <2>1 DEF ParserInv, ParserTypes, ReadsStayInside, Frames, EndOf, CallBegins
<1>3. CASE stack # <<>>
  <2>1. pc' = "unwind" /\ stack' = Below(stack) /\ live' \subseteq live
    BY <1>1, <1>3 DEF unwind, asn1_free, LeavesCall
  <2>2. stack' \in Seq(1..Len(nodes')) /\ ReadsStayInside'
    BY <1>1, <1>3, <2>1, LeavingKeeps DEF ParserInv, ParserTypes
  <2> QED BY <1>1, <2>1, <2>2 DEF ParserInv, ParserTypes, CallBegins
<1> QED BY <1>2, <1>3

LEMMA ParserKeeps ==
  ASSUME ParserInv, ParserStep
  PROVE  ParserInv'
BY OpenKeeps, PrimitiveKeeps, CloseKeeps, FailureKeeps, UnwindKeeps DEF ParserStep

-------------------------------------------------------------------------------
(* What a step does to the tree *)

LEMMA NodeFacts ==
  ASSUME ParserTypes, NEW n \in 1..Len(nodes)
  PROVE  /\ nodes[n] \in Node /\ nodes[n].tag \in Byte /\ nodes[n].at \in Nat
         /\ nodes[n].length \in Nat /\ nodes[n].value \in BOOLEAN
         /\ nodes[n].kids \in Seq(Nat) /\ Len(nodes[n].kids) \in Nat
         /\ EndOf(n) = nodes[n].at + nodes[n].length /\ EndOf(n) \in Nat
<1>1. nodes[n] \in Node
  BY ElementOfSeq DEF ParserTypes
<1>2. /\ nodes[n].tag \in Byte /\ nodes[n].at \in Nat /\ nodes[n].length \in Nat
      /\ nodes[n].value \in BOOLEAN /\ nodes[n].kids \in Seq(Nat)
  BY <1>1 DEF Node
<1> QED BY <1>1, <1>2, LenProperties DEF EndOf

\* A step leaves what is known of node i, but for its children.
Same(i) ==
  /\ nodes'[i].tag = nodes[i].tag /\ nodes'[i].at = nodes[i].at
  /\ nodes'[i].length = nodes[i].length /\ nodes'[i].value = nodes[i].value

\* The children of node i after n has been linked to the top of s.
KidsWith(i, n, s) ==
  IF s # <<>> /\ i = Top(s) THEN Append(nodes[i].kids, n) ELSE nodes[i].kids

LEMMA OpenStep ==
  ASSUME ParserInv, open_constructed
  PROVE  \E h \in Header :
           /\ AtElement /\ ~NewNode(h).value /\ pos' = h.next
           /\ Len(nodes') = Len(nodes) + 1 /\ nodes'[Len(nodes) + 1] = NewNode(h)
           /\ \A i \in 1..Len(nodes) : nodes'[i] = nodes[i]
           /\ Len(stack') = Len(stack) + 1 /\ stack'[Len(stack) + 1] = Len(nodes) + 1
           /\ \A i \in Frames : stack'[i] = stack[i]
           /\ live' = live \cup {<<"node", Len(nodes) + 1>>}
           /\ UNCHANGED <<pc, input, root, starved>>
<1>1. PICK h \in Header :
        /\ ~NewNode(h).value /\ nodes' = Append(nodes, NewNode(h)) /\ pos' = h.next
  BY DEF open_constructed
<1>2. /\ AtElement /\ stack' = Append(stack, Len(nodes) + 1)
      /\ live' = live \cup {<<"node", Len(nodes) + 1>>}
      /\ UNCHANGED <<pc, input, root, starved>>
  BY DEF open_constructed
<1>3. NewNode(h) \in Node
  BY <1>2, NodeTyped
<1>4. /\ Len(nodes') = Len(nodes) + 1 /\ nodes'[Len(nodes) + 1] = NewNode(h)
      /\ \A i \in 1..Len(nodes) : nodes'[i] = nodes[i]
  BY <1>1, <1>3, AppendProperties DEF ParserInv, ParserTypes
<1>5. stack \in Seq(Nat) /\ Len(nodes) + 1 \in Nat
  <2>1. 1..Len(nodes) \subseteq Nat
    OBVIOUS
  <2> QED BY <2>1, SeqMonotonic, LenProperties DEF ParserInv, ParserTypes
<1>6. /\ Len(stack') = Len(stack) + 1 /\ stack'[Len(stack) + 1] = Len(nodes) + 1
      /\ \A i \in Frames : stack'[i] = stack[i]
  BY <1>2, <1>5, AppendProperties DEF Frames
<1> QED BY <1>1, <1>2, <1>4, <1>6

LEMMA PrimitiveStep ==
  ASSUME ParserInv, parse_primitive
  PROVE  \E h \in Header :
           /\ AtElement /\ NewNode(h).value /\ Allocatable(h.length)
           /\ pos' = h.next + h.length
           /\ Len(nodes') = Len(nodes) + 1 /\ nodes'[Len(nodes) + 1] = NewNode(h)
           /\ \A i \in 1..Len(nodes) :
                Same(i) /\ nodes'[i].kids = KidsWith(i, Len(nodes) + 1, stack)
           /\ live' = live \cup {<<"node", Len(nodes) + 1>>, <<"value", Len(nodes) + 1>>}
           /\ Complete(Len(nodes) + 1, stack)
           /\ UNCHANGED <<input, stack, starved>>
<1> DEFINE n == Len(nodes) + 1
<1>1. PICK h \in Header :
        /\ NewNode(h).value /\ Allocatable(h.length)
        /\ nodes' = Link(Append(nodes, NewNode(h)), n, stack)
        /\ pos' = h.next + h.length
  BY DEF parse_primitive
<1>2. /\ AtElement /\ live' = live \cup {<<"node", n>>, <<"value", n>>}
      /\ Complete(n, stack) /\ UNCHANGED <<input, stack, starved>>
  BY DEF parse_primitive
<1>3. NewNode(h) \in Node
  BY <1>2, NodeTyped
<1> DEFINE ns == Append(nodes, NewNode(h))
<1>4. /\ ns \in Seq(Node) /\ Len(ns) = n /\ ns[n] = NewNode(h)
      /\ \A i \in 1..Len(nodes) : ns[i] = nodes[i]
  BY <1>3, AppendProperties DEF ParserInv, ParserTypes
<1>5. Len(nodes) \in Nat
  BY LenProperties DEF ParserInv, ParserTypes
<1> HIDE DEF ns
<1>6. stack \in Seq(1..Len(ns)) /\ n \in 1..Len(ns)
  <2>1. 1..Len(nodes) \subseteq 1..Len(ns)
    BY <1>4, <1>5
  <2> QED BY <2>1, <1>4, <1>5, SeqMonotonic DEF ParserInv, ParserTypes
<1>7. stack # <<>> => Top(stack) \in 1..Len(nodes)
  <2> SUFFICES ASSUME stack # <<>> PROVE Top(stack) \in 1..Len(nodes)
    OBVIOUS
  <2>1. Len(stack) \in 1..Len(stack)
    BY EmptySeq, LenProperties DEF ParserInv, ParserTypes
  <2> QED BY <2>1, ElementOfSeq DEF Top, ParserInv, ParserTypes
<1>8. /\ Len(nodes') = n
      /\ \A i \in 1..Len(ns) : nodes'[i] =
            IF stack # <<>> /\ i = Top(stack)
            THEN [ns[i] EXCEPT !.kids = Append(ns[i].kids, n)] ELSE ns[i]
  <2>1. nodes' = Link(ns, n, stack)
    BY <1>1 DEF ns
  <2>2. Len(ns) = n
    BY <1>4
  <2> HIDE DEF n
  <2>3. /\ Len(Link(ns, n, stack)) = Len(ns)
        /\ \A i \in 1..Len(ns) : Link(ns, n, stack)[i] =
              IF stack # <<>> /\ i = Top(stack)
              THEN [ns[i] EXCEPT !.kids = Append(ns[i].kids, n)] ELSE ns[i]
    BY <1>4, <1>6, LinkKeeps
  <2> QED BY <2>1, <2>2, <2>3
<1>9. nodes'[n] = NewNode(h)
  BY <1>4, <1>5, <1>6, <1>7, <1>8
<1>10. ASSUME NEW i \in 1..Len(nodes)
       PROVE  Same(i) /\ nodes'[i].kids = KidsWith(i, n, stack)
  <2>1. i \in 1..Len(ns) /\ ns[i] = nodes[i] /\ nodes[i] \in Node
    BY <1>4, <1>5, NodeFacts DEF ParserInv
  <2>2. nodes'[i] = IF stack # <<>> /\ i = Top(stack)
                    THEN [nodes[i] EXCEPT !.kids = Append(nodes[i].kids, n)] ELSE nodes[i]
    BY <1>8, <2>1
  <2> HIDE DEF n
  <2> QED BY <2>1, <2>2 DEF Same, KidsWith, Node
<1> QED BY <1>1, <1>2, <1>8, <1>9, <1>10

LEMMA CloseStep ==
  ASSUME ParserInv, close_constructed
  PROVE  /\ pc = "parse" /\ stack # <<>> /\ pos = End
         /\ Len(nodes') = Len(nodes)
         /\ \A i \in 1..Len(nodes) :
              Same(i) /\ nodes'[i].kids = KidsWith(i, Top(stack), Below(stack))
         /\ stack' = Below(stack) /\ Complete(Top(stack), Below(stack))
         /\ Top(stack) \in 1..Len(nodes)
         /\ UNCHANGED <<input, pos, live, starved>>
<1>1. /\ pc = "parse" /\ stack # <<>> /\ pos = End
      /\ nodes' = Link(nodes, Top(stack), Below(stack))
      /\ stack' = Below(stack) /\ Complete(Top(stack), Below(stack))
      /\ UNCHANGED <<input, pos, live, starved>>
  BY DEF close_constructed
<1>2. nodes \in Seq(Node) /\ stack \in Seq(1..Len(nodes))
  BY DEF ParserInv, ParserTypes
<1>3. Below(stack) \in Seq(1..Len(nodes)) /\ Top(stack) \in 1..Len(nodes)
  <2>1. Len(stack) \in 1..Len(stack)
    BY <1>1, <1>2, EmptySeq, LenProperties
  <2> QED BY <1>1, <1>2, <2>1, BelowKeeps, ElementOfSeq DEF Top
<1>4. /\ Len(nodes') = Len(nodes)
      /\ \A i \in 1..Len(nodes) : nodes'[i] =
              IF Below(stack) # <<>> /\ i = Top(Below(stack))
              THEN [nodes[i] EXCEPT !.kids = Append(nodes[i].kids, Top(stack))]
              ELSE nodes[i]
  BY <1>1, <1>2, <1>3, LinkKeeps
<1>5. ASSUME NEW i \in 1..Len(nodes)
      PROVE  Same(i) /\ nodes'[i].kids = KidsWith(i, Top(stack), Below(stack))
  <2>1. nodes[i] \in Node
    BY NodeFacts DEF ParserInv
  <2> QED BY <1>4, <2>1 DEF Same, KidsWith, Node
<1> QED BY <1>1, <1>3, <1>4, <1>5

-------------------------------------------------------------------------------
(* The numbers of the nodes *)

\* A node lies in the input, is a value or a list of later nodes, and a value
\* has content.
NodeFits(n) ==
  /\ EndOf(n) <= Len(input)
  /\ nodes[n].value <=> ~Constructed(nodes[n].tag)
  /\ nodes[n].value => nodes[n].length > 0 /\ nodes[n].kids = <<>>
  /\ \A i \in 1..Len(nodes[n].kids) : nodes[n].kids[i] \in (n + 1)..Len(nodes)

\* The nodes whose children are being read were made one after the other.
StackClimbs ==
  /\ \A i, j \in Frames : i < j => stack[i] < stack[j]
  /\ \A i \in Frames : ~nodes[stack[i]].value
  /\ pc = "idle" => nodes = <<>> /\ root = 0
  /\ pc \in {"idle", "parsed"} => stack = <<>>

Numbered == (\A n \in 1..Len(nodes) : NodeFits(n)) /\ StackClimbs

LEMMA NodeFitsKept ==
  ASSUME NEW i \in 1..Len(nodes), NEW m,
         ParserInv, NodeFits(i), UNCHANGED input, Same(i),
         Len(nodes') \in Nat, Len(nodes') >= Len(nodes),
         \/ nodes'[i].kids = nodes[i].kids
         \/ /\ nodes'[i].kids = Append(nodes[i].kids, m)
            /\ m \in (i + 1)..Len(nodes') /\ ~nodes[i].value
  PROVE  NodeFits(i)'
<1>1. EndOf(i)' = EndOf(i)
  BY DEF Same, EndOf
<1>2. /\ nodes[i].kids \in Seq(Nat) /\ Len(nodes[i].kids) \in Nat /\ Len(nodes) \in Nat
      /\ \A k \in 1..Len(nodes[i].kids) : nodes[i].kids[k] \in (i + 1)..Len(nodes)
  BY NodeFacts, LenProperties DEF ParserInv, ParserTypes, NodeFits
<1>3. \A x : x \in (i + 1)..Len(nodes) => x \in (i + 1)..Len(nodes')
  BY <1>2
<1>4. CASE nodes'[i].kids = nodes[i].kids
  <2>1. \A k \in 1..Len(nodes'[i].kids) : nodes'[i].kids[k] \in (i + 1)..Len(nodes')
    BY <1>2, <1>3, <1>4
  <2> QED BY <1>1, <1>4, <2>1 DEF NodeFits, Same
<1>5. CASE /\ nodes'[i].kids = Append(nodes[i].kids, m)
           /\ m \in (i + 1)..Len(nodes') /\ ~nodes[i].value
  <2>1. m \in Nat
    BY <1>5
  <2>2. /\ Len(nodes'[i].kids) = Len(nodes[i].kids) + 1
        /\ nodes'[i].kids[Len(nodes[i].kids) + 1] = m
        /\ \A k \in 1..Len(nodes[i].kids) : nodes'[i].kids[k] = nodes[i].kids[k]
    BY <1>2, <1>5, <2>1, AppendProperties
  <2>3. \A k \in 1..Len(nodes'[i].kids) : k \in 1..Len(nodes[i].kids) \/ k = Len(nodes[i].kids) + 1
    BY <1>2, <2>2
  <2>4. \A k \in 1..Len(nodes'[i].kids) : nodes'[i].kids[k] \in (i + 1)..Len(nodes')
    BY <1>2, <1>3, <1>5, <2>2, <2>3
  <2> QED BY <1>1, <1>5, <2>4 DEF NodeFits, Same
<1> QED BY <1>4, <1>5

\* The node a header makes fits.
LEMMA NewNodeFits ==
  ASSUME ParserInv, AtElement, NEW h \in Header, UNCHANGED input,
         NEW n, n = Len(nodes'), nodes'[n] = NewNode(h),
         NewNode(h).value => h.length > 0
  PROVE  NodeFits(n)'
<1>1. End \in 0..Len(input) /\ input \in Seq(Byte) /\ pos \in Nat
  BY EndInside DEF ParserInv, ParserTypes
<1>2. h.length \in Nat /\ h.next \in Nat /\ h.next + h.length <= Len(input)
  BY <1>1, HeaderInside
<1>3. /\ nodes'[n].tag = input[pos + 1] /\ nodes'[n].at = h.next /\ nodes'[n].length = h.length
      /\ nodes'[n].value = ~Constructed(input[pos + 1]) /\ nodes'[n].kids = <<>>
  BY DEF NewNode
<1>4. Len(<<>>) = 0
  BY EmptySeq
<1>5. \A i \in 1..Len(nodes'[n].kids) : nodes'[n].kids[i] \in (n + 1)..Len(nodes')
  BY <1>3, <1>4
<1>6. EndOf(n)' <= Len(input')
  BY <1>2, <1>3 DEF EndOf
<1>7. nodes'[n].value => nodes'[n].length > 0 /\ nodes'[n].kids = <<>>
  BY <1>3
<1>8. nodes'[n].value <=> ~Constructed(nodes'[n].tag)
  BY <1>3
<1> QED BY <1>5, <1>6, <1>7, <1>8 DEF NodeFits

\* The top of the stack is a frame, and the last made of them.
LEMMA TopFacts ==
  ASSUME ParserInv, StackClimbs, stack # <<>>
  PROVE  /\ Len(stack) \in Frames /\ Top(stack) = stack[Len(stack)]
         /\ Top(stack) \in 1..Len(nodes) /\ ~nodes[Top(stack)].value
         /\ \A i \in Frames : i # Len(stack) => stack[i] < Top(stack)
<1>1. Len(stack) \in Nat \ {0} /\ stack \in Seq(1..Len(nodes))
  BY EmptySeq, LenProperties DEF ParserInv, ParserTypes
<1>2. Len(stack) \in Frames
  BY <1>1 DEF Frames
<1>3. \A i \in Frames : i # Len(stack) => i < Len(stack)
  BY <1>1 DEF Frames
<1>4. stack[Len(stack)] \in 1..Len(nodes)
  BY <1>1, <1>2, ElementOfSeq DEF Frames
<1> QED BY <1>2, <1>3, <1>4 DEF Top, StackClimbs

LEMMA OpenNumbers ==
  ASSUME ParserInv, Numbered, open_constructed
  PROVE  Numbered'
<1> DEFINE n == Len(nodes) + 1
           f == Len(stack) + 1
<1>1. PICK h \in Header :
        /\ AtElement /\ ~NewNode(h).value /\ pos' = h.next
        /\ Len(nodes') = n /\ nodes'[n] = NewNode(h)
        /\ \A i \in 1..Len(nodes) : nodes'[i] = nodes[i]
        /\ Len(stack') = f /\ stack'[f] = n
        /\ \A i \in Frames : stack'[i] = stack[i]
        /\ UNCHANGED <<pc, input, root, starved>>
  BY OpenStep
<1>2. Len(nodes) \in Nat /\ Len(stack) \in Nat
  BY LenProperties DEF ParserInv, ParserTypes
<1>3. ASSUME NEW i \in 1..n PROVE NodeFits(i)'
  <2>1. CASE i = n
    BY <1>1, <2>1, NewNodeFits
  <2>2. CASE i \in 1..Len(nodes)
    <3>1. nodes'[i].kids = nodes[i].kids /\ Same(i)
      BY <1>1, <2>2 DEF Same
    <3>2. Len(nodes') \in Nat /\ Len(nodes') >= Len(nodes) /\ NodeFits(i) /\ input' = input
      BY <1>1, <1>2, <2>2 DEF Numbered
    <3> QED BY <2>2, <3>1, <3>2, NodeFitsKept
  <2> QED BY <1>2, <2>1, <2>2
<1>4. \A i \in Frames' : i = f \/ i \in Frames
  BY <1>1, <1>2 DEF Frames
<1>5. \A i \in Frames : stack[i] \in 1..Len(nodes) /\ i < f
  BY <1>2, ElementOfSeq DEF ParserInv, ParserTypes, Frames
<1>6. ASSUME NEW i \in Frames', NEW j \in Frames', i < j
      PROVE  stack'[i] < stack'[j]
  <2>1. i \in Frames
    BY <1>1, <1>2, <1>6 DEF Frames
  <2>2. CASE j \in Frames
    BY <1>1, <1>6, <2>1, <2>2 DEF Numbered, StackClimbs
  <2>3. CASE j = f
    BY <1>1, <1>2, <1>5, <2>1, <2>3
  <2> QED BY <1>4, <2>2, <2>3
<1>7. ASSUME NEW i \in Frames' PROVE ~nodes'[stack'[i]].value
  <2>1. CASE i = f
    BY <1>1, <2>1
  <2>2. CASE i \in Frames
    BY <1>1, <1>5, <2>2 DEF Numbered, StackClimbs
  <2> QED BY <1>4, <2>1, <2>2
<1>8. pc' = "parse"
  BY <1>1 DEF AtElement
<1> QED BY <1>1, <1>3, <1>6, <1>7, <1>8 DEF Numbered, StackClimbs

LEMMA PrimitiveNumbers ==
  ASSUME ParserInv, Numbered, parse_primitive
  PROVE  Numbered'
<1> DEFINE n == Len(nodes) + 1
<1>1. PICK h \in Header :
        /\ AtElement /\ NewNode(h).value /\ Allocatable(h.length)
        /\ Len(nodes') = n /\ nodes'[n] = NewNode(h)
        /\ \A i \in 1..Len(nodes) : Same(i) /\ nodes'[i].kids = KidsWith(i, n, stack)
        /\ Complete(n, stack)
        /\ UNCHANGED <<input, stack, starved>>
  BY PrimitiveStep
<1>2. Len(nodes) \in Nat /\ Len(stack) \in Nat
  BY LenProperties DEF ParserInv, ParserTypes
<1>3. ASSUME NEW i \in 1..n PROVE NodeFits(i)'
  <2>1. CASE i = n
    BY <1>1, <2>1, NewNodeFits DEF Allocatable
  <2>2. CASE i \in 1..Len(nodes)
    <3>1. /\ Len(nodes') \in Nat /\ Len(nodes') >= Len(nodes) /\ NodeFits(i) /\ input' = input
          /\ Same(i) /\ nodes'[i].kids = KidsWith(i, n, stack) /\ n \in (i + 1)..Len(nodes')
      BY <1>1, <1>2, <2>2 DEF Numbered
    <3>2. \/ nodes'[i].kids = nodes[i].kids
          \/ nodes'[i].kids = Append(nodes[i].kids, n) /\ ~nodes[i].value
      BY <3>1, TopFacts DEF KidsWith, Numbered
    <3> QED BY <2>2, <3>1, <3>2, NodeFitsKept
  <2> QED BY <1>2, <2>1, <2>2
<1>4. Frames' = Frames /\ stack' = stack
  BY <1>1 DEF Frames
<1>5. \A i \in Frames : ~nodes'[stack[i]].value
  <2>1. \A i \in Frames : stack[i] \in 1..Len(nodes)
    BY FrameEnds DEF ParserInv
  <2> QED BY <1>1, <2>1 DEF Same, Numbered, StackClimbs
<1>6. pc' \in {"parse", "parsed"} /\ (pc' = "parsed" => stack' = <<>>)
  BY <1>1 DEF Complete
<1> QED BY <1>1, <1>3, <1>4, <1>5, <1>6 DEF Numbered, StackClimbs

\* Leaving a call: what was below the top climbs.
LEMMA BelowClimbs ==
  ASSUME ParserInv, Numbered, stack # <<>>, stack' = Below(stack),
         \A i \in 1..Len(nodes) : nodes'[i].value = nodes[i].value
  PROVE  /\ \A i, j \in Frames' : i < j => stack'[i] < stack'[j]
         /\ \A i \in Frames' : ~nodes'[stack'[i]].value
         /\ \A i \in Frames' : i \in Frames /\ i # Len(stack) /\ stack'[i] = stack[i]
         /\ Len(stack') = Len(stack) - 1
<1>1. stack \in Seq(1..Len(nodes)) /\ Len(stack) \in Nat
  BY LenProperties DEF ParserInv, ParserTypes
<1>2. /\ Len(stack') = Len(stack) - 1
      /\ \A i \in 1..(Len(stack) - 1) : i \in 1..Len(stack) /\ stack'[i] = stack[i]
  BY <1>1, BelowKeeps
<1>3. \A i \in Frames' : i \in Frames /\ i # Len(stack) /\ stack'[i] = stack[i]
  BY <1>1, <1>2 DEF Frames
<1>4. \A i \in Frames : stack[i] \in 1..Len(nodes)
  BY FrameEnds DEF ParserInv
<1> QED BY <1>2, <1>3, <1>4 DEF Numbered, StackClimbs

LEMMA CloseNumbers ==
  ASSUME ParserInv, Numbered, close_constructed
  PROVE  Numbered'
<1>1. /\ pc = "parse" /\ stack # <<>> /\ Len(nodes') = Len(nodes)
      /\ \A i \in 1..Len(nodes) :
           Same(i) /\ nodes'[i].kids = KidsWith(i, Top(stack), Below(stack))
      /\ stack' = Below(stack) /\ Complete(Top(stack), Below(stack))
      /\ Top(stack) \in 1..Len(nodes) /\ input' = input
  BY CloseStep
<1>2. Len(nodes) \in Nat /\ Len(stack) \in Nat
  BY LenProperties DEF ParserInv, ParserTypes
<1>3. /\ \A i, j \in Frames' : i < j => stack'[i] < stack'[j]
      /\ \A i \in Frames' : ~nodes'[stack'[i]].value
      /\ \A i \in Frames' : i \in Frames /\ i # Len(stack) /\ stack'[i] = stack[i]
      /\ Len(stack') = Len(stack) - 1
  <2>1. \A i \in 1..Len(nodes) : nodes'[i].value = nodes[i].value
    BY <1>1 DEF Same
  <2> QED BY <1>1, <2>1, BelowClimbs
<1>4. ASSUME NEW i \in 1..Len(nodes) PROVE NodeFits(i)'
  <2>1. /\ Len(nodes') \in Nat /\ Len(nodes') >= Len(nodes) /\ NodeFits(i)
        /\ Same(i) /\ nodes'[i].kids = KidsWith(i, Top(stack), Below(stack))
    BY <1>1, <1>2 DEF Numbered
  <2>2. CASE Below(stack) # <<>> /\ i = Top(Below(stack))
    <3>1. Len(stack') \in Frames' /\ i = stack'[Len(stack')]
      <4>1. stack' # <<>> /\ i = Top(stack') /\ stack' \in Seq(1..Len(nodes))
        BY <1>1, <2>2, BelowKeeps DEF ParserInv, ParserTypes
      <4>2. Len(stack') # 0 /\ Len(stack') \in Nat
        BY <4>1, EmptySeq, LenProperties
      <4> QED BY <4>1, <4>2 DEF Frames, Top
    <3>2. i < Top(stack) /\ ~nodes[i].value
      BY <1>1, <1>3, <3>1, TopFacts DEF Numbered, StackClimbs
    <3>3. Top(stack) \in (i + 1)..Len(nodes')
      BY <1>1, <1>2, <3>2
    <3>4. nodes'[i].kids = Append(nodes[i].kids, Top(stack))
      BY <2>1, <2>2 DEF KidsWith
    <3> QED BY <1>1, <2>1, <3>2, <3>3, <3>4, NodeFitsKept
  <2>3. CASE ~(Below(stack) # <<>> /\ i = Top(Below(stack)))
    <3>1. nodes'[i].kids = nodes[i].kids
      BY <2>1, <2>3 DEF KidsWith
    <3> QED BY <1>1, <2>1, <3>1, NodeFitsKept
  <2> QED BY <2>2, <2>3
<1>5. pc' \in {"parse", "parsed"} /\ (pc' = "parsed" => stack' = <<>>)
  BY <1>1 DEF Complete
<1> QED BY <1>1, <1>3, <1>4, <1>5 DEF Numbered, StackClimbs

LEMMA FailureNumbers ==
  ASSUME ParserInv, Numbered, node_refused \/ malloc_fails \/ unwind
  PROVE  Numbered'
<1>1. UNCHANGED <<input, nodes, root>>
  BY DEF node_refused, malloc_fails, unwind, parser
<1>2. \A n \in 1..Len(nodes') : NodeFits(n)'
  BY <1>1 DEF Numbered, NodeFits, EndOf
<1>3. CASE UNCHANGED stack /\ (pc' = "unwind" \/ stack = <<>>) /\ pc' \in {"unwind", "parsed"}
  BY <1>1, <1>2, <1>3 DEF Numbered, StackClimbs, Frames
<1>4. CASE stack # <<>> /\ stack' = Below(stack) /\ pc' = "unwind"
  BY <1>1, <1>2, <1>4, BelowClimbs DEF Numbered, StackClimbs
<1> QED BY <1>3, <1>4 DEF node_refused, malloc_fails, unwind, parser, LeavesCall

LEMMA StepNumbers ==
  ASSUME ParserInv, Numbered, ParserStep
  PROVE  Numbered'
BY OpenNumbers, PrimitiveNumbers, CloseNumbers, FailureNumbers DEF ParserStep

\* An empty tree.
LEMMA EmptyNumbers ==
  ASSUME nodes' = <<>>, root' = 0, stack' = <<>>
  PROVE  Numbered'
<1>1. Len(nodes') = 0 /\ Len(stack') = 0
  BY EmptySeq
<1>2. Frames' = {}
  BY <1>1 DEF Frames
<1> QED BY <1>1, <1>2 DEF Numbered, StackClimbs

-------------------------------------------------------------------------------
(* The tree is the input *)

\* A header that is read with an end is read without one.
LEMMA LengthWidens ==
  ASSUME NEW d \in Seq(Byte), NEW p \in Nat, NEW end \in 0..Len(d),
         NEW h \in asn1_read_length(d, p, end)
  PROVE  asn1_read_length(d, p, Len(d)) = {[length |-> h.length, next |-> h.next]}
<1> DEFINE first == d[p + 1]
           more  == first % 128
           read(e) == IF first < 128 THEN {[length |-> first, next |-> p + 1]}
                      ELSE IF more <= 4 /\ p + 1 + more <= e
                           THEN {[length |-> BigEndian(d, p + 1, more), next |-> p + 1 + more]}
                           ELSE {}
<1>1. Len(d) \in Nat /\ end \in Nat /\ end <= Len(d)
  BY LenProperties
<1>2. ~(p >= end) /\ h \in read(end)
  BY Zenon DEF asn1_read_length
<1>3. ~(p >= Len(d))
  BY <1>1, <1>2
<1>4. asn1_read_length(d, p, Len(d)) = read(Len(d))
  BY <1>3, Zenon DEF asn1_read_length
<1>5. first \in 0..255
  <2>1. p + 1 \in 1..Len(d)
    BY <1>1, <1>3
  <2> QED BY <2>1, ByteAt
<1> HIDE DEF first
<1>6. more \in Nat
  BY <1>5
<1> HIDE DEF more
<1>7. CASE first < 128
  <2>1. h = [length |-> first, next |-> p + 1] /\ read(Len(d)) = {[length |-> first, next |-> p + 1]}
    BY <1>2, <1>7, Zenon
  <2> HIDE DEF read
  <2> QED BY <1>4, <2>1
<1>8. CASE ~(first < 128) /\ more <= 4 /\ p + 1 + more <= end
  <2>1. p + 1 + more <= Len(d)
    BY <1>1, <1>6, <1>8
  <2> DEFINE r == [length |-> BigEndian(d, p + 1, more), next |-> p + 1 + more]
  <2>2. h = r /\ read(Len(d)) = {r}
    BY <1>2, <1>8, <2>1, Zenon
  <2>3. r = [length |-> r.length, next |-> r.next]
    OBVIOUS
  <2> HIDE DEF read, r
  <2> QED BY <1>4, <2>2, <2>3
<1>9. CASE ~(first < 128) /\ ~(more <= 4 /\ p + 1 + more <= end)
  BY <1>2, <1>9, Zenon
<1> QED BY <1>7, <1>8, <1>9

\* The node a header makes begins at pos.
LEMMA NewNodeBegins ==
  ASSUME ParserInv, AtElement, NEW h \in Header, UNCHANGED input,
         NEW n, nodes'[n] = NewNode(h), NEW p, p = pos
  PROVE  BeginsAt(n, p)'
<1>1. End \in 0..Len(input) /\ input \in Seq(Byte) /\ p + 1 \in Nat
  BY EndInside DEF ParserInv, ParserTypes
<1>2. h \in asn1_read_length(input, p + 1, End)
  BY DEF Header
<1>3. asn1_read_length(input, p + 1, Len(input)) = {[length |-> h.length, next |-> h.next]}
  BY <1>1, <1>2, LengthWidens
<1>4. nodes'[n].tag = input[p + 1] /\ nodes'[n].at = h.next /\ nodes'[n].length = h.length
  BY DEF NewNode
<1> QED BY <1>3, <1>4 DEF BeginsAt

\* A node goes on beginning where it did.
LEMMA BeginsKept ==
  ASSUME NEW n, NEW p, Same(n), UNCHANGED input, BeginsAt(n, p)
  PROVE  BeginsAt(n, p)'
BY DEF BeginsAt, Same

\* Where child i of n ends, or the content of n begins; where its last ends.
ReadTo(n, i) == IF i = 0 THEN nodes[n].at ELSE EndOf(nodes[n].kids[i])
AllRead(n)   == ReadTo(n, Len(nodes[n].kids))

\* The children of n follow one another from where its content begins.
Tiles(n) ==
  \A i \in 1..Len(nodes[n].kids) : BeginsAt(nodes[n].kids[i], ReadTo(n, i - 1))

LEMMA ReadToKept ==
  ASSUME NEW n \in 1..Len(nodes), NEW i \in 0..Len(nodes[n].kids),
         NodeFits(n), \A k \in 1..Len(nodes) : Same(k),
         i # 0 => nodes'[n].kids[i] = nodes[n].kids[i]
  PROVE  ReadTo(n, i)' = ReadTo(n, i)
<1>1. CASE i = 0
  BY <1>1 DEF ReadTo, Same
<1>2. CASE i # 0
  <2>1. i \in 1..Len(nodes[n].kids)
    BY <1>2
  <2>2. nodes[n].kids[i] \in 1..Len(nodes)
    BY <2>1 DEF NodeFits
  <2> QED BY <1>2, <2>1, <2>2 DEF ReadTo, EndOf, Same
<1> QED BY <1>1, <1>2

LEMMA TilesKept ==
  ASSUME NEW n \in 1..Len(nodes), ParserInv, NodeFits(n), UNCHANGED input, Tiles(n),
         \A k \in 1..Len(nodes) : Same(k), nodes'[n].kids = nodes[n].kids
  PROVE  Tiles(n)' /\ AllRead(n)' = AllRead(n)
<1>1. Len(nodes[n].kids) \in Nat
  BY NodeFacts DEF ParserInv
<1>2. \A i \in 0..Len(nodes[n].kids) : ReadTo(n, i)' = ReadTo(n, i)
  BY ReadToKept
<1>3. AllRead(n)' = AllRead(n)
  BY <1>1, <1>2 DEF AllRead
<1>4. ASSUME NEW i \in 1..Len(nodes[n].kids)
      PROVE  BeginsAt(nodes[n].kids[i], ReadTo(n, i - 1))'
  <2> DEFINE k == nodes[n].kids[i]
             p == ReadTo(n, i - 1)
  <2>1. i - 1 \in 0..Len(nodes[n].kids)
    BY <1>1
  <2>2. k \in 1..Len(nodes) /\ BeginsAt(k, p)
    BY DEF NodeFits, Tiles
  <2>3. PICK m, q : m = k /\ q = p
    OBVIOUS
  <2>4. BeginsAt(m, q)'
    <3>1. Same(m) /\ BeginsAt(m, q)
      BY <2>2, <2>3
    <3> QED BY <3>1, BeginsKept
  <2>5. nodes'[n].kids[i] = m /\ ReadTo(n, i - 1)' = q
    BY <1>2, <2>1, <2>3
  <2> QED BY <2>4, <2>5
<1> QED BY <1>3, <1>4 DEF Tiles

LEMMA TilesLinked ==
  ASSUME NEW n \in 1..Len(nodes), NEW m \in Nat, NEW p,
         ParserInv, NodeFits(n), UNCHANGED input, Tiles(n),
         \A k \in 1..Len(nodes) : Same(k),
         nodes'[n].kids = Append(nodes[n].kids, m), p = AllRead(n), BeginsAt(m, p)'
  PROVE  Tiles(n)' /\ AllRead(n)' = EndOf(m)'
<1> DEFINE l == Len(nodes[n].kids)
<1>1. l \in Nat /\ nodes[n].kids \in Seq(Nat)
  BY NodeFacts DEF ParserInv
<1>2. /\ Len(nodes'[n].kids) = l + 1 /\ nodes'[n].kids[l + 1] = m
      /\ \A i \in 1..l : nodes'[n].kids[i] = nodes[n].kids[i]
  BY <1>1, AppendProperties
<1>3. ASSUME NEW i \in 0..l PROVE ReadTo(n, i)' = ReadTo(n, i)
  <2>1. i # 0 => nodes'[n].kids[i] = nodes[n].kids[i]
    BY <1>1, <1>2
  <2> QED BY <2>1, ReadToKept
<1>4. AllRead(n)' = EndOf(m)'
  BY <1>1, <1>2 DEF AllRead, ReadTo, EndOf
<1>5. ASSUME NEW i \in 1..(l + 1)
      PROVE  BeginsAt(nodes[n].kids[i], ReadTo(n, i - 1))'
  <2>0. i - 1 \in 0..l
    BY <1>1
  <2>1. CASE i = l + 1
    <3>1. ReadTo(n, i - 1)' = p
      BY <1>1, <1>3, <2>1 DEF AllRead
    <3>2. nodes'[n].kids[i] = m
      BY <1>2, <2>1
    <3> QED BY <3>1, <3>2
  <2>2. CASE i \in 1..l
    <3> DEFINE k == nodes[n].kids[i]
               r == ReadTo(n, i - 1)
    <3>1. k \in 1..Len(nodes) /\ BeginsAt(k, r)
      BY <2>2 DEF NodeFits, Tiles
    <3>2. PICK j, q : j = k /\ q = r
      OBVIOUS
    <3>3. BeginsAt(j, q)'
      <4>1. Same(j) /\ BeginsAt(j, q)
        BY <3>1, <3>2
      <4> QED BY <4>1, BeginsKept
    <3>4. nodes'[n].kids[i] = j /\ ReadTo(n, i - 1)' = q
      BY <1>2, <1>3, <2>0, <2>2, <3>2
    <3> QED BY <3>3, <3>4
  <2> QED BY <1>1, <2>1, <2>2
<1> QED BY <1>2, <1>4, <1>5 DEF Tiles

Open(n) == \E i \in Frames : stack[i] = n

\* While a call succeeds: what has been read of the input is the children read,
\* and the calls that are open are reading the next child of the one around.
Grows ==
  pc = "parse" \/ root # 0 =>
    /\ \A n \in 1..Len(nodes) :
         Tiles(n) /\ (nodes[n].value \/ Open(n) \/ AllRead(n) = EndOf(n))
    /\ stack # <<>> => BeginsAt(stack[1], 0) /\ pos = AllRead(Top(stack))
    /\ \A i \in 1..(Len(stack) - 1) : BeginsAt(stack[i + 1], AllRead(stack[i]))
    /\ root # 0 => stack = <<>> /\ BeginsAt(root, 0)

LEMMA OpenGrows ==
  ASSUME ParserInv, Numbered, Grows, open_constructed
  PROVE  Grows'
<1> DEFINE f == Len(stack) + 1
<1>0. PICK n : n = Len(nodes) + 1
  OBVIOUS
<1>1. PICK h \in Header :
        /\ AtElement /\ ~NewNode(h).value /\ pos' = h.next
        /\ Len(nodes') = n /\ nodes'[n] = NewNode(h)
        /\ \A i \in 1..Len(nodes) : nodes'[i] = nodes[i]
        /\ Len(stack') = f /\ stack'[f] = n
        /\ \A i \in Frames : stack'[i] = stack[i]
        /\ UNCHANGED <<pc, input, root, starved>>
  BY <1>0, OpenStep
<1>2. Len(nodes) \in Nat /\ Len(stack) \in Nat /\ pc = "parse" /\ root = 0
      /\ n = Len(nodes) + 1
  BY <1>0, <1>1, LenProperties DEF ParserInv, ParserTypes, CallBegins, AtElement
<1>3. \A k \in 1..Len(nodes) : Same(k) /\ nodes'[k].kids = nodes[k].kids
  BY <1>1 DEF Same
<1>4. ASSUME NEW k \in 1..Len(nodes)
      PROVE  /\ Tiles(k)' /\ AllRead(k)' = AllRead(k) /\ EndOf(k)' = EndOf(k)
             /\ nodes'[k].value \/ Open(k)' \/ AllRead(k)' = EndOf(k)'
  <2>1. NodeFits(k) /\ Tiles(k) /\ (nodes[k].value \/ Open(k) \/ AllRead(k) = EndOf(k))
    BY <1>2 DEF Numbered, Grows
  <2>2. Tiles(k)' /\ AllRead(k)' = AllRead(k)
    BY <1>1, <1>3, <2>1, TilesKept
  <2>3. Open(k) => Open(k)'
    <3>1. \A i \in Frames : i \in Frames'
      BY <1>1, <1>2 DEF Frames
    <3> QED BY <1>1, <3>1 DEF Open
  <2> QED BY <1>1, <2>1, <2>2, <2>3 DEF EndOf
<1>5. \A p : p = pos => BeginsAt(n, p)'
  BY <1>1, NewNodeBegins
<1>6. Tiles(n)' /\ AllRead(n)' = pos' /\ Open(n)'
  <2>1. nodes'[n].kids = <<>> /\ nodes'[n].at = h.next
    BY <1>1 DEF NewNode
  <2>2. Len(nodes'[n].kids) = 0
    BY <2>1, EmptySeq
  <2>3. f \in Frames'
    BY <1>1, <1>2 DEF Frames
  <2> QED BY <1>1, <2>1, <2>2, <2>3 DEF Tiles, AllRead, ReadTo, Open
<1>7. \A k \in 1..Len(nodes') : k = n \/ k \in 1..Len(nodes)
  BY <1>1, <1>2
<1>8. stack' # <<>> /\ Top(stack') = n
  BY <1>1, <1>2, EmptySeq DEF Top
<1>9. BeginsAt(stack[1], 0)'
  <2>1. CASE stack = <<>>
    <3>1. pos = 0 /\ stack'[1] = n
      BY <1>1, <1>2, <2>1, EmptySeq DEF ParserInv, CallBegins
    <3> QED BY <1>5, <3>1
  <2>2. CASE stack # <<>>
    <3>1. 1 \in Frames /\ BeginsAt(stack[1], 0)
      BY <1>2, <2>2, EmptySeq DEF Grows, Frames, ParserInv, ParserTypes
    <3>2. PICK m : m = stack[1]
      OBVIOUS
    <3>3. Same(m) /\ BeginsAt(m, 0) /\ stack'[1] = m
      BY <1>1, <1>3, <3>1, <3>2, FrameEnds DEF ParserInv
    <3>4. BeginsAt(m, 0)'
      BY <1>1, <3>3, BeginsKept
    <3> QED BY <3>3, <3>4
  <2> QED BY <2>1, <2>2
<1>10. ASSUME NEW i \in 1..(Len(stack') - 1)
       PROVE  BeginsAt(stack[i + 1], AllRead(stack[i]))'
  <2>1. i \in Frames /\ stack'[i] = stack[i] /\ stack[i] \in 1..Len(nodes) /\ stack # <<>>
    <3>1. i \in Frames
      BY <1>1, <1>2 DEF Frames
    <3>2. stack # <<>>
      BY <1>2, <3>1, EmptySeq DEF Frames
    <3> QED BY <1>1, <3>1, <3>2, FrameEnds DEF ParserInv
  <2>2. PICK m, q : m = stack[i] /\ q = AllRead(stack[i])
    OBVIOUS
  <2>3. AllRead(stack[i])' = q
    <3>1. AllRead(m)' = AllRead(m)
      BY <1>4, <2>1, <2>2
    <3> QED BY <2>1, <2>2, <3>1
  <2>4. CASE i = Len(stack)
    <3>1. q = pos /\ stack'[i + 1] = n
      BY <1>1, <1>2, <2>1, <2>2, <2>4 DEF Grows, Top
    <3> QED BY <1>5, <2>3, <3>1
  <2>5. CASE i # Len(stack)
    <3>1. i \in 1..(Len(stack) - 1) /\ i + 1 \in Frames
      BY <1>2, <2>1, <2>5 DEF Frames
    <3>2. BeginsAt(stack[i + 1], AllRead(stack[i]))
      BY <1>2, <3>1 DEF Grows
    <3>3. PICK j : j = stack[i + 1]
      OBVIOUS
    <3>4. Same(j) /\ BeginsAt(j, q) /\ stack'[i + 1] = j
      BY <1>1, <1>3, <2>2, <3>1, <3>2, <3>3, FrameEnds DEF ParserInv
    <3>5. BeginsAt(j, q)'
      BY <1>1, <3>4, BeginsKept
    <3> QED BY <2>3, <3>4, <3>5
  <2> QED BY <2>4, <2>5
<1>11. \A k \in 1..Len(nodes') :
         Tiles(k)' /\ (nodes'[k].value \/ Open(k)' \/ AllRead(k)' = EndOf(k)')
  BY <1>4, <1>6, <1>7
<1>12. root' = 0 /\ pos' = AllRead(Top(stack))'
  BY <1>1, <1>2, <1>6, <1>8
<1> QED BY <1>9, <1>10, <1>11, <1>12 DEF Grows

\* A frame goes on reading the child it read when nothing was linked to it.
LEMMA FrameKept ==
  ASSUME NEW i, NEW j,
         ParserInv, Numbered, UNCHANGED input, \A k \in 1..Len(nodes) : Same(k),
         i \in 1..Len(nodes), j \in 1..Len(nodes), nodes'[i].kids = nodes[i].kids,
         Tiles(i), BeginsAt(j, AllRead(i))
  PROVE  BeginsAt(j, AllRead(i))'
<1>1. AllRead(i)' = AllRead(i)
  BY TilesKept DEF Numbered
<1>2. PICK q : q = AllRead(i)
  OBVIOUS
<1>3. BeginsAt(j, q)'
  BY <1>2, BeginsKept
<1> QED BY <1>1, <1>2, <1>3

LEMMA PrimitiveGrows ==
  ASSUME ParserInv, Numbered, Grows, parse_primitive
  PROVE  Grows'
<1>0. PICK n : n = Len(nodes) + 1
  OBVIOUS
<1>1. PICK h \in Header :
        /\ AtElement /\ NewNode(h).value /\ Allocatable(h.length)
        /\ pos' = h.next + h.length
        /\ Len(nodes') = n /\ nodes'[n] = NewNode(h)
        /\ \A i \in 1..Len(nodes) : Same(i) /\ nodes'[i].kids = KidsWith(i, n, stack)
        /\ Complete(n, stack)
        /\ UNCHANGED <<input, stack, starved>>
  BY <1>0, PrimitiveStep
<1>2. Len(nodes) \in Nat /\ Len(stack) \in Nat /\ pc = "parse" /\ root = 0
      /\ n = Len(nodes) + 1 /\ n \in Nat
  BY <1>0, <1>1, LenProperties DEF ParserInv, ParserTypes, CallBegins, AtElement
<1>3. \A p : p = pos => BeginsAt(n, p)'
  BY <1>1, NewNodeBegins
<1>4. Tiles(n)' /\ nodes'[n].value /\ EndOf(n)' = pos'
  <2>1. nodes'[n].kids = <<>> /\ nodes'[n].at = h.next /\ nodes'[n].length = h.length
        /\ nodes'[n].value
    BY <1>1 DEF NewNode
  <2>2. Len(nodes'[n].kids) = 0
    BY <2>1, EmptySeq
  <2> QED BY <1>1, <2>1, <2>2 DEF Tiles, EndOf
<1>5. ASSUME NEW k \in 1..Len(nodes), ~(stack # <<>> /\ k = Top(stack))
      PROVE  /\ nodes'[k].kids = nodes[k].kids
             /\ Tiles(k)' /\ AllRead(k)' = AllRead(k) /\ EndOf(k)' = EndOf(k)
             /\ nodes'[k].value \/ Open(k)' \/ AllRead(k)' = EndOf(k)'
  <2>1. NodeFits(k) /\ Tiles(k) /\ (nodes[k].value \/ Open(k) \/ AllRead(k) = EndOf(k))
    BY <1>2 DEF Numbered, Grows
  <2>2. nodes'[k].kids = nodes[k].kids
    BY <1>1, <1>5 DEF KidsWith
  <2>3. Tiles(k)' /\ AllRead(k)' = AllRead(k)
    BY <1>1, <2>1, <2>2, TilesKept
  <2>4. Open(k) => Open(k)'
    BY <1>1 DEF Open, Frames
  <2> QED BY <1>1, <2>1, <2>2, <2>3, <2>4 DEF EndOf, Same
<1>6. CASE stack = <<>>
  <2>1. \A k \in 1..Len(nodes') :
         Tiles(k)' /\ (nodes'[k].value \/ Open(k)' \/ AllRead(k)' = EndOf(k)')
    <3>1. \A k \in 1..Len(nodes') : k = n \/ k \in 1..Len(nodes)
      BY <1>1, <1>2
    <3> QED BY <1>4, <1>5, <1>6, <3>1
  <2>2. root' = n /\ BeginsAt(root, 0)'
    <3>1. root' = n /\ pos = 0
      BY <1>1, <1>2, <1>6 DEF Complete, ParserInv, CallBegins
    <3> QED BY <1>3, <3>1
  <2>3. stack' = <<>> /\ Len(stack') = 0
    BY <1>1, <1>6, EmptySeq
  <2> QED BY <2>1, <2>2, <2>3 DEF Grows
<1>7. CASE stack # <<>>
  <2>1. PICK t : t = Top(stack)
    OBVIOUS
  <2>2. t \in 1..Len(nodes) /\ ~nodes[t].value /\ t = stack[Len(stack)] /\ Len(stack) \in Frames
        /\ \A i \in Frames : i # Len(stack) => stack[i] < t
    BY <1>7, <2>1, TopFacts DEF Numbered
  <2>3. Tiles(t)' /\ AllRead(t)' = EndOf(n)'
    <3>1. PICK p : p = pos
      OBVIOUS
    <3>2. Tiles(t) /\ p = AllRead(t) /\ NodeFits(t) /\ BeginsAt(n, p)'
      BY <1>2, <1>3, <1>7, <2>1, <2>2, <3>1 DEF Grows, Numbered
    <3>3. nodes'[t].kids = Append(nodes[t].kids, n)
      BY <1>1, <1>7, <2>1, <2>2 DEF KidsWith
    <3> QED BY <1>1, <1>2, <2>2, <3>2, <3>3, TilesLinked
  <2>4. Open(t)'
    BY <1>1, <2>2 DEF Open, Frames
  <2>5. \A k \in 1..Len(nodes') :
         Tiles(k)' /\ (nodes'[k].value \/ Open(k)' \/ AllRead(k)' = EndOf(k)')
    <3>1. \A k \in 1..Len(nodes') : k = n \/ k = t \/ (k \in 1..Len(nodes) /\ k # Top(stack))
      BY <1>1, <1>2, <2>1
    <3> QED BY <1>4, <1>5, <2>3, <2>4, <3>1
  <2>6. BeginsAt(stack[1], 0)'
    <3>1. 1 \in Frames /\ BeginsAt(stack[1], 0)
      BY <1>2, <1>7, <2>2 DEF Grows, Frames
    <3>2. PICK m : m = stack[1]
      OBVIOUS
    <3>3. Same(m) /\ BeginsAt(m, 0) /\ stack'[1] = m
      BY <1>1, <3>1, <3>2, FrameEnds DEF ParserInv
    <3>4. BeginsAt(m, 0)'
      BY <1>1, <3>3, BeginsKept
    <3> QED BY <3>3, <3>4
  <2>7. ASSUME NEW i \in 1..(Len(stack') - 1)
        PROVE  BeginsAt(stack[i + 1], AllRead(stack[i]))'
    <3>1. i \in Frames /\ i + 1 \in Frames /\ i # Len(stack) /\ i \in 1..(Len(stack) - 1)
      BY <1>1, <1>2 DEF Frames
    <3>2. PICK k, j : k = stack[i] /\ j = stack[i + 1]
      OBVIOUS
    <3>3. k \in 1..Len(nodes) /\ j \in 1..Len(nodes) /\ k # t
      BY <2>2, <3>1, <3>2, FrameEnds DEF ParserInv
    <3>4. BeginsAt(j, AllRead(k)) /\ Tiles(k)
      BY <1>2, <3>1, <3>2, <3>3 DEF Grows
    <3>5. nodes'[k].kids = nodes[k].kids
      BY <1>5, <2>1, <3>3
    <3>6. BeginsAt(j, AllRead(k))'
      BY <1>1, <3>3, <3>4, <3>5, FrameKept
    <3> QED BY <1>1, <3>2, <3>6
  <2>8. root' = 0 /\ pos' = AllRead(Top(stack))' /\ stack' # <<>>
    <3>1. Top(stack)' = t /\ root' = 0 /\ stack' # <<>>
      BY <1>1, <1>2, <1>7, <2>1 DEF Complete, Top
    <3> QED BY <1>4, <2>3, <3>1
  <2> QED BY <2>5, <2>6, <2>7, <2>8 DEF Grows
<1> QED BY <1>6, <1>7

LEMMA CloseGrows ==
  ASSUME ParserInv, Numbered, Grows, close_constructed
  PROVE  Grows'
<1>0. PICK t : t = Top(stack)
  OBVIOUS
<1>1. /\ pc = "parse" /\ stack # <<>> /\ pos = End /\ Len(nodes') = Len(nodes)
      /\ \A i \in 1..Len(nodes) :
           Same(i) /\ nodes'[i].kids = KidsWith(i, t, Below(stack))
      /\ stack' = Below(stack) /\ Complete(t, Below(stack))
      /\ t \in 1..Len(nodes) /\ UNCHANGED <<input, pos, live, starved>>
  BY <1>0, CloseStep
<1>2. Len(nodes) \in Nat /\ Len(stack) \in Nat /\ root = 0 /\ t \in Nat
  BY <1>1, LenProperties DEF ParserInv, ParserTypes, CallBegins
<1>3. /\ t = stack[Len(stack)] /\ Len(stack) \in Frames
      /\ \A i \in Frames : i # Len(stack) => stack[i] < t
  BY <1>0, <1>1, TopFacts DEF Numbered
<1>4. /\ \A i \in Frames' : i \in Frames /\ i # Len(stack) /\ stack'[i] = stack[i]
      /\ Len(stack') = Len(stack) - 1
  <2>1. \A i \in 1..Len(nodes) : nodes'[i].value = nodes[i].value
    BY <1>1 DEF Same
  <2> QED BY <1>1, <2>1, BelowClimbs
<1>5. Tiles(t) /\ pos = AllRead(t) /\ EndOf(t) = AllRead(t)
  <2>1. End = EndOf(t)
    BY <1>0, <1>1 DEF End
  <2> QED BY <1>0, <1>1, <2>1 DEF Grows
<1>6. \A k \in 1..Len(nodes) : Open(k) => Open(k)' \/ k = t
  <2>1. \A i \in Frames : i # Len(stack) => i \in Frames'
    BY <1>2, <1>4 DEF Frames
  <2> QED BY <1>3, <1>4, <2>1 DEF Open
<1>7. ASSUME NEW k \in 1..Len(nodes), ~(Below(stack) # <<>> /\ k = Top(Below(stack)))
      PROVE  /\ nodes'[k].kids = nodes[k].kids
             /\ Tiles(k)' /\ AllRead(k)' = AllRead(k) /\ EndOf(k)' = EndOf(k)
             /\ nodes'[k].value \/ Open(k)' \/ AllRead(k)' = EndOf(k)'
  <2>1. NodeFits(k) /\ Tiles(k) /\ (nodes[k].value \/ Open(k) \/ AllRead(k) = EndOf(k))
    BY <1>1 DEF Numbered, Grows
  <2>2. nodes'[k].kids = nodes[k].kids
    BY <1>1, <1>7 DEF KidsWith
  <2>3. Tiles(k)' /\ AllRead(k)' = AllRead(k)
    BY <1>1, <2>1, <2>2, TilesKept
  <2>4. EndOf(k)' = EndOf(k) /\ nodes'[k].value = nodes[k].value
    BY <1>1 DEF EndOf, Same
  <2> QED BY <1>5, <1>6, <2>1, <2>2, <2>3, <2>4
<1>8. CASE Below(stack) = <<>>
  <2>1. Len(stack) = 1
    BY <1>1, <1>2, <1>4, <1>8, EmptySeq
  <2>2. BeginsAt(t, 0)
    BY <1>1, <1>3, <2>1 DEF Grows
  <2>3. BeginsAt(t, 0)' /\ root' = t
    BY <1>1, <1>8, <2>2, BeginsKept DEF Complete
  <2>4. stack' = <<>> /\ Len(stack') = 0
    BY <1>1, <1>8, EmptySeq
  <2> QED BY <1>1, <1>7, <1>8, <2>3, <2>4 DEF Grows
<1>9. CASE Below(stack) # <<>>
  <2>1. PICK u : u = Top(Below(stack))
    OBVIOUS
  <2>2. Len(stack') \in Frames' /\ u = stack'[Len(stack')] /\ stack' \in Seq(1..Len(nodes))
    <3>1. stack' # <<>> /\ u = Top(stack') /\ stack' \in Seq(1..Len(nodes))
      BY <1>1, <1>9, <2>1, BelowKeeps DEF ParserInv, ParserTypes
    <3>2. Len(stack') # 0 /\ Len(stack') \in Nat
      BY <3>1, EmptySeq, LenProperties
    <3> QED BY <3>1, <3>2 DEF Frames, Top
  <2>3. /\ u \in 1..Len(nodes) /\ u # t /\ u = stack[Len(stack) - 1]
        /\ Len(stack) - 1 \in 1..(Len(stack) - 1)
    <3>1. Len(stack) - 1 \in Frames' /\ Len(stack) - 1 \in Frames
      BY <1>4, <2>2
    <3>2. u = stack[Len(stack) - 1] /\ Len(stack) - 1 # Len(stack)
      BY <1>2, <1>4, <2>2, <3>1
    <3> QED BY <1>2, <1>3, <3>1, <3>2, FrameEnds DEF ParserInv, Frames
  <2>4. BeginsAt(t, AllRead(u)) /\ Tiles(u) /\ NodeFits(u)
    <3>1. (Len(stack) - 1) + 1 = Len(stack)
      BY <1>2
    <3> QED BY <1>1, <1>3, <2>3, <3>1 DEF Grows, Numbered
  <2>5. Tiles(u)' /\ AllRead(u)' = EndOf(t)'
    <3>1. PICK p : p = AllRead(u)
      OBVIOUS
    <3>2. BeginsAt(t, p)'
      BY <1>1, <2>4, <3>1, BeginsKept
    <3>3. nodes'[u].kids = Append(nodes[u].kids, t)
      BY <1>1, <1>9, <2>1, <2>3 DEF KidsWith
    <3> QED BY <1>1, <1>2, <2>3, <2>4, <3>1, <3>2, <3>3, TilesLinked
  <2>6. EndOf(t)' = pos'
    BY <1>1, <1>5 DEF EndOf, Same
  <2>7. Open(u)'
    BY <2>2 DEF Open
  <2>8. \A k \in 1..Len(nodes') :
         Tiles(k)' /\ (nodes'[k].value \/ Open(k)' \/ AllRead(k)' = EndOf(k)')
    BY <1>1, <1>7, <2>1, <2>5, <2>7
  <2>9. BeginsAt(stack[1], 0)'
    <3>1. 1 \in Frames' /\ BeginsAt(stack[1], 0)
      BY <1>1, <2>2 DEF Grows, Frames
    <3>2. PICK m : m = stack[1]
      OBVIOUS
    <3>3. Same(m) /\ BeginsAt(m, 0) /\ stack'[1] = m
      BY <1>1, <1>4, <3>1, <3>2, FrameEnds DEF ParserInv
    <3>4. BeginsAt(m, 0)'
      BY <1>1, <3>3, BeginsKept
    <3> QED BY <3>3, <3>4
  <2>10. ASSUME NEW i \in 1..(Len(stack') - 1)
         PROVE  BeginsAt(stack[i + 1], AllRead(stack[i]))'
    <3>1. i \in Frames' /\ i + 1 \in Frames' /\ i \in 1..(Len(stack) - 1) /\ i # Len(stack) - 1
      BY <1>2, <1>4 DEF Frames
    <3>2. /\ i \in Frames /\ i + 1 \in Frames /\ stack'[i] = stack[i] /\ stack'[i + 1] = stack[i + 1]
      BY <1>4, <3>1
    <3>3. PICK k, j : k = stack[i] /\ j = stack[i + 1]
      OBVIOUS
    <3>4. k \in 1..Len(nodes) /\ j \in 1..Len(nodes)
      BY <3>2, <3>3, FrameEnds DEF ParserInv
    <3>5. k # u
      <4>1. i < Len(stack) - 1 /\ Len(stack) - 1 \in Frames
        BY <1>2, <2>3, <3>1 DEF Frames
      <4>2. stack[i] < stack[Len(stack) - 1]
        BY <3>2, <4>1 DEF Numbered, StackClimbs
      <4> QED BY <2>3, <3>3, <3>4, <4>2
    <3>6. BeginsAt(j, AllRead(k)) /\ Tiles(k)
      BY <1>1, <3>1, <3>3, <3>4 DEF Grows
    <3>7. nodes'[k].kids = nodes[k].kids
      BY <1>7, <2>1, <3>4, <3>5
    <3>8. BeginsAt(j, AllRead(k))'
      BY <1>1, <3>4, <3>6, <3>7, FrameKept
    <3> QED BY <3>2, <3>3, <3>8
  <2>11. root' = 0 /\ pos' = AllRead(Top(stack))' /\ stack' # <<>>
    <3>1. Top(stack)' = u /\ root' = 0 /\ stack' # <<>>
      BY <1>1, <1>2, <1>9, <2>1 DEF Complete
    <3> QED BY <2>5, <2>6, <3>1
  <2> QED BY <2>8, <2>9, <2>10, <2>11 DEF Grows
<1> QED BY <1>8, <1>9

LEMMA StepGrows ==
  ASSUME ParserInv, Numbered, Grows, ParserStep
  PROVE  Grows'
<1>1. CASE node_refused \/ malloc_fails \/ unwind
  <2>1. pc' # "parse" /\ root' = 0
    BY <1>1 DEF node_refused, malloc_fails, unwind, parser, AtElement, ParserInv, CallBegins
  <2> QED BY <2>1 DEF Grows
<1> QED BY <1>1, OpenGrows, PrimitiveGrows, CloseGrows DEF ParserStep

-------------------------------------------------------------------------------
(* What is allocated *)

\* The blocks of a set of nodes.
LEMMA BlockOf ==
  ASSUME NEW ns
  PROVE  /\ \A n : <<"node", n>> \in BlocksOf(ns) <=> n \in ns
         /\ \A n : <<"value", n>> \in BlocksOf(ns) <=> n \in ns /\ nodes[n].value
BY DEF BlocksOf

\* The node itself, its children, theirs, and so on.
LEMMA SubtreeFacts ==
  ASSUME ParserTypes, \A n \in 1..Len(nodes) : NodeFits(n), NEW t \in 1..Len(nodes)
  PROVE  /\ t \in Subtree(t) /\ Subtree(t) \subseteq 1..Len(nodes)
         /\ \A p \in Subtree(t) : \A k \in 1..Len(nodes[p].kids) : nodes[p].kids[k] \in Subtree(t)
<1> DEFINE l == Len(nodes)
           D == 1..l
           V == SUBSET D
           B(m, g) == {m} \cup UNION {g[nodes[m].kids[k]] : k \in 1..Len(nodes[m].kids)}
           rank == [m \in D |-> l - m]
           F == [m \in D |-> [g \in [D -> V] |-> B(m, g)]]
           tree == CHOOSE f : f = [m \in D |-> B(m, f)]
<1>1. Subtree(t) = tree[t]
  BY DEF Subtree
<1>2. l \in Nat
  BY LenProperties DEF ParserTypes
<1>3. \A m \in D : \A k \in 1..Len(nodes[m].kids) : nodes[m].kids[k] \in (m + 1)..l
  BY DEF NodeFits
<1> HIDE DEF l
<1>4. \A m \in D : \A k \in 1..Len(nodes[m].kids) : nodes[m].kids[k] \in D
  BY <1>2, <1>3
<1>5. ASSUME NEW m \in D, NEW g \in [D -> V] PROVE B(m, g) \in V
  BY <1>4
<1>6. ASSUME NEW g \in [D -> V], NEW h \in [D -> V], NEW m \in D,
             \A y \in D : rank[y] < rank[m] => g[y] = h[y]
      PROVE  B(m, g) = B(m, h)
  <2>1. ASSUME NEW k \in 1..Len(nodes[m].kids)
        PROVE  g[nodes[m].kids[k]] = h[nodes[m].kids[k]]
    <3>1. nodes[m].kids[k] \in D /\ rank[nodes[m].kids[k]] < rank[m]
      BY <1>2, <1>3, <1>4
    <3> QED BY <1>6, <3>1
  <2> QED BY <2>1
<1>7. \A m \in D : rank[m] \in 0..l
  BY <1>2
<1> HIDE DEF B, rank
<1>8. \A m \in D : \A g \in [D -> V] : F[m][g] \in V
  BY <1>5
<1>9. \A m \in D, g \in [D -> V] : F[m][g] = B(m, g)
  OBVIOUS
<1>10. [D -> V] # {}
  <2>1. [m \in D |-> D] \in [D -> V]
    OBVIOUS
  <2> QED BY <2>1
<1> HIDE DEF F
<1>11. Recursion(F, D, V, rank, l)
  <2>1. ASSUME NEW g \in [D -> V], NEW h \in [D -> V], NEW m \in D,
               \A y \in D : rank[y] < rank[m] => g[y] = h[y]
        PROVE  F[m][g] = F[m][h]
    <3>1. B(m, g) = B(m, h)
      BY <1>6, <2>1
    <3> QED BY <1>9, <3>1
  <2> HIDE DEF D, V
  <2> QED BY <1>2, <1>7, <1>8, <1>10, <2>1 DEF Recursion
<1> HIDE DEF D, V
<1>12. PICK f \in [D -> V] : \A m \in D : f[m] = F[m][f]
  BY <1>11, RecursiveFunction
<1>13. f = [m \in D |-> B(m, f)]
  BY <1>9, <1>12
<1>14. tree = [m \in D |-> B(m, tree)]
  BY <1>13
<1> HIDE DEF tree
<1>15. \A m \in D : tree[m] = {m} \cup UNION {tree[nodes[m].kids[k]] : k \in 1..Len(nodes[m].kids)}
  BY <1>14 DEF B
<1> DEFINE Good(m) == /\ m \in tree[m] /\ tree[m] \subseteq D
                      /\ \A p \in tree[m] : \A k \in 1..Len(nodes[p].kids) :
                           nodes[p].kids[k] \in tree[m]
           S == {n \in Nat : n < l => Good(l - n)}
<1>16. ASSUME NEW m \in D, \A j \in (m + 1)..l : Good(j)
       PROVE  Good(m)
  <2>1. \A k \in 1..Len(nodes[m].kids) : /\ Good(nodes[m].kids[k])
                                         /\ tree[nodes[m].kids[k]] \subseteq tree[m]
    <3> TAKE k \in 1..Len(nodes[m].kids)
    <3>1. nodes[m].kids[k] \in (m + 1)..l
      BY <1>3 DEF D
    <3>2. tree[nodes[m].kids[k]] \subseteq tree[m]
      BY <1>15
    <3> QED BY <1>16, <3>1, <3>2
  <2>2. m \in tree[m]
    BY <1>15
  <2>3. \A p \in tree[m] : p = m \/ \E k \in 1..Len(nodes[m].kids) : p \in tree[nodes[m].kids[k]]
    BY <1>15
  <2>4. tree[m] \subseteq D
    BY <2>1, <2>3
  <2>5. ASSUME NEW p \in tree[m], NEW k \in 1..Len(nodes[p].kids)
        PROVE  nodes[p].kids[k] \in tree[m]
    <3>1. CASE p = m
      BY <2>1, <3>1
    <3>2. CASE \E i \in 1..Len(nodes[m].kids) : p \in tree[nodes[m].kids[i]]
      BY <2>1, <3>2
    <3> QED BY <2>3, <3>1, <3>2
  <2> QED BY <2>2, <2>4, <2>5
<1> HIDE DEF Good
<1>17. ASSUME NEW n \in Nat, \A m \in 0..(n - 1) : m \in S PROVE n \in S
  <2> SUFFICES ASSUME n < l PROVE Good(l - n)
    OBVIOUS
  <2>1. l - n \in D
    BY <1>2 DEF D
  <2>2. ASSUME NEW j \in ((l - n) + 1)..l PROVE Good(j)
    <3>1. l - j \in 0..(n - 1) /\ l - j < l /\ l - (l - j) = j
      BY <1>2
    <3>2. l - j \in S
      BY <1>17, <3>1
    <3> QED BY <3>1, <3>2
  <2> QED BY <1>16, <2>1, <2>2
<1>18. Nat \subseteq S
  <2> HIDE DEF S
  <2> QED BY <1>17, StrongInduction
<1>19. Good(t)
  <2>1. l - t \in Nat /\ l - t < l /\ l - (l - t) = t
    BY <1>2 DEF l
  <2>2. l - t \in S
    BY <1>18, <2>1
  <2> QED BY <2>1, <2>2
<1> QED BY <1>1, <1>19 DEF Good, D, l

\* A node is held by the call that made it, by the caller as the root, or by a
\* parent that is held or still allocated.
Held(n) ==
  \/ Open(n) \/ n = root
  \/ \E p \in 1..(n - 1) :
       /\ \E k \in 1..Len(nodes[p].kids) : nodes[p].kids[k] = n
       /\ Open(p) \/ p = root \/ <<"node", p>> \in live

Reached ==
  /\ \A n : <<"node", n>> \in live => n \in 1..Len(nodes) /\ Held(n)
  /\ \A n : <<"value", n>> \in live => n \in 1..Len(nodes) /\ nodes[n].value /\ Held(n)
  /\ pc = "parse" => \A n \in 1..Len(nodes) : <<"node", n>> \in live

LEMMA OpenReaches ==
  ASSUME ParserInv, Numbered, Reached, open_constructed
  PROVE  Reached'
<1>0. PICK n : n = Len(nodes) + 1
  OBVIOUS
<1>1. PICK h \in Header :
        /\ AtElement /\ Len(nodes') = n
        /\ \A i \in 1..Len(nodes) : nodes'[i] = nodes[i]
        /\ Len(stack') = Len(stack) + 1 /\ stack'[Len(stack) + 1] = n
        /\ \A i \in Frames : stack'[i] = stack[i]
        /\ live' = live \cup {<<"node", n>>}
        /\ UNCHANGED <<pc, input, root, starved>>
  BY <1>0, OpenStep
<1>2. Len(nodes) \in Nat /\ Len(stack) \in Nat /\ pc = "parse" /\ root = 0
      /\ n = Len(nodes) + 1 /\ n \in Nat
  BY <1>0, <1>1, LenProperties DEF ParserInv, ParserTypes, CallBegins, AtElement
<1>3. Open(n)'
  BY <1>1, <1>2 DEF Open, Frames
<1>4. \A k : Open(k) => Open(k)'
  <2>1. \A i \in Frames : i \in Frames'
    BY <1>1, <1>2 DEF Frames
  <2> QED BY <1>1, <2>1 DEF Open
<1>5. ASSUME NEW k \in 1..Len(nodes), Held(k) PROVE Held(k)' /\ k \in 1..Len(nodes')
  <2>1. k # root /\ k \in 1..Len(nodes')
    BY <1>1, <1>2
  <2>2. \A p \in 1..(k - 1) : p \in 1..Len(nodes) /\ p # root
    BY <1>2
  <2>3. \A p \in 1..(k - 1) : nodes'[p] = nodes[p]
    BY <1>1, <2>2
  <2> QED BY <1>1, <1>4, <1>5, <2>1, <2>2, <2>3 DEF Held
<1>6. \A k : <<"node", k>> \in live' => <<"node", k>> \in live \/ k = n
  BY <1>1
<1>7. \A k : <<"value", k>> \in live' => <<"value", k>> \in live
  BY <1>1
<1>8. n \in 1..Len(nodes') /\ Held(n)'
  BY <1>1, <1>2, <1>3 DEF Held
<1>9. \A k \in 1..Len(nodes') : <<"node", k>> \in live'
  <2>1. \A k \in 1..Len(nodes') : k = n \/ k \in 1..Len(nodes)
    BY <1>1, <1>2
  <2> QED BY <1>1, <1>2, <2>1 DEF Reached
<1>10. \A k : <<"node", k>> \in live' => k \in 1..Len(nodes') /\ Held(k)'
  BY <1>5, <1>6, <1>8 DEF Reached
<1>11. \A k : <<"value", k>> \in live' => k \in 1..Len(nodes') /\ nodes'[k].value /\ Held(k)'
  BY <1>1, <1>5, <1>7 DEF Reached
<1> QED BY <1>9, <1>10, <1>11 DEF Reached

\* A child stays a child.
LEMMA KidKept ==
  ASSUME NEW p \in 1..Len(nodes), NEW m \in Nat, NEW s, NEW k \in 1..Len(nodes[p].kids),
         ParserInv, nodes'[p].kids = KidsWith(p, m, s)
  PROVE  k \in 1..Len(nodes'[p].kids) /\ nodes'[p].kids[k] = nodes[p].kids[k]
<1>1. nodes[p].kids \in Seq(Nat) /\ Len(nodes[p].kids) \in Nat
  BY NodeFacts DEF ParserInv
<1>2. CASE nodes'[p].kids = nodes[p].kids
  BY <1>2
<1>3. CASE nodes'[p].kids = Append(nodes[p].kids, m)
  <2>1. Len(nodes'[p].kids) = Len(nodes[p].kids) + 1 /\ nodes'[p].kids[k] = nodes[p].kids[k]
    BY <1>1, <1>3, AppendProperties
  <2> QED BY <1>1, <2>1
<1> QED BY <1>2, <1>3 DEF KidsWith

\* The node that is linked is a child.
LEMMA KidNew ==
  ASSUME NEW p \in 1..Len(nodes), NEW m \in Nat, ParserInv,
         nodes'[p].kids = Append(nodes[p].kids, m)
  PROVE  \E k \in 1..Len(nodes'[p].kids) : nodes'[p].kids[k] = m
<1>1. nodes[p].kids \in Seq(Nat) /\ Len(nodes[p].kids) \in Nat
  BY NodeFacts DEF ParserInv
<1>2. Len(nodes'[p].kids) = Len(nodes[p].kids) + 1 /\ nodes'[p].kids[Len(nodes[p].kids) + 1] = m
  BY <1>1, AppendProperties
<1> QED BY <1>1, <1>2

LEMMA PrimitiveReaches ==
  ASSUME ParserInv, Numbered, Reached, parse_primitive
  PROVE  Reached'
<1>0. PICK n : n = Len(nodes) + 1
  OBVIOUS
<1>1. PICK h \in Header :
        /\ AtElement /\ NewNode(h).value /\ Len(nodes') = n /\ nodes'[n] = NewNode(h)
        /\ \A i \in 1..Len(nodes) : Same(i) /\ nodes'[i].kids = KidsWith(i, n, stack)
        /\ live' = live \cup {<<"node", n>>, <<"value", n>>}
        /\ Complete(n, stack)
        /\ UNCHANGED <<input, stack, starved>>
  BY <1>0, PrimitiveStep
<1>2. Len(nodes) \in Nat /\ Len(stack) \in Nat /\ pc = "parse" /\ root = 0
      /\ n = Len(nodes) + 1 /\ n \in Nat
  BY <1>0, <1>1, LenProperties DEF ParserInv, ParserTypes, CallBegins, AtElement
<1>3. \A k : Open(k)' <=> Open(k)
  BY <1>1 DEF Open, Frames
<1>4. ASSUME NEW k \in 1..Len(nodes), Held(k) PROVE Held(k)' /\ k \in 1..Len(nodes')
  <2>1. k # root /\ k \in 1..Len(nodes')
    BY <1>1, <1>2
  <2>2. \A p \in 1..(k - 1) : p \in 1..Len(nodes) /\ p # root
    BY <1>2
  <2>3. CASE Open(k)
    BY <1>3, <2>1, <2>3 DEF Held
  <2>4. CASE ~Open(k)
    <3>1. PICK p \in 1..(k - 1) :
             /\ \E j \in 1..Len(nodes[p].kids) : nodes[p].kids[j] = k
             /\ Open(p) \/ <<"node", p>> \in live
      BY <1>4, <2>1, <2>2, <2>4 DEF Held
    <3>2. \E j \in 1..Len(nodes'[p].kids) : nodes'[p].kids[j] = k
      <4>1. p \in 1..Len(nodes)
        BY <2>2
      <4>2. nodes'[p].kids = KidsWith(p, n, stack)
        BY <1>1, <4>1
      <4>3. PICK j \in 1..Len(nodes[p].kids) : nodes[p].kids[j] = k
        BY <3>1
      <4>4. n \in Nat
        BY <1>2
      <4>5. j \in 1..Len(nodes'[p].kids) /\ nodes'[p].kids[j] = nodes[p].kids[j]
        BY <4>1, <4>2, <4>4, KidKept
      <4> QED BY <4>3, <4>5
    <3>3. Open(p)' \/ <<"node", p>> \in live'
      BY <1>1, <1>3, <3>1
    <3> QED BY <2>1, <3>2, <3>3 DEF Held
  <2> QED BY <2>3, <2>4
<1>5. n \in 1..Len(nodes') /\ Held(n)'
  <2>1. CASE stack = <<>>
    <3>1. root' = n
      BY <1>1, <2>1 DEF Complete
    <3> QED BY <1>1, <1>2, <3>1 DEF Held
  <2>2. CASE stack # <<>>
    <3>1. PICK t : t = Top(stack)
      OBVIOUS
    <3>2. t \in 1..Len(nodes) /\ t \in 1..(n - 1)
      BY <1>2, <2>2, <3>1, TopFacts DEF Numbered
    <3>3. nodes'[t].kids = Append(nodes[t].kids, n)
      BY <1>1, <2>2, <3>1, <3>2 DEF KidsWith
    <3>4. \E j \in 1..Len(nodes'[t].kids) : nodes'[t].kids[j] = n
      BY <1>2, <3>2, <3>3, KidNew
    <3>5. <<"node", t>> \in live'
      BY <1>1, <1>2, <3>2 DEF Reached
    <3> QED BY <1>1, <1>2, <3>2, <3>4, <3>5 DEF Held
  <2> QED BY <2>1, <2>2
<1>6. \A k : <<"node", k>> \in live' => <<"node", k>> \in live \/ k = n
  BY <1>1
<1>7. \A k : <<"value", k>> \in live' => <<"value", k>> \in live \/ k = n
  BY <1>1
<1>8. \A k \in 1..Len(nodes') : <<"node", k>> \in live'
  <2>1. \A k \in 1..Len(nodes') : k = n \/ k \in 1..Len(nodes)
    BY <1>1, <1>2
  <2> QED BY <1>1, <1>2, <2>1 DEF Reached
<1>9. \A k : <<"node", k>> \in live' => k \in 1..Len(nodes') /\ Held(k)'
  BY <1>4, <1>5, <1>6 DEF Reached
<1>10. \A k : <<"value", k>> \in live' => k \in 1..Len(nodes') /\ nodes'[k].value /\ Held(k)'
  BY <1>1, <1>4, <1>5, <1>7 DEF Reached, Same
<1> QED BY <1>8, <1>9, <1>10 DEF Reached

LEMMA CloseReaches ==
  ASSUME ParserInv, Numbered, Reached, close_constructed
  PROVE  Reached'
<1>0. PICK t : t = Top(stack)
  OBVIOUS
<1>1. /\ pc = "parse" /\ stack # <<>> /\ Len(nodes') = Len(nodes)
      /\ \A i \in 1..Len(nodes) :
           Same(i) /\ nodes'[i].kids = KidsWith(i, t, Below(stack))
      /\ stack' = Below(stack) /\ Complete(t, Below(stack))
      /\ t \in 1..Len(nodes) /\ live' = live
  BY <1>0, CloseStep
<1>2. Len(nodes) \in Nat /\ Len(stack) \in Nat /\ root = 0 /\ t \in Nat
  BY <1>1, LenProperties DEF ParserInv, ParserTypes, CallBegins
<1>3. \A n \in 1..Len(nodes) : <<"node", n>> \in live'
  BY <1>1 DEF Reached
<1>4. \A k : Open(k) => Open(k)' \/ k = t
  <2>1. Len(stack') = Len(stack) - 1 /\ \A i \in Frames' : i \in Frames /\ stack'[i] = stack[i]
    <3>1. \A i \in 1..Len(nodes) : nodes'[i].value = nodes[i].value
      BY <1>1 DEF Same
    <3> QED BY <1>1, <3>1, BelowClimbs
  <2>2. \A i \in Frames : i # Len(stack) => i \in Frames'
    BY <1>2, <2>1 DEF Frames
  <2>3. t = stack[Len(stack)]
    BY <1>0 DEF Top
  <2> QED BY <2>1, <2>2, <2>3 DEF Open
<1>5. Held(t)'
  <2>1. CASE Below(stack) = <<>>
    BY <1>1, <2>1 DEF Held, Complete
  <2>2. CASE Below(stack) # <<>>
    <3>1. PICK u : u = Top(Below(stack))
      OBVIOUS
    <3>2. /\ Below(stack) \in Seq(1..Len(nodes)) /\ Len(Below(stack)) = Len(stack) - 1
          /\ \A i \in 1..(Len(stack) - 1) : i \in 1..Len(stack) /\ Below(stack)[i] = stack[i]
      BY <1>1, BelowKeeps DEF ParserInv, ParserTypes
    <3>3. Len(stack) - 1 \in 1..(Len(stack) - 1) /\ Len(stack) - 1 # Len(stack)
      BY <1>2, <2>2, <3>2, EmptySeq
    <3>4. u = stack[Len(stack) - 1] /\ Len(stack) - 1 \in Frames
      BY <3>1, <3>2, <3>3 DEF Top, Frames
    <3>5. u \in 1..Len(nodes) /\ u < t
      BY <1>0, <1>1, <3>3, <3>4, TopFacts, FrameEnds DEF ParserInv, Numbered
    <3>6. nodes'[u].kids = Append(nodes[u].kids, t)
      BY <1>1, <2>2, <3>1, <3>5 DEF KidsWith
    <3>7. \E j \in 1..Len(nodes'[u].kids) : nodes'[u].kids[j] = t
      BY <1>2, <3>5, <3>6, KidNew
    <3>8. u \in 1..(t - 1)
      BY <1>2, <3>5
    <3> QED BY <1>3, <3>5, <3>7, <3>8 DEF Held
  <2> QED BY <2>1, <2>2
<1>6. ASSUME NEW k \in 1..Len(nodes), Held(k) PROVE Held(k)'
  <2>1. k # root
    BY <1>2
  <2>2. \A p \in 1..(k - 1) : p \in 1..Len(nodes)
    BY <1>2
  <2>3. CASE Open(k)
    BY <1>4, <1>5, <2>3 DEF Held
  <2>4. CASE ~Open(k)
    <3>1. PICK p \in 1..(k - 1) : \E j \in 1..Len(nodes[p].kids) : nodes[p].kids[j] = k
      BY <1>6, <2>1, <2>4 DEF Held
    <3>2. \E j \in 1..Len(nodes'[p].kids) : nodes'[p].kids[j] = k
      <4>1. p \in 1..Len(nodes)
        BY <2>2
      <4>2. nodes'[p].kids = KidsWith(p, t, Below(stack))
        BY <1>1, <4>1
      <4>3. PICK j \in 1..Len(nodes[p].kids) : nodes[p].kids[j] = k
        BY <3>1
      <4>4. t \in Nat
        BY <1>2
      <4>5. j \in 1..Len(nodes'[p].kids) /\ nodes'[p].kids[j] = nodes[p].kids[j]
        BY <4>1, <4>2, <4>4, KidKept
      <4> QED BY <4>3, <4>5
    <3> QED BY <1>3, <2>2, <3>2 DEF Held
  <2> QED BY <2>3, <2>4
<1>7. \A k : <<"node", k>> \in live' => k \in 1..Len(nodes') /\ Held(k)'
  BY <1>1, <1>6 DEF Reached
<1>8. \A k : <<"value", k>> \in live' => k \in 1..Len(nodes') /\ nodes'[k].value /\ Held(k)'
  BY <1>1, <1>6 DEF Reached, Same
<1> QED BY <1>1, <1>3, <1>7, <1>8 DEF Reached

\* A failed child: its parent is freed with what hangs on it.
LEMMA UnwindReaches ==
  ASSUME ParserInv, Numbered, Reached, unwind
  PROVE  Reached'
<1>1. pc = "unwind" /\ root = 0 /\ UNCHANGED <<input, pos, nodes, root, starved>>
  BY DEF unwind, ParserInv, CallBegins
<1>2. CASE stack = <<>>
  <2>1. pc' = "parsed" /\ UNCHANGED <<stack, live>>
    BY <1>2 DEF unwind
  <2> QED BY <1>1, <2>1 DEF Reached, Held, Open, Frames
<1>3. CASE stack # <<>>
  <2>1. PICK t : t = Top(stack)
    OBVIOUS
  <2>2. /\ pc' = "unwind" /\ stack' = Below(stack)
        /\ live' = live \ BlocksOf(Subtree(t)) /\ t \in 1..Len(nodes) /\ t = stack[Len(stack)]
    BY <1>1, <1>3, <2>1, TopFacts DEF unwind, asn1_free, LeavesCall, Numbered
  <2>3. /\ t \in Subtree(t)
        /\ \A p \in Subtree(t) : \A k \in 1..Len(nodes[p].kids) : nodes[p].kids[k] \in Subtree(t)
    BY <2>2, SubtreeFacts DEF ParserInv, Numbered
  <2>4. \A k : Open(k) => Open(k)' \/ k = t
    <3>1. Len(stack') = Len(stack) - 1 /\ \A i \in Frames' : i \in Frames /\ stack'[i] = stack[i]
      <4>1. \A i \in 1..Len(nodes) : nodes'[i].value = nodes[i].value
        BY <1>1
      <4> QED BY <1>3, <2>2, <4>1, BelowClimbs
    <3>2. \A i \in Frames : i # Len(stack) => i \in Frames'
      BY <3>1, LenProperties DEF Frames, ParserInv, ParserTypes
    <3> QED BY <2>2, <3>1, <3>2 DEF Open
  <2>5. \A k : <<"node", k>> \in live' <=> <<"node", k>> \in live /\ k \notin Subtree(t)
    BY <2>2, BlockOf
  <2>6. \A k : <<"value", k>> \in live' => /\ <<"value", k>> \in live
                                           /\ ~(k \in Subtree(t) /\ nodes[k].value)
    BY <2>2, BlockOf
  <2>7. ASSUME NEW k \in 1..Len(nodes), Held(k), k \notin Subtree(t) PROVE Held(k)'
    <3>1. k # root /\ k # t
      BY <1>1, <2>3, <2>7
    <3>2. CASE Open(k)
      BY <2>4, <3>1, <3>2 DEF Held
    <3>3. CASE ~Open(k)
      <4>1. PICK p \in 1..(k - 1) :
               /\ \E j \in 1..Len(nodes[p].kids) : nodes[p].kids[j] = k
               /\ Open(p) \/ p = root \/ <<"node", p>> \in live
        BY <2>7, <3>1, <3>3 DEF Held
      <4>2. p \notin Subtree(t) /\ p # t /\ p # root
        BY <1>1, <2>3, <2>7, <4>1
      <4>3. Open(p)' \/ <<"node", p>> \in live'
        BY <2>4, <2>5, <4>1, <4>2
      <4> QED BY <1>1, <4>1, <4>3 DEF Held
    <3> QED BY <3>2, <3>3
  <2>8. \A k : <<"node", k>> \in live' => k \in 1..Len(nodes') /\ Held(k)'
    BY <1>1, <2>5, <2>7 DEF Reached
  <2>9. \A k : <<"value", k>> \in live' => k \in 1..Len(nodes') /\ nodes'[k].value /\ Held(k)'
    BY <1>1, <2>6, <2>7 DEF Reached
  <2> QED BY <2>2, <2>8, <2>9 DEF Reached
<1> QED BY <1>2, <1>3

LEMMA StepReaches ==
  ASSUME ParserInv, Numbered, Reached, ParserStep
  PROVE  Reached'
<1>1. CASE node_refused \/ malloc_fails
  <2>1. pc' = "unwind" /\ UNCHANGED <<nodes, stack, root, live>>
    BY <1>1 DEF node_refused, malloc_fails, parser
  <2> QED BY <2>1 DEF Reached, Held, Open, Frames
<1> QED BY <1>1, OpenReaches, PrimitiveReaches, CloseReaches, UnwindReaches DEF ParserStep

\* A call that returns leaves nothing: what it made is the tree that is freed,
\* and a call that failed has freed it already.
LEMMA AllFreed ==
  ASSUME ParserInv, Numbered, Reached, pc \in {"idle", "parsed"}
  PROVE  /\ root = 0 => live = {}
         /\ root # 0 => asn1_free(root) = {}
<1>1. \A n : ~Open(n)
  <2>1. Len(stack) = 0
    BY EmptySeq DEF Numbered, StackClimbs
  <2> QED BY <2>1 DEF Open, Frames
<1>2. \A b \in live : \E n \in 1..Len(nodes) : b = <<"node", n>> \/ b = <<"value", n>>
  BY DEF Reached, ParserInv, ParserTypes
<1>3. ASSUME root = 0 PROVE live = {}
  <2> DEFINE T == {n \in 1..Len(nodes) : <<"node", n>> \in live \/ <<"value", n>> \in live}
  <2>1. ASSUME T # {} PROVE FALSE
    <3>1. T \in SUBSET Nat
      OBVIOUS
    <3>2. PICK n \in T : \A m \in T : n <= m
      <4> HIDE DEF T
      <4> QED BY <2>1, <3>1, LeastNumber
    <3>3. Held(n) /\ n # root /\ n \in 1..Len(nodes)
      BY <1>3 DEF Reached
    <3>4. PICK p \in 1..(n - 1) : Open(p) \/ p = root \/ <<"node", p>> \in live
      BY <1>1, <3>3 DEF Held
    <3>5. p \in T
      BY <1>1, <1>3, <3>3, <3>4
    <3> QED BY <3>2, <3>4, <3>5
  <2> QED BY <1>2, <2>1
<1>4. ASSUME root # 0 PROVE asn1_free(root) = {}
  <2>1. root \in 1..Len(nodes)
    BY <1>4 DEF ParserInv, ParserTypes
  <2>2. /\ root \in Subtree(root)
        /\ \A p \in Subtree(root) : \A k \in 1..Len(nodes[p].kids) :
             nodes[p].kids[k] \in Subtree(root)
    BY <2>1, SubtreeFacts DEF ParserInv, Numbered
  <2> DEFINE S == {n \in Nat : <<"node", n>> \in live \/ <<"value", n>> \in live => n \in Subtree(root)}
  <2>3. ASSUME NEW n \in Nat, \A m \in 0..(n - 1) : m \in S PROVE n \in S
    <3> SUFFICES ASSUME <<"node", n>> \in live \/ <<"value", n>> \in live
                 PROVE  n \in Subtree(root)
      OBVIOUS
    <3>1. Held(n)
      BY DEF Reached
    <3>2. CASE n = root
      BY <2>2, <3>2
    <3>3. CASE n # root
      <4>1. PICK p \in 1..(n - 1) :
               /\ \E k \in 1..Len(nodes[p].kids) : nodes[p].kids[k] = n
               /\ p = root \/ <<"node", p>> \in live
        BY <1>1, <3>1, <3>3 DEF Held
      <4>2. p \in S
        BY <2>3, <4>1
      <4>3. p \in Subtree(root)
        BY <2>2, <4>1, <4>2
      <4> QED BY <2>2, <4>1, <4>3
    <3> QED BY <3>2, <3>3
  <2>4. Nat \subseteq S
    <3> HIDE DEF S
    <3> QED BY <2>3, StrongInduction
  <2>5. ASSUME NEW b \in live PROVE b \in BlocksOf(Subtree(root))
    <3>1. PICK n \in 1..Len(nodes) : b = <<"node", n>> \/ b = <<"value", n>>
      BY <1>2
    <3>2. n \in Subtree(root)
      <4>1. n \in S
        BY <2>4
      <4> QED BY <3>1, <4>1
    <3>3. CASE b = <<"node", n>>
      BY <3>2, <3>3, BlockOf
    <3>4. CASE b = <<"value", n>>
      <4>1. nodes[n].value
        BY <3>4 DEF Reached
      <4> QED BY <3>2, <3>4, <4>1, BlockOf
    <3> QED BY <3>1, <3>3, <3>4
  <2> QED BY <2>5 DEF asn1_free
<1> QED BY <1>3, <1>4

-------------------------------------------------------------------------------
(* What is copied out of the tree *)

\* A copy with its source and its field around it.
Inside(c) == c.from + c.count <= c.size /\ c.at + c.count <= c.room

SafeCopy ==
  {c \in [from : Nat, count : Nat, size : Nat, at : Nat, room : Nat] : Inside(c)}

AllFit == ParserTypes /\ \A n \in 1..Len(nodes) : NodeFits(n)

LEMMA LeastIs ==
  ASSUME NEW T, T \subseteq Nat, T # {}
  PROVE  Min(T) \in T /\ \A m \in T : Min(T) <= m
<1>1. \E n \in T : \A m \in T : n <= m
  BY LeastNumber
<1> QED BY <1>1 DEF Min

LEMMA LesserIs ==
  ASSUME NEW a \in Nat, NEW b \in Nat
  PROVE  Min({a, b}) \in Nat /\ Min({a, b}) <= a /\ Min({a, b}) <= b
<1>1. {a, b} \subseteq Nat /\ {a, b} # {}
  OBVIOUS
<1> QED BY <1>1, LeastIs

\* What is found is a node with the tag.
LEMMA FindIs ==
  ASSUME AllFit, NEW t \in 1..Len(nodes), NEW tag, NEW n, n = asn1_find(t, tag), n # 0
  PROVE  n \in 1..Len(nodes) /\ nodes[n].tag = tag
<1> DEFINE found == {m \in UNION {Subtree(c) : c \in Following(t)} : nodes[m].tag = tag}
<1>1. found # {} /\ n = Min(found)
  BY DEF asn1_find
<1>2. \A c \in Following(t) : c \in 1..Len(nodes)
  BY DEF Following
<1>3. \A c \in 1..Len(nodes) : Subtree(c) \subseteq 1..Len(nodes)
  BY SubtreeFacts DEF AllFit
<1>4. found \subseteq 1..Len(nodes)
  BY <1>2, <1>3
<1>5. n \in found
  <2>1. found \subseteq Nat
    BY <1>4
  <2> HIDE DEF found
  <2> QED BY <1>1, <2>1, LeastIs
<1> QED BY <1>4, <1>5

\* The value of a node is a string of bytes.
LEMMA ValueBytes ==
  ASSUME AllFit, NEW n \in 1..Len(nodes)
  PROVE  Value(n) \in Seq(Byte)
<1>1. nodes[n].at \in Nat /\ EndOf(n) \in Nat /\ EndOf(n) <= Len(input) /\ input \in Seq(Byte)
  BY NodeFacts DEF AllFit, ParserTypes, NodeFits
<1>2. PICK a \in Int, b \in Int : a = nodes[n].at + 1 /\ b = EndOf(n)
  BY <1>1
<1>3. \A i \in a..b : input[i] \in Byte
  <2>1. \A i \in a..b : i \in 1..Len(input)
    BY <1>1, <1>2, LenProperties
  <2> QED BY <1>1, <2>1, ElementOfSeq
<1>4. SubSeq(input, a, b) \in Seq(Byte)
  BY <1>3, SubSeqProperties
<1> QED BY <1>2, <1>4 DEF Value

\* The serial number: at most as much as there is and as fits.
LEMMA SerialInside ==
  ASSUME AllFit, NEW t \in 1..Len(nodes)
  PROVE  \A c \in Serial(t).copies : Inside(c)
<1>1. PICK n : n = asn1_find(t, ASN1_INTEGER)
  OBVIOUS
<1>2. CASE n = 0
  BY <1>1, <1>2 DEF Serial, Nothing
<1>3. CASE n # 0
  <2>1. n \in 1..Len(nodes)
    BY <1>1, <1>3, FindIs
  <2>2. nodes[n].length \in Nat /\ SerialCap \in Nat
    BY <2>1, NodeFacts, X509Assumption DEF AllFit
  <2>3. PICK count : count = Min({nodes[n].length, SerialCap})
    OBVIOUS
  <2>4. count \in Nat /\ count <= nodes[n].length /\ count <= SerialCap
    BY <2>2, <2>3, LesserIs
  <2>5. Serial(t).copies = {Copied(n, 0, count, 0, SerialCap)}
    BY <1>1, <1>3, <2>3 DEF Serial
  <2> QED BY <2>2, <2>4, <2>5 DEF Copied, Inside
<1> QED BY <1>2, <1>3

\* The key and the signature: the first byte of the value is left out, and a
\* value without a first byte is never in a tree.
LEMMA KeyInside ==
  ASSUME AllFit, NEW n \in 1..Len(nodes), nodes[n].tag = ASN1_BIT_STRING
  PROVE  \A c \in KeyBytes(n).copies : Inside(c)
<1>1. nodes[n].length \in Nat /\ nodes[n].length # 0 /\ KeyCap \in Nat
  <2>1. ~Constructed(nodes[n].tag)
    BY DEF Constructed, ASN1_BIT_STRING
  <2>2. nodes[n].length > 0
    BY <2>1 DEF AllFit, NodeFits
  <2> QED BY <2>2, NodeFacts, X509Assumption DEF AllFit
<1>2. PICK count : count = Min({nodes[n].length - 1, KeyCap})
  OBVIOUS
<1>3. count \in Nat /\ count <= nodes[n].length - 1 /\ count <= KeyCap
  <2>1. nodes[n].length - 1 \in Nat
    BY <1>1
  <2> QED BY <1>1, <1>2, <2>1, LesserIs
<1>4. KeyBytes(n).copies = {Copied(n, 1, count, 0, KeyCap)}
  BY <1>1, <1>2 DEF KeyBytes
<1> QED BY <1>1, <1>3, <1>4 DEF Copied, Inside

\* A name: each string is copied behind the ones before, where it fits.
LEMMA NameInside ==
  ASSUME AllFit, NEW n
  PROVE  \A c \in Name(n).copies : Inside(c)
<1>0. PICK l \in Nat : l = Len(nodes)
  BY LenProperties DEF AllFit, ParserTypes
<1> DEFINE strings == IF n = 0 THEN {} ELSE Strings(n)
           D == 0..l
           V == [text : Seq(Byte), copies : SUBSET SafeCopy]
           Added(i, g) ==
             [text   |-> g[i - 1].text \o Value(i) \o <<47>>,
              copies |-> g[i - 1].copies
                           \cup {Copied(i, 0, nodes[i].length, Len(g[i - 1].text), NameCap - 1)}]
           B(i, g) == IF i = 0 THEN Nothing
                      ELSE IF i \in strings /\ HasRoom(Len(g[i - 1].text), nodes[i].length)
                           THEN Added(i, g) ELSE g[i - 1]
           name == CHOOSE f : f = [i \in 0..l |-> B(i, f)]
           rank == [i \in D |-> i]
           F == [i \in D |-> [g \in [D -> V] |-> B(i, g)]]
<1>1. Name(n) = [name[l] EXCEPT !.text = SubSeq(@, 1, Len(@) - 1)]
  BY <1>0, Zenon DEF Name
<1>2. Nothing \in V
  BY EmptySeq DEF Nothing
<1>3. ASSUME NEW i \in 1..l, NEW g, g[i - 1] \in V
      PROVE  B(i, g) \in V
  <2>1. PICK text, copied : text = g[i - 1].text /\ copied = g[i - 1].copies
    OBVIOUS
  <2>2. text \in Seq(Byte) /\ copied \subseteq SafeCopy /\ Len(text) \in Nat
    BY <1>3, <2>1, LenProperties
  <2>3. Value(i) \in Seq(Byte) /\ nodes[i].length \in Nat
    BY <1>0, ValueBytes, NodeFacts DEF AllFit
  <2>4. CASE i \in strings /\ HasRoom(Len(text), nodes[i].length)
    <3>1. text \o Value(i) \o <<47>> \in Seq(Byte)
      <4>1. <<47>> \in Seq(Byte)
        BY DEF Byte
      <4>2. text \o Value(i) \in Seq(Byte)
        BY <2>2, <2>3, ConcatProperties
      <4> QED BY <4>1, <4>2, ConcatProperties
    <3>2. Copied(i, 0, nodes[i].length, Len(text), NameCap - 1) \in SafeCopy
      <4>1. NameCap \in Nat /\ NameCap - 1 \in Nat
        BY X509Assumption
      <4>2. Len(text) + nodes[i].length <= NameCap - 1
        BY <2>2, <2>3, <2>4, <4>1 DEF HasRoom
      <4> QED BY <2>2, <2>3, <4>1, <4>2 DEF Copied, SafeCopy, Inside
    <3>3. copied \cup {Copied(i, 0, nodes[i].length, Len(text), NameCap - 1)} \in SUBSET SafeCopy
      BY <2>2, <3>2
    <3>4. [text   |-> text \o Value(i) \o <<47>>,
           copies |-> copied \cup {Copied(i, 0, nodes[i].length, Len(text), NameCap - 1)}] \in V
      BY <3>1, <3>3
    <3>5. B(i, g) = Added(i, g)
      BY <2>1, <2>4
    <3> QED BY <2>1, <3>4, <3>5
  <2>5. CASE ~(i \in strings /\ HasRoom(Len(text), nodes[i].length))
    BY <1>3, <2>1, <2>5
  <2> QED BY <2>4, <2>5
<1>4. ASSUME NEW g, B(0, g) # Nothing PROVE FALSE
  BY <1>4
<1>5. \A i \in D : i = 0 \/ (i \in 1..l /\ i - 1 \in D)
  BY <1>0
<1>6. ASSUME NEW g, NEW h, NEW i \in 1..l, g[i - 1] = h[i - 1]
      PROVE  B(i, g) = B(i, h)
  BY <1>6
<1> HIDE DEF B, Added
<1>7. Recursion(F, D, V, rank, l)
  <2>1. \A i \in D : rank[i] \in 0..l
    OBVIOUS
  <2>2. [D -> V] # {}
    <3> HIDE DEF V
    <3>1. [i \in D |-> Nothing] \in [D -> V]
      BY <1>2
    <3> QED BY <3>1
  <2>3. ASSUME NEW i \in D, NEW g \in [D -> V] PROVE F[i][g] = B(i, g) /\ B(i, g) \in V
    <3> HIDE DEF V
    <3>1. F[i][g] = B(i, g)
      OBVIOUS
    <3>2. i # 0 => g[i - 1] \in V
      BY <1>5
    <3> HIDE DEF F
    <3> QED BY <1>2, <1>3, <1>4, <1>5, <3>1, <3>2
  <2>4. ASSUME NEW g \in [D -> V], NEW h \in [D -> V], NEW i \in D,
               \A y \in D : rank[y] < rank[i] => g[y] = h[y]
        PROVE  F[i][g] = F[i][h]
    <3>1. F[i][g] = B(i, g) /\ F[i][h] = B(i, h)
      BY <2>3
    <3>2. CASE i = 0
      BY <1>4, <3>1, <3>2
    <3>3. CASE i # 0
      <4>1. i \in 1..l /\ i - 1 \in D
        BY <1>5, <3>3
      <4>2. g[i - 1] = h[i - 1]
        <5>1. rank[i - 1] = i - 1 /\ rank[i] = i
          BY <4>1
        <5> QED BY <2>4, <4>1, <5>1
      <4> QED BY <1>6, <3>1, <4>1, <4>2
    <3> QED BY <3>2, <3>3
  <2> HIDE DEF F, D, V, rank
  <2> QED BY <1>0, <2>1, <2>2, <2>3, <2>4 DEF Recursion
<1>8. \A i \in D, g \in [D -> V] : F[i][g] = B(i, g)
  BY DEF F
<1>9. PICK f \in [D -> V] : \A i \in D : f[i] = F[i][f]
  <2> HIDE DEF F, D, V, rank
  <2> QED BY <1>7, RecursiveFunction
<1> HIDE DEF F
<1>10. f = [i \in D |-> B(i, f)]
  <2> HIDE DEF V
  <2> QED BY <1>8, <1>9
<1>11. name = [i \in D |-> B(i, name)]
  BY <1>10
<1> HIDE DEF name, V
<1>12. \A i \in D : name[i] = B(i, name)
  <2> HIDE DEF D
  <2> QED BY <1>11
<1> DEFINE S == {i \in D : name[i] \in V}
<1>13. 0 \in S
  BY <1>2, <1>4, <1>12
<1>14. ASSUME NEW i \in 0..(l - 1), i \in S PROVE i + 1 \in S
  <2>1. i + 1 \in 1..l /\ i + 1 \in D /\ i + 1 - 1 = i
    BY <1>0
  <2>2. name[i + 1 - 1] \in V
    BY <1>14, <2>1
  <2>3. B(i + 1, name) \in V
    BY <1>3, <2>1, <2>2
  <2> QED BY <1>12, <2>1, <2>3
<1>15. 0..l \subseteq S
  <2> HIDE DEF S
  <2> QED BY <1>13, <1>14, InductionUpTo
<1>16. name[l] \in V
  BY <1>0, <1>15
<1>17. Name(n).copies \subseteq SafeCopy
  <2>1. PICK text : Name(n) = [name[l] EXCEPT !.text = text]
    BY <1>1
  <2> QED BY <1>16, <2>1 DEF V
<1> QED BY <1>17 DEF SafeCopy

\* Everything that is copied out of a tree.
LEMMA ExtractedInside ==
  ASSUME AllFit, root # 0, NEW t \in 1..Len(nodes), NEW got, got = Extracted(t)
  PROVE  \A f \in DOMAIN got : \A c \in got[f].copies : Inside(c)
<1>1. root \in 1..Len(nodes)
  BY DEF AllFit, ParserTypes
<1>2. PICK key : key = asn1_find(root, ASN1_BIT_STRING)
  OBVIOUS
<1>3. key # 0 => \A c \in KeyBytes(key).copies : Inside(c)
  BY <1>1, <1>2, FindIs, KeyInside
<1>4. PICK next : got.subject = Name(asn1_find(next, ASN1_SEQUENCE))
  BY DEF Extracted
<1>5. \A c \in Nothing.copies : Inside(c)
  BY DEF Nothing
<1>6. /\ DOMAIN got = {"serial_number", "issuer", "subject", "public_key", "signature"}
      /\ got.serial_number = Serial(t) /\ got.issuer = Name(asn1_find(t, ASN1_SEQUENCE))
      /\ got.public_key = IF key = 0 THEN Nothing ELSE KeyBytes(key)
      /\ got.signature = Nothing
  BY <1>2 DEF Extracted
<1> QED BY <1>3, <1>4, <1>5, <1>6, SerialInside, NameInside

-------------------------------------------------------------------------------
(* What is accepted *)

\* A header that ends before `end` is read with that end as well.
LEMMA LengthNarrows ==
  ASSUME NEW d \in Seq(Byte), NEW p \in Nat, NEW end \in 0..Len(d),
         NEW h \in asn1_read_length(d, p, Len(d)), h.next <= end
  PROVE  h \in asn1_read_length(d, p, end)
<1> DEFINE first == d[p + 1]
           more  == first % 128
           read(e) == IF first < 128 THEN {[length |-> first, next |-> p + 1]}
                      ELSE IF more <= 4 /\ p + 1 + more <= e
                           THEN {[length |-> BigEndian(d, p + 1, more), next |-> p + 1 + more]}
                           ELSE {}
<1>1. Len(d) \in 0..Len(d)
  BY LenProperties
<1>2. p < h.next /\ h.next \in Nat
  BY <1>1, LengthRead
<1>3. ~(p >= end)
  BY <1>2
<1>4. asn1_read_length(d, p, end) = read(end)
  BY <1>3, Zenon DEF asn1_read_length
<1>5. h \in read(Len(d))
  BY Zenon DEF asn1_read_length
<1> HIDE DEF first, more
<1>6. CASE first < 128
  BY <1>4, <1>5, <1>6
<1>7. CASE ~(first < 128) /\ more <= 4 /\ p + 1 + more <= Len(d)
  <2> DEFINE r == [length |-> BigEndian(d, p + 1, more), next |-> p + 1 + more]
  <2>1. h = r
    BY <1>5, <1>7, Zenon
  <2>2. p + 1 + more <= end
    BY <2>1
  <2>3. read(end) = {r}
    BY <1>7, <2>2, Zenon
  <2> HIDE DEF read, r
  <2> QED BY <1>4, <2>1, <2>3
<1>8. CASE ~(first < 128) /\ ~(more <= 4 /\ p + 1 + more <= Len(d))
  BY <1>5, <1>8, Zenon
<1> QED BY <1>6, <1>7, <1>8

\* The header h at offset p of d is that of a well-formed element.
WellFormed(d, p, h, ends) ==
  /\ h.next + h.length <= Len(d)
  /\ IF Constructed(d[p + 1]) THEN h.next + h.length \in ends[h.next] ELSE h.length > 0

LEMMA EndsAre ==
  ASSUME NEW d \in Seq(Byte), NEW p \in Nat, NEW ends, NEW e
  PROVE  e \in ElementEnds(d, p, ends) <=>
           \E h \in asn1_read_length(d, p + 1, Len(d)) :
             WellFormed(d, p, h, ends) /\ e = h.next + h.length
BY DEF ElementEnds, WellFormed

LEMMA HeaderNumbers ==
  ASSUME NEW d \in Seq(Byte), NEW p \in Nat, NEW h \in asn1_read_length(d, p + 1, Len(d))
  PROVE  h.length \in Nat /\ h.next \in Nat /\ p + 2 <= h.next /\ h.next <= Len(d)
<1>1. Len(d) \in 0..Len(d) /\ p + 1 \in Nat
  BY LenProperties
<1>2. PICK q \in Nat : q = p + 1
  BY <1>1
<1> QED BY <1>1, <1>2, LengthRead

\* RowEnds is the function its definition describes.
LEMMA RowIs ==
  ASSUME NEW d \in Seq(Byte)
  PROVE  \A p \in 0..Len(d) :
           RowEnds(d)[p] = {p} \cup UNION {RowEnds(d)[e] : e \in ElementEnds(d, p, RowEnds(d))}
<1>0. PICK l \in Nat : l = Len(d)
  BY LenProperties
<1> DEFINE D == 0..l
           V == SUBSET D
           B(p, g) == {p} \cup UNION {g[e] : e \in ElementEnds(d, p, g)}
           row  == CHOOSE f : f = [p \in D |-> B(p, f)]
           rank == [p \in D |-> l - p]
           F    == [p \in D |-> [g \in [D -> V] |-> B(p, g)]]
<1>1. RowEnds(d) = row
  BY <1>0, Zenon DEF RowEnds
<1>2. ASSUME NEW p \in D, NEW g, NEW e \in ElementEnds(d, p, g)
      PROVE  e \in D /\ p < e
  <2>1. p \in Nat
    BY <1>0
  <2>2. PICK h \in asn1_read_length(d, p + 1, Len(d)) :
           WellFormed(d, p, h, g) /\ e = h.next + h.length
    BY <2>1, EndsAre
  <2>3. h.length \in Nat /\ h.next \in Nat /\ p + 2 <= h.next
    BY <2>1, HeaderNumbers
  <2> QED BY <1>0, <2>1, <2>2, <2>3 DEF WellFormed
<1>3. ASSUME NEW p \in D, NEW g \in [D -> V] PROVE B(p, g) \in V
  BY <1>2
<1>4. ASSUME NEW p \in D, NEW g \in [D -> V], NEW k \in [D -> V],
             \A q \in D : p < q => g[q] = k[q]
      PROVE  B(p, g) = B(p, k)
  <2>1. p \in Nat
    BY <1>0
  <2>2. ASSUME NEW h \in asn1_read_length(d, p + 1, Len(d))
        PROVE  WellFormed(d, p, h, g) <=> WellFormed(d, p, h, k)
    <3>1. h.next \in Nat /\ p + 2 <= h.next /\ h.next <= l
      BY <1>0, <2>1, HeaderNumbers
    <3>2. g[h.next] = k[h.next]
      BY <1>4, <2>1, <3>1
    <3> QED BY <3>2 DEF WellFormed
  <2>3. \A e : e \in ElementEnds(d, p, g) <=> e \in ElementEnds(d, p, k)
    BY <2>1, <2>2, EndsAre
  <2>4. ElementEnds(d, p, g) = ElementEnds(d, p, k)
    BY <2>3
  <2>5. \A e \in ElementEnds(d, p, k) : g[e] = k[e]
    BY <1>2, <1>4
  <2> QED BY <2>4, <2>5
<1> HIDE DEF B
<1>5. Recursion(F, D, V, rank, l)
  <2>1. \A p \in D : rank[p] \in 0..l
    BY <1>0
  <2>2. [D -> V] # {}
    <3>1. [p \in D |-> {}] \in [D -> V]
      OBVIOUS
    <3> QED BY <3>1
  <2>3. \A p \in D : \A g \in [D -> V] : F[p][g] = B(p, g)
    <3> HIDE DEF D, V
    <3> QED OBVIOUS
  <2>4. \A p \in D : \A g \in [D -> V] : F[p][g] \in V
    <3> HIDE DEF F
    <3> QED BY <1>3, <2>3
  <2>5. ASSUME NEW g \in [D -> V], NEW k \in [D -> V], NEW p \in D,
               \A y \in D : rank[y] < rank[p] => g[y] = k[y]
        PROVE  F[p][g] = F[p][k]
    <3>1. \A q \in D : p < q => rank[q] < rank[p]
      BY <1>0
    <3> HIDE DEF F, rank
    <3>2. B(p, g) = B(p, k)
      BY <1>4, <2>5, <3>1
    <3> QED BY <2>3, <3>2
  <2> HIDE DEF F, D, V, rank
  <2> QED BY <1>0, <2>1, <2>2, <2>4, <2>5 DEF Recursion
<1>6. \A p \in D : \A g \in [D -> V] : F[p][g] = B(p, g)
  <2> HIDE DEF D, V
  <2> QED OBVIOUS
<1> HIDE DEF F, V, rank, D
<1>7. PICK f \in [D -> V] : \A p \in D : f[p] = F[p][f]
  BY <1>5, RecursiveFunction
<1>8. f = [p \in D |-> B(p, f)]
  BY <1>6, <1>7
<1>9. row = [p \in D |-> B(p, row)]
  BY <1>8
<1> HIDE DEF row
<1>10. \A p \in D : row[p] = B(p, row)
  BY <1>9
<1> QED BY <1>0, <1>1, <1>10 DEF B, D

\* A row ends no sooner than it begins, and in the input.
LEMMA RowAhead ==
  ASSUME NEW d \in Seq(Byte), NEW p \in 0..Len(d), NEW x \in RowEnds(d)[p]
  PROVE  x \in p..Len(d)
<1>0. PICK l \in Nat : l = Len(d)
  BY LenProperties
<1>1. PICK R : R = RowEnds(d)
  OBVIOUS
<1> DEFINE Ahead(q) == \A y \in R[q] : y \in q..l
           S == {n \in Nat : n <= l => Ahead(l - n)}
<1>2. ASSUME NEW q \in 0..l, \A e \in (q + 1)..l : Ahead(e)
      PROVE  Ahead(q)
  <2>1. R[q] = {q} \cup UNION {R[e] : e \in ElementEnds(d, q, R)}
    BY <1>0, <1>1, RowIs
  <2>2. ASSUME NEW e \in ElementEnds(d, q, R) PROVE e \in (q + 1)..l
    <3>1. PICK h \in asn1_read_length(d, q + 1, Len(d)) :
             WellFormed(d, q, h, R) /\ e = h.next + h.length
      BY EndsAre
    <3>2. h.length \in Nat /\ h.next \in Nat /\ q + 2 <= h.next
      BY HeaderNumbers
    <3> QED BY <1>0, <3>1, <3>2 DEF WellFormed
  <2>3. ASSUME NEW y \in R[q] PROVE y \in q..l
    <3>1. CASE y = q
      BY <1>0, <3>1
    <3>2. CASE \E e \in ElementEnds(d, q, R) : y \in R[e]
      <4>1. PICK e \in (q + 1)..l : y \in R[e]
        BY <2>2, <3>2
      <4>2. y \in e..l
        BY <1>2, <4>1
      <4> QED BY <4>1, <4>2
    <3> QED BY <2>1, <3>1, <3>2
  <2> QED BY <2>3
<1> HIDE DEF Ahead
<1>3. ASSUME NEW n \in Nat, \A m \in 0..(n - 1) : m \in S PROVE n \in S
  <2> SUFFICES ASSUME n <= l PROVE Ahead(l - n)
    OBVIOUS
  <2>1. l - n \in 0..l
    BY <1>0
  <2>2. ASSUME NEW e \in ((l - n) + 1)..l PROVE Ahead(e)
    <3>1. l - e \in 0..(n - 1) /\ l - e <= l /\ l - (l - e) = e
      BY <1>0
    <3>2. l - e \in S
      BY <1>3, <3>1
    <3> QED BY <3>1, <3>2
  <2> QED BY <1>2, <2>1, <2>2
<1>4. Nat \subseteq S
  <2> HIDE DEF S
  <2> QED BY <1>3, StrongInduction
<1>5. Ahead(p)
  <2>1. l - p \in Nat /\ l - p <= l /\ l - (l - p) = p
    BY <1>0
  <2>2. l - p \in S
    BY <1>4, <2>1
  <2> QED BY <2>1, <2>2
<1> QED BY <1>0, <1>1, <1>5 DEF Ahead

\* The offset from which frame i has still to read.
Resume(i) == IF i = Len(stack) THEN pos ELSE EndOf(stack[i + 1])

\* For an input that is to be accepted: the rest of each element that is open
\* is a row of elements, and only a lack of memory makes the call fail.
Promising ==
  OneElement(input) =>
    /\ pc = "parse" => \A i \in Frames : EndOf(stack[i]) \in RowEnds(input)[Resume(i)]
    /\ pc = "unwind" \/ (pc = "parsed" /\ root = 0) => starved

\* The next element of an input that is to be accepted.
LEMMA NextElement ==
  ASSUME ParserInv, Promising, OneElement(input), AtElement
  PROVE  /\ Header # {}
         /\ \A h \in Header :
              /\ WellFormed(input, pos, h, RowEnds(input))
              /\ stack # <<>> => End \in RowEnds(input)[h.next + h.length]
<1>0. PICK R : R = RowEnds(input)
  OBVIOUS
<1>1. input \in Seq(Byte) /\ pos \in Nat /\ Len(input) \in Nat /\ Len(stack) \in Nat
  BY LenProperties DEF ParserInv, ParserTypes
<1>2. End \in 0..Len(input) /\ pos <= End
  BY EndInside DEF ParserInv
<1>3. PICK h0 \in asn1_read_length(input, pos + 1, Len(input)) :
        /\ WellFormed(input, pos, h0, R) /\ h0.next + h0.length <= End
        /\ stack # <<>> => End \in R[h0.next + h0.length]
  <2>1. CASE stack = <<>>
    <3>1. pos = 0 /\ End = Len(input)
      BY <2>1 DEF ParserInv, CallBegins, AtElement, End
    <3>2. PICK e : e \in ElementEnds(input, pos, R)
      BY <1>0, <3>1 DEF OneElement
    <3> QED BY <1>1, <2>1, <3>1, <3>2, EndsAre DEF WellFormed
  <2>2. CASE stack # <<>>
    <3>1. Len(stack) \in Frames /\ End = EndOf(stack[Len(stack)]) /\ pos # End
      BY <1>1, <2>2, EmptySeq DEF Frames, End, Top, AtElement, ParserInv, ParserTypes
    <3>2. End \in R[pos]
      BY <1>0, <3>1 DEF Promising, Resume, AtElement
    <3>3. pos \in 0..Len(input)
      BY <1>1, <1>2
    <3>4. R[pos] = {pos} \cup UNION {R[e] : e \in ElementEnds(input, pos, R)}
      BY <1>0, <1>1, <3>3, RowIs
    <3>5. PICK e \in ElementEnds(input, pos, R) : End \in R[e]
      BY <3>1, <3>2, <3>4
    <3>6. PICK h \in asn1_read_length(input, pos + 1, Len(input)) :
             WellFormed(input, pos, h, R) /\ e = h.next + h.length
      BY <1>1, EndsAre
    <3>7. e \in 0..Len(input)
      <4>1. h.length \in Nat /\ h.next \in Nat
        BY <1>1, HeaderNumbers
      <4> QED BY <1>1, <3>6, <4>1 DEF WellFormed
    <3>8. e <= End
      BY <1>0, <1>1, <3>5, <3>7, RowAhead
    <3> QED BY <3>5, <3>6, <3>8
  <2> QED BY <2>1, <2>2
<1>4. h0.length \in Nat /\ h0.next \in Nat
  BY <1>1, HeaderNumbers
<1>5. h0 \in Header
  <2>1. h0.next <= End /\ pos + 1 \in Nat
    BY <1>1, <1>2, <1>3, <1>4
  <2>2. h0 \in asn1_read_length(input, pos + 1, End)
    BY <1>1, <1>2, <2>1, LengthNarrows
  <2> QED BY <1>3, <2>2 DEF Header
<1>6. ASSUME NEW h \in Header PROVE h0.length = h.length /\ h0.next = h.next
  <2>1. h \in asn1_read_length(input, pos + 1, End) /\ pos + 1 \in Nat
    BY <1>1 DEF Header
  <2>2. asn1_read_length(input, pos + 1, Len(input)) = {[length |-> h.length, next |-> h.next]}
    BY <1>1, <1>2, <2>1, LengthWidens
  <2>3. h0 = [length |-> h.length, next |-> h.next]
    BY <2>2
  <2> QED BY <2>3
<1>7. ASSUME NEW h \in Header
      PROVE  /\ WellFormed(input, pos, h, R)
             /\ stack # <<>> => End \in R[h.next + h.length]
  <2>1. h0.length = h.length /\ h0.next = h.next
    BY <1>6
  <2> QED BY <1>3, <2>1 DEF WellFormed
<1> QED BY <1>0, <1>5, <1>7

LEMMA OpenPromises ==
  ASSUME ParserInv, Promising, open_constructed
  PROVE  Promising'
<1> SUFFICES ASSUME OneElement(input)' PROVE \A i \in Frames' : (EndOf(stack[i]) \in RowEnds(input)[Resume(i)])'
  BY DEF Promising, open_constructed, AtElement
<1> DEFINE f == Len(stack) + 1
<1>0. PICK n : n = Len(nodes) + 1
  OBVIOUS
<1>1. PICK h \in Header :
        /\ AtElement /\ ~NewNode(h).value /\ pos' = h.next
        /\ Len(nodes') = n /\ nodes'[n] = NewNode(h)
        /\ \A i \in 1..Len(nodes) : nodes'[i] = nodes[i]
        /\ Len(stack') = f /\ stack'[f] = n
        /\ \A i \in Frames : stack'[i] = stack[i]
        /\ UNCHANGED <<pc, input, root, starved>>
  BY <1>0, OpenStep
<1>2. PICK R : R = RowEnds(input) /\ RowEnds(input)' = R
  <2>1. RowEnds(input)' = RowEnds(input)
    BY <1>1
  <2> QED BY <2>1
<1>3. OneElement(input) /\ pc = "parse" /\ Len(stack) \in Nat
  BY <1>1, LenProperties DEF AtElement, ParserInv, ParserTypes
<1>4. /\ WellFormed(input, pos, h, R)
      /\ stack # <<>> => End \in R[h.next + h.length]
  BY <1>1, <1>2, <1>3, NextElement
<1>5. h.next + h.length \in R[h.next]
  BY <1>1, <1>4 DEF NewNode, WellFormed
<1>6. EndOf(n)' = h.next + h.length
  BY <1>1 DEF EndOf, NewNode
<1>7. \A k \in Frames : EndOf(stack[k])' = EndOf(stack[k])
  BY <1>1, FrameEnds DEF ParserInv, EndOf
<1>8. ASSUME NEW i \in Frames'
      PROVE  EndOf(stack[i])' \in R[Resume(i)']
  <2>1. CASE i = f
    BY <1>1, <1>5, <1>6, <2>1 DEF Resume, EndOf
  <2>2. CASE i = Len(stack)
    <3>1. i \in Frames /\ i + 1 = f /\ i # f /\ stack # <<>>
      BY <1>1, <1>3, <2>2, EmptySeq DEF Frames
    <3>2. Resume(i)' = h.next + h.length
      BY <1>1, <1>6, <3>1 DEF Resume, EndOf
    <3>3. EndOf(stack[i])' = End
      BY <1>7, <2>2, <3>1 DEF End, Top
    <3> QED BY <1>4, <3>1, <3>2, <3>3
  <2>3. CASE i # f /\ i # Len(stack)
    <3>1. i \in Frames /\ i + 1 \in Frames /\ i # Len(stack')
      BY <1>1, <1>3, <2>3 DEF Frames
    <3>2. Resume(i)' = Resume(i)
      BY <1>1, <1>7, <2>3, <3>1 DEF Resume
    <3>3. EndOf(stack[i]) \in R[Resume(i)]
      BY <1>2, <1>3, <3>1 DEF Promising
    <3> QED BY <1>7, <3>1, <3>2, <3>3
  <2> QED BY <2>1, <2>2, <2>3
<1> QED BY <1>2, <1>8

LEMMA PrimitivePromises ==
  ASSUME ParserInv, Promising, parse_primitive
  PROVE  Promising'
<1>0. PICK n : n = Len(nodes) + 1
  OBVIOUS
<1>1. PICK h \in Header :
        /\ AtElement /\ NewNode(h).value /\ pos' = h.next + h.length
        /\ Len(nodes') = n
        /\ \A i \in 1..Len(nodes) : Same(i)
        /\ Complete(n, stack)
        /\ UNCHANGED <<input, stack, starved>>
  BY <1>0, PrimitiveStep
<1>2. n # 0 /\ Len(stack) \in Nat /\ pc = "parse"
  BY <1>0, <1>1, LenProperties DEF AtElement, ParserInv, ParserTypes
<1>3. CASE stack = <<>>
  <2>1. pc' = "parsed" /\ root' # 0
    BY <1>1, <1>2, <1>3 DEF Complete
  <2> QED BY <2>1 DEF Promising
<1>4. CASE stack # <<>>
  <2> SUFFICES ASSUME OneElement(input)'
               PROVE  \A i \in Frames' : (EndOf(stack[i]) \in RowEnds(input)[Resume(i)])'
    BY <1>1, <1>4 DEF Promising, Complete
  <2>1. PICK R : R = RowEnds(input) /\ RowEnds(input)' = R
    <3>1. RowEnds(input)' = RowEnds(input)
      BY <1>1
    <3> QED BY <3>1
  <2>2. OneElement(input)
    BY <1>1
  <2>3. End \in R[h.next + h.length]
    BY <1>1, <1>4, <2>1, <2>2, NextElement
  <2>4. \A k \in Frames : EndOf(stack[k])' = EndOf(stack[k])
    BY <1>1, FrameEnds DEF ParserInv, EndOf, Same
  <2>5. ASSUME NEW i \in Frames'
        PROVE  EndOf(stack[i])' \in R[Resume(i)']
    <3>1. i \in Frames
      BY <1>1 DEF Frames
    <3>2. CASE i = Len(stack)
      <4>1. Resume(i)' = h.next + h.length
        BY <1>1, <3>2 DEF Resume
      <4>2. EndOf(stack[i])' = End
        BY <1>4, <2>4, <3>1, <3>2 DEF End, Top
      <4> QED BY <2>3, <4>1, <4>2
    <3>3. CASE i # Len(stack)
      <4>1. i + 1 \in Frames
        BY <1>2, <3>1, <3>3 DEF Frames
      <4>2. Resume(i)' = Resume(i)
        BY <1>1, <2>4, <3>3, <4>1 DEF Resume
      <4>3. EndOf(stack[i]) \in R[Resume(i)]
        BY <1>2, <2>1, <2>2, <3>1 DEF Promising
      <4> QED BY <2>4, <3>1, <4>2, <4>3
    <3> QED BY <3>2, <3>3
  <2> QED BY <2>1, <2>5
<1> QED BY <1>3, <1>4

LEMMA ClosePromises ==
  ASSUME ParserInv, Promising, close_constructed
  PROVE  Promising'
<1>1. /\ pc = "parse" /\ stack # <<>> /\ pos = End
      /\ \A i \in 1..Len(nodes) : Same(i)
      /\ stack' = Below(stack) /\ Complete(Top(stack), Below(stack))
      /\ Top(stack) \in 1..Len(nodes)
      /\ UNCHANGED <<input, pos, live, starved>>
  BY CloseStep
<1>2. stack \in Seq(1..Len(nodes)) /\ Len(stack) \in Nat
  BY LenProperties DEF ParserInv, ParserTypes
<1>3. /\ Len(stack') = Len(stack) - 1
      /\ \A i \in 1..(Len(stack) - 1) : i \in 1..Len(stack) /\ stack'[i] = stack[i]
  BY <1>1, <1>2, BelowKeeps
<1>4. CASE Below(stack) = <<>>
  <2>1. pc' = "parsed" /\ root' # 0
    BY <1>1, <1>4 DEF Complete
  <2> QED BY <2>1 DEF Promising
<1>5. CASE Below(stack) # <<>>
  <2> SUFFICES ASSUME OneElement(input)'
               PROVE  \A i \in Frames' : (EndOf(stack[i]) \in RowEnds(input)[Resume(i)])'
    BY <1>1, <1>5 DEF Promising, Complete
  <2>1. PICK R : R = RowEnds(input) /\ RowEnds(input)' = R
    <3>1. RowEnds(input)' = RowEnds(input)
      BY <1>1
    <3> QED BY <3>1
  <2>2. OneElement(input)
    BY <1>1
  <2>3. ASSUME NEW i \in Frames'
        PROVE  EndOf(stack[i])' \in R[Resume(i)']
    <3>1. i \in Frames /\ i + 1 \in Frames /\ i # Len(stack) /\ stack'[i] = stack[i]
      BY <1>2, <1>3 DEF Frames
    <3>2. EndOf(stack[i])' = EndOf(stack[i])
      BY <1>1, <3>1, FrameEnds DEF ParserInv, EndOf, Same
    <3>3. EndOf(stack[i]) \in R[EndOf(stack[i + 1])]
      BY <1>1, <2>1, <2>2, <3>1 DEF Promising, Resume
    <3>4. Resume(i)' = EndOf(stack[i + 1])
      <4>1. CASE i = Len(stack')
        <5>1. i + 1 = Len(stack)
          BY <1>2, <1>3, <4>1
        <5> QED BY <1>1, <4>1, <5>1 DEF Resume, End, Top
      <4>2. CASE i # Len(stack')
        <5>1. i + 1 \in 1..(Len(stack) - 1)
          BY <1>2, <1>3, <3>1, <4>2 DEF Frames
        <5>2. EndOf(stack[i + 1])' = EndOf(stack[i + 1])
          BY <1>1, <1>3, <3>1, <5>1, FrameEnds DEF ParserInv, EndOf, Same
        <5> QED BY <1>3, <4>2, <5>1, <5>2 DEF Resume, EndOf
      <4> QED BY <4>1, <4>2
    <3> QED BY <3>2, <3>3, <3>4
  <2> QED BY <2>1, <2>3
<1> QED BY <1>4, <1>5

LEMMA StepPromises ==
  ASSUME ParserInv, Promising, ParserStep
  PROVE  Promising'
<1>1. CASE node_refused
  <2>1. AtElement /\ pc' = "unwind" /\ input' = input
        /\ \A h \in Header : NewNode(h).value /\ ~Allocatable(h.length)
    BY <1>1 DEF node_refused, parser
  <2>2. ASSUME OneElement(input) PROVE FALSE
    <3>1. PICK h \in Header : WellFormed(input, pos, h, RowEnds(input))
      BY <2>1, <2>2, NextElement
    <3> QED BY <2>1, <3>1 DEF WellFormed, NewNode, Allocatable
  <2> QED BY <2>1, <2>2 DEF Promising
<1>2. CASE malloc_fails
  BY <1>2 DEF malloc_fails, Promising
<1>3. CASE unwind
  <2>1. pc = "unwind" /\ pc' \in {"unwind", "parsed"} /\ UNCHANGED <<input, starved>>
    BY <1>3 DEF unwind
  <2> QED BY <2>1 DEF Promising
<1> QED BY <1>1, <1>2, <1>3, OpenPromises, PrimitivePromises, ClosePromises DEF ParserStep

\* A finished tree shows that the input is well-formed.
LEMMA TreeAccepts ==
  ASSUME AllFit, Grows, root # 0
  PROVE  OneElement(input)
<1>0. PICK R : R = RowEnds(input)
  OBVIOUS
<1>1. PICK l \in Nat : l = Len(nodes)
  BY LenProperties DEF AllFit, ParserTypes
<1>2. input \in Seq(Byte) /\ root \in 1..l /\ Len(input) \in Nat
  BY <1>1, LenProperties DEF AllFit, ParserTypes
<1>3. BeginsAt(root, 0) /\ \A n \in 1..l : Tiles(n) /\ (nodes[n].value \/ AllRead(n) = EndOf(n))
  <2>1. stack = <<>> /\ BeginsAt(root, 0)
    BY DEF Grows
  <2>2. \A n : ~Open(n)
    BY <2>1, EmptySeq DEF Open, Frames
  <2> QED BY <1>1, <2>1, <2>2 DEF Grows
<1> DEFINE Formed(n) == \A p \in 0..Len(input) :
                           BeginsAt(n, p) => EndOf(n) \in ElementEnds(input, p, R)
           S == {k \in Nat : k < l => Formed(l - k)}
<1>4. ASSUME NEW n \in 1..l, \A m \in (n + 1)..l : Formed(m)
      PROVE  Formed(n)
  <2>1. /\ nodes[n].at \in Nat /\ nodes[n].length \in Nat /\ Len(nodes[n].kids) \in Nat
        /\ EndOf(n) = nodes[n].at + nodes[n].length /\ EndOf(n) <= Len(input)
        /\ nodes[n].value <=> ~Constructed(nodes[n].tag)
        /\ nodes[n].value => nodes[n].length > 0
    BY <1>1, NodeFacts DEF AllFit, NodeFits
  <2>2. PICK kn \in Nat : kn = Len(nodes[n].kids)
    BY <2>1
  <2>3. \A i \in 1..kn : /\ nodes[n].kids[i] \in (n + 1)..l
                         /\ BeginsAt(nodes[n].kids[i], ReadTo(n, i - 1))
    BY <1>1, <1>3, <2>2 DEF AllFit, NodeFits, Tiles
  <2>4. \A i \in 0..kn : ReadTo(n, i) \in 0..Len(input)
    <3> TAKE i \in 0..kn
    <3>1. CASE i = 0
      BY <1>2, <2>1, <3>1 DEF ReadTo
    <3>2. CASE i # 0
      <4>1. nodes[n].kids[i] \in 1..Len(nodes)
        BY <1>1, <2>3, <3>2
      <4>2. EndOf(nodes[n].kids[i]) \in 0..Len(input)
        BY <1>2, <4>1, NodeFacts DEF AllFit, NodeFits
      <4> QED BY <3>2, <4>2 DEF ReadTo
    <3> QED BY <3>1, <3>2
  <2>5. ASSUME ~nodes[n].value PROVE EndOf(n) \in R[nodes[n].at]
    <3> DEFINE T == {i \in 0..kn : EndOf(n) \in R[ReadTo(n, kn - i)]}
    <3>1. 0 \in T
      <4>1. ReadTo(n, kn) = EndOf(n)
        BY <1>3, <2>2, <2>5 DEF AllRead
      <4>2. EndOf(n) \in 0..Len(input)
        BY <1>2, <2>1
      <4>3. EndOf(n) \in R[EndOf(n)]
        BY <1>0, <1>2, <4>2, RowIs
      <4> QED BY <2>2, <4>1, <4>3
    <3>2. ASSUME NEW i \in 0..(kn - 1), i \in T PROVE i + 1 \in T
      <4>1. PICK j : j = kn - i
        OBVIOUS
      <4>2. j \in 1..kn /\ j - 1 \in 0..kn /\ kn - (i + 1) = j - 1 /\ i + 1 \in 0..kn
        BY <2>2, <4>1
      <4>3. PICK q : q = ReadTo(n, j - 1)
        OBVIOUS
      <4>4. PICK m : m = nodes[n].kids[j]
        OBVIOUS
      <4>5. q \in 0..Len(input) /\ m \in (n + 1)..l /\ BeginsAt(m, q)
        BY <2>3, <2>4, <4>2, <4>3, <4>4
      <4>6. EndOf(m) \in ElementEnds(input, q, R)
        BY <1>4, <4>5
      <4>7. R[EndOf(m)] \subseteq R[q]
        BY <1>0, <1>2, <4>5, <4>6, RowIs
      <4>8. ReadTo(n, j) = EndOf(m)
        BY <4>2, <4>4 DEF ReadTo
      <4> QED BY <3>2, <4>1, <4>2, <4>3, <4>7, <4>8
    <3>3. kn \in T
      <4> HIDE DEF T
      <4>1. 0..kn \subseteq T
        BY <3>1, <3>2, InductionUpTo
      <4> QED BY <2>2, <4>1
    <3> QED BY <2>2, <3>3 DEF ReadTo
  <2>6. ASSUME NEW p \in 0..Len(input), BeginsAt(n, p)
        PROVE  EndOf(n) \in ElementEnds(input, p, R)
    <3>1. PICK h : h = [length |-> nodes[n].length, next |-> nodes[n].at]
      OBVIOUS
    <3>2. h \in asn1_read_length(input, p + 1, Len(input)) /\ input[p + 1] = nodes[n].tag
      BY <2>6, <3>1 DEF BeginsAt
    <3>3. h.next + h.length = EndOf(n) /\ h.next = nodes[n].at /\ h.length = nodes[n].length
      BY <2>1, <3>1
    <3>4. WellFormed(input, p, h, R)
      BY <2>1, <2>5, <3>2, <3>3 DEF WellFormed
    <3> QED BY <1>2, <3>2, <3>3, <3>4, EndsAre
  <2> QED BY <2>6
<1> HIDE DEF Formed
<1>5. ASSUME NEW k \in Nat, \A m \in 0..(k - 1) : m \in S PROVE k \in S
  <2> SUFFICES ASSUME k < l PROVE Formed(l - k)
    OBVIOUS
  <2>1. l - k \in 1..l
    BY <1>1
  <2>2. ASSUME NEW j \in ((l - k) + 1)..l PROVE Formed(j)
    <3>1. l - j \in 0..(k - 1) /\ l - j < l /\ l - (l - j) = j
      BY <1>1
    <3>2. l - j \in S
      BY <1>5, <3>1
    <3> QED BY <3>1, <3>2
  <2> QED BY <1>4, <2>1, <2>2
<1>6. Nat \subseteq S
  <2> HIDE DEF S
  <2> QED BY <1>5, StrongInduction
<1>7. Formed(root)
  <2>1. l - root \in Nat /\ l - root < l /\ l - (l - root) = root
    BY <1>1, <1>2
  <2>2. l - root \in S
    BY <1>6, <2>1
  <2> QED BY <2>1, <2>2
<1>8. EndOf(root) \in ElementEnds(input, 0, R)
  BY <1>2, <1>3, <1>7 DEF Formed
<1> QED BY <1>0, <1>8 DEF OneElement

-------------------------------------------------------------------------------
(* The calls around it *)

CallTypes ==
  /\ {der, calls, reused} \subseteq Nat
  /\ DOMAIN cert = DOMAIN Blank /\ cert.der_data \in BOOLEAN

IInv == ParserInv /\ CallTypes /\ DerCounted

\* The parser's variables outside of a call and at its first step.
LEMMA EmptyParser ==
  ASSUME (pc' = "idle" \/ (pc' = "parse" /\ input' # <<>>)), input' \in Seq(Byte),
         pos' = 0, stack' = <<>>, nodes' = <<>>, root' = 0, starved' = FALSE,
         live' \subseteq {"node", "value"} \X Nat
  PROVE  ParserInv'
<1>1. /\ stack' \in Seq(1..Len(nodes')) /\ nodes' \in Seq(Node)
      /\ Len(stack') = 0 /\ Len(nodes') = 0 /\ Len(input') \in Nat
  BY EmptySeq, LenProperties
<1>2. Frames' = {}
  BY <1>1 DEF Frames
<1>3. root' \in 0..Len(nodes')
  BY <1>1
<1>4. ParserTypes'
  BY <1>1, <1>3 DEF ParserTypes
<1>5. ReadsStayInside'
  BY <1>1, <1>2 DEF ReadsStayInside
<1> QED BY <1>4, <1>5 DEF ParserInv, CallBegins

\* The parser's variables when a call returns.
LEMMA ReturnKeeps ==
  ASSUME ParserInv, Returns, live' \subseteq live
  PROVE  ParserInv'
<1>1. <<>> \in Seq(Byte) /\ live' \subseteq {"node", "value"} \X Nat
  BY EmptySeq DEF ParserInv, ParserTypes
<1>2. /\ pc' = "idle" /\ input' \in Seq(Byte) /\ pos' = 0 /\ stack' = <<>> /\ nodes' = <<>>
      /\ root' = 0 /\ starved' = FALSE
  BY <1>1 DEF Returns
<1> QED BY <1>1, <1>2, EmptyParser

LEMMA CallStart ==
  ASSUME IInv, NEW d \in Documents, x509_parse_certificate(d)
  PROVE  IInv'
<1>1. d \in Seq(Byte) /\ d # <<>>
  BY X509Assumption
<1>2. /\ input' = d /\ pos' = 0 /\ stack' = <<>> /\ nodes' = <<>> /\ root' = 0
      /\ starved' = FALSE /\ pc' = "parse" /\ live' = live
  BY DEF x509_parse_certificate, asn1_parse
<1>3. ParserInv'
  BY <1>1, <1>2, EmptyParser DEF IInv, ParserInv, ParserTypes
<1>4. /\ cert' = [Blank EXCEPT !.der_data = TRUE] /\ der' = der + 1 /\ calls' = calls + 1
      /\ reused' = IF cert.der_data THEN reused + 1 ELSE reused
  BY DEF x509_parse_certificate
<1>5. DOMAIN cert' = DOMAIN Blank /\ cert'.der_data = TRUE
  BY <1>4 DEF Blank
<1> QED BY <1>3, <1>4, <1>5 DEF IInv, CallTypes, DerCounted

LEMMA CallWithoutMemory ==
  ASSUME IInv, der_data_unavailable
  PROVE  IInv'
<1>1. UNCHANGED <<pc, parser>>
  BY DEF der_data_unavailable
<1>2. ParserInv'
  BY <1>1 DEF IInv, ParserInv, ParserTypes, ReadsStayInside, CallBegins, Frames, EndOf, parser
<1>3. /\ cert' = Blank /\ der' = der /\ calls' = calls + 1
      /\ reused' = IF cert.der_data THEN reused + 1 ELSE reused
  BY DEF der_data_unavailable
<1>4. DOMAIN cert' = DOMAIN Blank /\ cert'.der_data = FALSE
  BY <1>3 DEF Blank
<1>5. der \in Nat /\ calls \in Nat /\ reused \in Nat /\ cert.der_data \in BOOLEAN
  BY DEF IInv, CallTypes
<1>6. der' \in Nat /\ calls' \in Nat /\ reused' \in Nat
  BY <1>3, <1>5
<1>7. DerCounted'
  BY <1>3, <1>4, <1>5 DEF IInv, DerCounted
<1> QED BY <1>2, <1>4, <1>6, <1>7 DEF IInv, CallTypes

\* Whatever has been copied out of the tree: der_data stays as it is.
LEMMA CallReturns ==
  ASSUME IInv, parse_failed \/ no_sequence \/ extract
  PROVE  IInv'
<1>1. Returns /\ live' \subseteq live
  BY DEF parse_failed, no_sequence, extract, asn1_free
<1>2. ParserInv'
  BY <1>1, ReturnKeeps DEF IInv
<1>3. DOMAIN cert' = DOMAIN cert /\ cert'.der_data = cert.der_data
  <2>1. "der_data" \in DOMAIN cert
    BY DEF IInv, CallTypes, Blank
  <2>2. CASE extract
    <3>1. PICK got : cert' = [f \in DOMAIN cert |-> IF f = "der_data" THEN cert[f] ELSE got[f].text]
      BY <2>2 DEF extract
    <3> QED BY <2>1, <3>1
  <2> QED BY <2>2 DEF parse_failed, no_sequence
<1> QED BY <1>1, <1>2, <1>3 DEF IInv, CallTypes, DerCounted, Returns

LEMMA FreeKeeps ==
  ASSUME IInv, x509_free_certificate
  PROVE  IInv'
<1>1. UNCHANGED <<pc, parser>>
  BY DEF x509_free_certificate
<1>2. ParserInv'
  BY <1>1 DEF IInv, ParserInv, ParserTypes, ReadsStayInside, CallBegins, Frames, EndOf, parser
<1>3. /\ IF cert.der_data THEN der' = der - 1 /\ cert' = Blank ELSE UNCHANGED <<der, cert>>
      /\ UNCHANGED <<calls, reused>>
  BY DEF x509_free_certificate
<1>4. der \in Nat /\ calls \in Nat /\ reused \in Nat /\ cert.der_data \in BOOLEAN
      /\ der = reused + IF cert.der_data THEN 1 ELSE 0
  BY DEF IInv, CallTypes, DerCounted
<1>6. CASE cert.der_data
  <2>1. der' = reused /\ cert' = Blank /\ UNCHANGED <<calls, reused>>
    BY <1>3, <1>4, <1>6
  <2>2. cert'.der_data = FALSE /\ DOMAIN cert' = DOMAIN Blank
    BY <2>1 DEF Blank
  <2>3. CallTypes'
    BY <2>1, <2>2, <1>4 DEF CallTypes
  <2>4. DerCounted'
    BY <2>1, <2>2, <1>4 DEF DerCounted
  <2> QED BY <2>3, <2>4, <1>2 DEF IInv
<1>7. CASE ~cert.der_data
  <2>1. UNCHANGED <<der, cert, calls, reused>>
    BY <1>3, <1>7
  <2> QED BY <2>1, <1>2 DEF IInv, CallTypes, DerCounted
<1> QED BY <1>4, <1>6, <1>7

LEMMA Initially ==
  ASSUME Init
  PROVE  IInv
<1>1. /\ stack \in Seq(1..Len(nodes)) /\ nodes \in Seq(Node) /\ input \in Seq(Byte)
      /\ Len(stack) = 0 /\ Len(nodes) = 0 /\ Len(input) = 0
  BY EmptySeq DEF Init
<1>2. Frames = {}
  BY <1>1 DEF Frames
<1>3. ParserTypes
  <2>1. root = 0 /\ pos = 0 /\ starved = FALSE /\ pc = "idle" /\ live = {}
    BY DEF Init
  <2>2. root \in 0..Len(nodes) /\ live \subseteq {"node", "value"} \X Nat
    BY <1>1, <2>1
  <2> QED BY <1>1, <2>1, <2>2 DEF ParserTypes
<1>4. ReadsStayInside
  BY <1>1, <1>2 DEF ReadsStayInside, Init
<1>5. CallTypes /\ DerCounted
  BY DEF Init, CallTypes, DerCounted, Blank
<1> QED BY <1>3, <1>4, <1>5 DEF IInv, ParserInv, CallBegins, Init

LEMMA Inductive ==
  ASSUME IInv, [Next]_vars
  PROVE  IInv'
<1>1. ASSUME ParserStep, UNCHANGED x509
      PROVE  IInv'
  BY <1>1, ParserKeeps DEF IInv, CallTypes, DerCounted, x509
<1>2. CASE UNCHANGED vars
  BY <1>2 DEF vars, x509, parser, IInv, ParserInv, ParserTypes, ReadsStayInside, CallBegins,
              Frames, EndOf, CallTypes, DerCounted
<1> QED BY <1>1, <1>2, CallStart, CallWithoutMemory, CallReturns, FreeKeeps DEF Next

LEMMA InvariantHolds == Spec => []IInv
BY Initially, Inductive, PTL DEF Spec

-------------------------------------------------------------------------------
(* The tree through all calls *)

\* What is known of the tree, on top of IInv.
TreeInv == Numbered /\ Grows /\ Reached /\ Promising /\ CopiesStayInside

\* There is no tree before a call and after it.
LEMMA EmptyTree ==
  ASSUME nodes' = <<>>, root' = 0, stack' = <<>>, live' = {}, pc' \in {"idle", "parse"}
  PROVE  Numbered' /\ Grows' /\ Reached' /\ Promising'
<1>1. Len(nodes') = 0 /\ Len(stack') = 0
  BY EmptySeq
<1>2. Frames' = {}
  BY <1>1 DEF Frames
<1>3. Numbered'
  BY EmptyNumbers
<1>4. Grows'
  BY <1>1 DEF Grows
<1>5. Reached'
  BY <1>1 DEF Reached
<1>6. Promising'
  BY <1>2 DEF Promising
<1> QED BY <1>3, <1>4, <1>5, <1>6

LEMMA TreeKept ==
  ASSUME IInv, TreeInv, [Next]_vars
  PROVE  TreeInv'
<1>0. ParserInv
  BY DEF IInv
<1>1. ASSUME ParserStep, UNCHANGED x509 PROVE TreeInv'
  <2>1. Numbered' /\ Grows' /\ Reached' /\ Promising'
    BY <1>0, <1>1, StepNumbers, StepGrows, StepReaches, StepPromises DEF TreeInv
  <2>2. CopiesStayInside'
    BY <1>1 DEF TreeInv, CopiesStayInside, x509
  <2> QED BY <2>1, <2>2 DEF TreeInv
<1>2. ASSUME UNCHANGED <<pc, parser>>
      PROVE  Numbered' /\ Grows' /\ Reached' /\ Promising'
  <2>1. UNCHANGED <<pc, input, pos, stack, nodes, root, live, starved>>
    BY <1>2 DEF parser
  <2>2. Numbered'
    BY <2>1 DEF TreeInv, Numbered, NodeFits, StackClimbs, Frames, EndOf
  <2>3. Grows'
    <3>1. \A n, p : BeginsAt(n, p)' <=> BeginsAt(n, p)
      BY <2>1 DEF BeginsAt
    <3>2. \A n, i : ReadTo(n, i)' = ReadTo(n, i) /\ EndOf(n)' = EndOf(n)
      BY <2>1 DEF ReadTo, EndOf
    <3>3. \A n : (Tiles(n)' <=> Tiles(n)) /\ AllRead(n)' = AllRead(n) /\ (Open(n)' <=> Open(n))
      BY <2>1, <3>1, <3>2 DEF Tiles, AllRead, Open, Frames
    <3> QED BY <2>1, <3>1, <3>2, <3>3 DEF TreeInv, Grows, Top
  <2>4. Reached'
    BY <2>1 DEF TreeInv, Reached, Held, Open, Frames
  <2>5. Promising'
    BY <2>1 DEF TreeInv, Promising, Resume, Frames, EndOf
  <2> QED BY <2>2, <2>3, <2>4, <2>5
<1>3. CASE \E d \in Documents : x509_parse_certificate(d)
  <2>1. /\ pc = "idle" /\ pc' = "parse" /\ stack' = <<>> /\ nodes' = <<>> /\ root' = 0
        /\ live' = live /\ copies' = {}
    BY <1>3 DEF x509_parse_certificate, asn1_parse
  <2>2. live = {}
    BY <1>0, <2>1, AllFreed DEF TreeInv, Numbered, StackClimbs
  <2> QED BY <2>1, <2>2, EmptyTree DEF TreeInv, CopiesStayInside
<1>4. CASE der_data_unavailable \/ x509_free_certificate
  <2>1. UNCHANGED <<pc, parser>> /\ copies' = {}
    BY <1>4 DEF der_data_unavailable, x509_free_certificate
  <2> QED BY <1>2, <2>1 DEF TreeInv, CopiesStayInside
<1>5. CASE parse_failed \/ no_sequence \/ extract
  <2>1. pc = "parsed" /\ Returns
    BY <1>5 DEF parse_failed, no_sequence, extract
  <2>2. live' = {}
    <3>1. /\ root = 0 => live = {}
          /\ root # 0 => asn1_free(root) = {}
      BY <1>0, <2>1, AllFreed DEF TreeInv
    <3> QED BY <1>5, <3>1 DEF parse_failed, no_sequence, extract
  <2>3. Numbered' /\ Grows' /\ Reached' /\ Promising'
    BY <2>1, <2>2, EmptyTree DEF Returns
  <2>4. CopiesStayInside'
    <3>1. CASE extract
      <4>1. PICK t : t = asn1_find(root, ASN1_SEQUENCE)
        OBVIOUS
      <4>2. PICK got : got = Extracted(t)
        OBVIOUS
      <4>3. root # 0 /\ t # 0 /\ copies' = UNION {got[f].copies : f \in DOMAIN got}
        BY <3>1, <4>1, <4>2 DEF extract
      <4>4. AllFit /\ root \in 1..Len(nodes)
        BY <1>0, <4>3 DEF AllFit, ParserInv, ParserTypes, TreeInv, Numbered
      <4>5. t \in 1..Len(nodes)
        BY <4>1, <4>3, <4>4, FindIs
      <4>6. \A f \in DOMAIN got : \A c \in got[f].copies : Inside(c)
        BY <4>2, <4>3, <4>4, <4>5, ExtractedInside
      <4>7. \A c \in copies' : Inside(c)
        BY <4>3, <4>6
      <4> QED BY <4>7 DEF CopiesStayInside, Inside
    <3>2. CASE parse_failed \/ no_sequence
      <4>1. copies' = copies
        BY <3>2 DEF parse_failed, no_sequence
      <4> QED BY <4>1 DEF TreeInv, CopiesStayInside
    <3> QED BY <1>5, <3>1, <3>2
  <2> QED BY <2>3, <2>4 DEF TreeInv
<1>6. CASE UNCHANGED vars
  <2>1. UNCHANGED <<pc, parser>> /\ copies' = copies
    BY <1>6 DEF vars, x509
  <2> QED BY <1>2, <2>1 DEF TreeInv, CopiesStayInside
<1> QED BY <1>1, <1>3, <1>4, <1>5, <1>6 DEF Next

LEMMA TreeHolds == Spec => [](IInv /\ TreeInv)
<1>1. ASSUME Init PROVE TreeInv
  <2>1. Len(nodes) = 0 /\ Len(stack) = 0
    BY <1>1, EmptySeq DEF Init
  <2>2. /\ Frames = {} /\ live = {} /\ copies = {} /\ nodes = <<>> /\ root = 0
        /\ stack = <<>> /\ pc = "idle"
    BY <1>1, <2>1 DEF Init, Frames
  <2>3. Numbered /\ Grows /\ Reached
    BY <2>1, <2>2 DEF Numbered, StackClimbs, Grows, Reached
  <2> QED BY <2>2, <2>3 DEF TreeInv, Promising, CopiesStayInside
<1> QED BY <1>1, InvariantHolds, TreeKept, PTL DEF Spec

(***************************************************************************)
(* Every variable of the certificate parser keeps its shape (asn1.c:31-96, *)
(* x509.c:6-119).                                                          *)
(***************************************************************************)
THEOREM X509TypeCorrect == Spec => []TypeOK
<1>1. IInv => TypeOK
  BY DEF IInv, ParserInv, ParserTypes, CallTypes, TypeOK, Node
<1> QED BY <1>1, InvariantHolds, PTL

(***************************************************************************)
(* For every input: no call of the recursive descent reads behind the      *)
(* element it is in, and the recursion is at most half as deep as the      *)
(* input is long (asn1.c:31-87).                                           *)
(***************************************************************************)
THEOREM ParserStaysInside == Spec => []ReadsStayInside
<1>1. IInv => ReadsStayInside
  BY DEF IInv, ParserInv
<1> QED BY <1>1, InvariantHolds, PTL

(***************************************************************************)
(* The copies of the input that are allocated are the cert's own and one   *)
(* for each time a caller parsed into a cert it had not freed (x509.c:9,   *)
(* 11, 116).                                                               *)
(***************************************************************************)
THEOREM DerDataAccounted == Spec => []DerCounted
<1>1. IInv => DerCounted
  BY DEF IInv
<1> QED BY <1>1, InvariantHolds, PTL

\* Each of the parser's actions takes something off what is left to do.
LEMMA StepShrinks ==
  ASSUME ParserInv, ParserInv', ParserStep
  PROVE  LeftToDo' < LeftToDo /\ LeftToDo' >= 0
<1>1. /\ Len(input) \in Nat /\ pos \in Nat /\ Len(stack) \in Nat
      /\ Len(input') \in Nat /\ pos' \in Nat /\ Len(stack') \in Nat
      /\ pos' <= Len(input')
  BY LenProperties DEF ParserInv, ParserTypes, ReadsStayInside
<1>2. End \in 0..Len(input)
  BY EndInside DEF ParserInv
<1>3. \A h \in Header : h.length \in Nat /\ h.next \in Nat /\ pos + 2 <= h.next
  BY <1>2, HeaderInside DEF ParserInv, ParserTypes
<1>4. stack # <<>> => Len(Below(stack)) = Len(stack) - 1
  BY BelowKeeps DEF ParserInv, ParserTypes
<1>5. CASE open_constructed
  <2>1. /\ pc' = pc /\ pos' >= pos + 2 /\ input' = input /\ pc = "parse"
        /\ stack' = Append(stack, Len(nodes) + 1)
    BY <1>3, <1>5 DEF open_constructed, AtElement
  <2>2. Len(stack') = Len(stack) + 1
    BY <2>1 DEF ParserInv, ParserTypes
  <2> QED BY <1>1, <2>1, <2>2 DEF LeftToDo
<1>6. CASE parse_primitive
  <2>1. /\ pc' \in {"parse", "parsed"} /\ pos' >= pos + 2 /\ input' = input /\ pc = "parse"
        /\ stack' = stack
    BY <1>1, <1>3, <1>6 DEF parse_primitive, AtElement, Complete
  <2> QED BY <1>1, <2>1 DEF LeftToDo
<1>7. CASE close_constructed
  <2>1. /\ pc' \in {"parse", "parsed"} /\ pos' = pos /\ input' = input /\ pc = "parse"
        /\ Len(stack') = Len(stack) - 1
    BY <1>4, <1>7 DEF close_constructed, Complete
  <2> QED BY <1>1, <2>1 DEF LeftToDo
<1>8. CASE node_refused \/ malloc_fails
  <2>1. pc = "parse" /\ pc' = "unwind" /\ UNCHANGED <<input, pos, stack>>
    BY <1>8 DEF node_refused, malloc_fails, AtElement, parser
  <2> QED BY <1>1, <2>1 DEF LeftToDo
<1>9. CASE unwind
  <2>1. /\ pc = "unwind" /\ UNCHANGED <<input, pos>>
        /\ \/ pc' = "parsed" /\ stack' = stack
           \/ pc' = "unwind" /\ Len(stack') = Len(stack) - 1
    BY <1>4, <1>9 DEF unwind, LeavesCall
  <2> QED BY <1>1, <2>1 DEF LeftToDo
<1> QED BY <1>5, <1>6, <1>7, <1>8, <1>9 DEF ParserStep

(***************************************************************************)
(* Whatever the input and whatever fails, asn1_parse of n bytes returns    *)
(* after at most n + 2 steps (asn1.c:57-73).                               *)
(***************************************************************************)
THEOREM ParseIsBounded == Spec => StepsRunOut
<1>1. IInv /\ IInv' /\ [Next]_vars => [ParserStep => LeftToDo' < LeftToDo /\ LeftToDo' >= 0]_vars
  BY StepShrinks DEF IInv
<1> QED BY <1>1, InvariantHolds, PTL DEF Spec, StepsRunOut

(***************************************************************************)
(* For every input and whatever fails: between calls no node and no value  *)
(* of the tree is allocated (asn1.c:59-62, 98-108; x509.c:11, 18, 94,      *)
(* 116).                                                                   *)
(***************************************************************************)
THEOREM NothingIsLeaked == Spec => []NothingLeaks
<1>1. IInv /\ TreeInv => NothingLeaks
  <2> SUFFICES ASSUME IInv, TreeInv, pc = "idle" PROVE live = {}
    BY DEF IInv, NothingLeaks
  <2>1. root = 0
    BY DEF TreeInv, Numbered, StackClimbs
  <2> QED BY <2>1, AllFreed DEF IInv, TreeInv
<1> QED BY <1>1, TreeHolds, PTL

(***************************************************************************)
(* For every input and every size of the fields: no copy out of a value    *)
(* reads behind the value and none writes behind its field, the key and    *)
(* the signature included, whose length is one less than the value's       *)
(* (x509.c:30-31, 42-46, 80-82).                                           *)
(***************************************************************************)
THEOREM CopiesAreInside == Spec => []CopiesStayInside
<1>1. TreeInv => CopiesStayInside
  BY DEF TreeInv
<1> QED BY <1>1, TreeHolds, PTL

(***************************************************************************)
(* For every input: the finished tree, read in order, is the input - no    *)
(* element is lost, doubled or out of place in the lists that last_child   *)
(* links (asn1.c:57-73).                                                   *)
(***************************************************************************)
THEOREM TreeIsTheInput == Spec => []TreeTilesInput
<1>1. IInv /\ TreeInv => TreeTilesInput
  <2> SUFFICES ASSUME IInv, TreeInv, pc = "parsed", root # 0
               PROVE  BeginsAt(root, 0) /\ \A n \in DOMAIN nodes : Tiled(n)
    BY DEF TreeTilesInput
  <2>1. stack = <<>> /\ BeginsAt(root, 0) /\ DOMAIN nodes = 1..Len(nodes)
    BY DEF TreeInv, Grows, IInv, ParserInv, ParserTypes
  <2>2. \A n : ~Open(n)
    BY <2>1, EmptySeq DEF Open, Frames
  <2>3. ASSUME NEW n \in 1..Len(nodes) PROVE Tiled(n)
    <3>1. Tiles(n) /\ (nodes[n].value \/ AllRead(n) = EndOf(n))
      BY <2>2 DEF TreeInv, Grows
    <3>2. DOMAIN nodes[n].kids = 1..Len(nodes[n].kids)
      BY NodeFacts DEF IInv, ParserInv
    <3> QED BY <3>1, <3>2 DEF Tiled, Tiles, AllRead, ReadTo
  <2> QED BY <2>1, <2>3
<1> QED BY <1>1, TreeHolds, PTL

(***************************************************************************)
(* For every input: unless memory runs out, asn1_parse returns a tree      *)
(* exactly for what consists of one element that is well-formed all the    *)
(* way down, and anything behind it (asn1.c:31-96).                        *)
(***************************************************************************)
THEOREM AcceptsTheWellFormed == Spec => []AcceptsExactlyWhen
<1>1. IInv /\ TreeInv => AcceptsExactlyWhen
  <2> SUFFICES ASSUME IInv, TreeInv, pc = "parsed", ~starved
               PROVE  root # 0 <=> OneElement(input)
    BY DEF AcceptsExactlyWhen
  <2>1. OneElement(input) => root # 0
    BY DEF TreeInv, Promising
  <2>2. AllFit
    BY DEF AllFit, IInv, ParserInv, TreeInv, Numbered
  <2> QED BY <2>1, <2>2, TreeAccepts DEF TreeInv
<1> QED BY <1>1, TreeHolds, PTL

===============================================================================

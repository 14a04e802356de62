---------------------------- MODULE X509Properties ----------------------------
(***************************************************************************)
(* What the certificate parser promises: it accepts what the encoding      *)
(* allows, its tree is the input read once, no read or copy leaves its     *)
(* buffer, and nothing it allocated outlives the call.                     *)
(***************************************************************************)
EXTENDS X509

Frames == 1..Len(stack)

\* Every variable has its shape.
TypeOK ==
  /\ pc \in {"idle", "parse", "unwind", "parsed"}
  /\ input \in Seq(Byte) /\ pos \in Nat /\ starved \in BOOLEAN
  /\ nodes \in Seq([tag : Byte, at : Nat, length : Nat, value : BOOLEAN, kids : Seq(Nat)])
  /\ stack \in Seq(1..Len(nodes)) /\ root \in 0..Len(nodes)
  /\ live \subseteq {"node", "value"} \X Nat
  /\ {der, calls, reused} \subseteq Nat
  /\ DOMAIN cert = DOMAIN Blank /\ cert.der_data \in BOOLEAN

(***************************************************************************)
(* A call never reads behind the end of the element it is in: each open    *)
(* element lies in the one around it and in the input, pos is in the       *)
(* innermost, and the recursion is at most half as deep as the input is    *)
(* long (asn1.c:42-51, 57-73: the remaining lengths of nested calls are    *)
(* separate variables that must agree).                                    *)
(***************************************************************************)
ReadsStayInside ==
  /\ pos <= Len(input)
  /\ \A i \in Frames : pos <= EndOf(stack[i]) /\ EndOf(stack[i]) <= Len(input)
  /\ \A i, j \in Frames : i < j => EndOf(stack[j]) <= EndOf(stack[i])
  /\ 2 * Len(stack) <= pos

(***************************************************************************)
(* Accepted is exactly what consists of one element, well-formed all the   *)
(* way down, and anything behind it - unless memory ran out.  A primitive  *)
(* element without content is never accepted (asn1.c:75-79).               *)
(***************************************************************************)
\* Where the element at offset p of d ends, if it is well-formed: one that is
\* constructed ends where its content may, another has a content.
ElementEnds(d, p, ends) ==
  {h.next + h.length : h \in
     {h \in asn1_read_length(d, p + 1, Len(d)) :
        /\ h.next + h.length <= Len(d)
        /\ IF Constructed(d[p + 1]) THEN h.next + h.length \in ends[h.next]
           ELSE h.length > 0}}

\* For each offset of d, where a row of elements that begins there may end.
RowEnds(d) ==
  LET ends[p \in 0..Len(d)] == {p} \cup UNION {ends[e] : e \in ElementEnds(d, p, ends)}
  IN  ends

OneElement(d) == ElementEnds(d, 0, RowEnds(d)) # {}

AcceptsExactlyWhen ==
  pc = "parsed" /\ ~starved => (root # 0 <=> OneElement(input))

(***************************************************************************)
(* Reading the finished tree in order gives the input back: the root       *)
(* begins where the input does, the first child of an element where its    *)
(* content does, each next one where the one before ends, and the last     *)
(* ends with its parent (asn1.c:57-73, the list is linked by last_child).  *)
(***************************************************************************)
BeginsAt(n, p) ==
  /\ input[p + 1] = nodes[n].tag
  /\ asn1_read_length(input, p + 1, Len(input)) = {[length |-> nodes[n].length, next |-> nodes[n].at]}

Tiled(n) ==
  LET kids == nodes[n].kids
      Behind(i) == IF i = 0 THEN nodes[n].at ELSE EndOf(kids[i])
  IN  /\ \A i \in DOMAIN kids : BeginsAt(kids[i], Behind(i - 1))
      /\ ~nodes[n].value => Behind(Len(kids)) = EndOf(n)

TreeTilesInput ==
  pc = "parsed" /\ root # 0 => BeginsAt(root, 0) /\ \A n \in DOMAIN nodes : Tiled(n)

\* The copies of the input that are allocated, in the middle of a call as well.
DerCounted == der = reused + IF cert.der_data THEN 1 ELSE 0

(***************************************************************************)
(* When no call is under way no node and no value is allocated, whatever   *)
(* failed on the way; der_data blocks are allocated only for the cert and  *)
(* for each time a caller parsed into a cert it had not freed              *)
(* (asn1.c:59-62, 98-108; x509.c:11, 18, 94, 116).                         *)
(***************************************************************************)
NothingLeaks ==
  DerCounted /\ (pc = "idle" => live = {})

(***************************************************************************)
(* No copy out of a value reads behind it and none writes behind the field *)
(* it fills.  For the key that rests on the parser's refusal of elements   *)
(* without content: it copies length - 1 bytes (x509.c:30-31, 42-46,       *)
(* 80-82).                                                                 *)
(***************************************************************************)
CopiesStayInside ==
  \A c \in copies : /\ c.from + c.count <= c.size
                    /\ c.at + c.count <= c.room

(***************************************************************************)
(* Whatever the input and whatever fails, asn1_parse returns: no length    *)
(* makes a child loop go on without reading, and every failure leaves all  *)
(* the calls it is in (asn1.c:57-73).                                      *)
(***************************************************************************)
ParseEnds == pc \in {"parse", "unwind"} ~> pc = "parsed"

(***************************************************************************)
(* A parse of n bytes ends after at most n + 2 steps: each step reads, or  *)
(* leaves a call, or reports a failure, and takes at least one off what is *)
(* left to do, which never falls below nothing (asn1.c:57-73).             *)
(***************************************************************************)
LeftToDo ==
  Len(input) - pos + Len(stack)
    + (IF pc = "parse" THEN 2 ELSE IF pc = "unwind" THEN 1 ELSE 0)

StepsRunOut == [][ParserStep => LeftToDo' < LeftToDo /\ LeftToDo' >= 0]_vars

===============================================================================

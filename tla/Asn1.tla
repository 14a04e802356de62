--------------------------------- MODULE Asn1 ---------------------------------
(***************************************************************************)
(* parser/source/asn1.c: the recursive descent of asn1_parse_node with its *)
(* recursion as a stack.  A frame of the stack is a call that is inside    *)
(* its child loop; an element is read in one step.  In C each call has a   *)
(* pointer and a remaining length of its own; here pos is the pointer of   *)
(* the innermost call and End the place where its remaining length is 0.   *)
(***************************************************************************)
EXTENDS Integers, SequencesExt

CONSTANT AllocMayFail   \* whether malloc may return NULL

ASSUME AllocAssumption == AllocMayFail \in BOOLEAN

Byte == 0..255

\* The tags that x509.c looks for, and ASN1_CONSTRUCTED as a bit.
ASN1_INTEGER          == 2
ASN1_BIT_STRING       == 3
ASN1_PRINTABLE_STRING == 19
ASN1_SEQUENCE         == 48      \* with the constructed bit
Constructed(tag)      == (tag \div 32) % 2 = 1

VARIABLES
  pc,       \* "idle", "parse", "unwind" or "parsed"
  input,    \* the bytes of the call
  pos,      \* bytes the innermost call is past
  stack,    \* nodes whose children are being read, innermost last
  nodes,    \* nodes of this call, in the order they were made
  root,     \* the finished tree, 0 for NULL
  live,     \* blocks of the secure allocator: <<"node", n>> and <<"value", n>>
  starved   \* history: malloc has failed in this call

parser == <<input, pos, stack, nodes, root, live, starved>>

Top(s)   == s[Len(s)]
Below(s) == SubSeq(s, 1, Len(s) - 1)

\* A node owns input[at + 1 .. at + length]; value tells whether its value
\* pointer is set, kids are its children list.
EndOf(n) == nodes[n].at + nodes[n].length
End      == IF stack = <<>> THEN Len(input) ELSE EndOf(Top(stack))

\* Whether secure_alloc(size) looks at malloc at all: nothing is handed out for
\* no bytes (secure.c:7).
never_null(size) == TRUE         \* variant: malloc(0) is not refused
Allocatable(size) == size > 0

\* The n bytes of d behind offset p as a big-endian number, for n up to 4.
Scaled(b0, b1, b2, b3) == b0 + 256 * b1 + 65536 * b2 + 16777216 * b3

signed_bytes(d, p, n) ==         \* variant: a char is signed
  LET byte(j) == IF j >= n THEN 0
                 ELSE d[p + n - j] - IF d[p + n - j] >= 128 THEN 256 ELSE 0
  IN  Scaled(byte(0), byte(1), byte(2), byte(3))

BigEndian(d, p, n) ==
  LET byte(j) == IF j >= n THEN 0 ELSE d[p + n - j]
  IN  Scaled(byte(0), byte(1), byte(2), byte(3))

\* The length at offset p of d and the offset behind it, or nothing.
asn1_read_length(d, p, end) ==
  IF p >= end THEN {}
  ELSE LET first == d[p + 1]
           more  == first % 128
       IN  IF first < 128 THEN {[length |-> first, next |-> p + 1]}
           ELSE IF more <= 4 /\ p + 1 + more <= end
                THEN {[length |-> BigEndian(d, p + 1, more), next |-> p + 1 + more]}
                ELSE {}

\* The header at pos, if its content lies in what the caller has left.
fits_the_input ==                \* variant: the end of the parent is not looked at
  {h \in asn1_read_length(input, pos + 1, Len(input)) : h.next + h.length <= Len(input)}

Header == {h \in asn1_read_length(input, pos + 1, End) : h.next + h.length <= End}

NewNode(h) ==
  [tag |-> input[pos + 1], at |-> h.next, length |-> h.length,
   value |-> ~Constructed(input[pos + 1]), kids |-> <<>>]

-------------------------------------------------------------------------------
(* Release *)

\* A node with everything its children lists lead to.
Subtree(n) ==
  LET tree[m \in 1..Len(nodes)] ==
        {m} \cup UNION {tree[nodes[m].kids[k]] : k \in 1..Len(nodes[m].kids)}
  IN  tree[n]

BlocksOf(ns) == {<<"node", n>> : n \in ns}
                  \cup {<<"value", n>> : n \in {m \in ns : nodes[m].value}}

frees_one_node(n) == live \ BlocksOf({n})   \* variant: children are not visited

\* What is left after asn1_free(n).
asn1_free(n) == live \ BlocksOf(Subtree(n))

-------------------------------------------------------------------------------
(* Parsing *)

\* asn1_parse(data, len) with something to parse.
asn1_parse(d) ==
  /\ d # <<>>
  /\ input' = d /\ pos' = 0 /\ stack' = <<>> /\ nodes' = <<>> /\ root' = 0
  /\ starved' = FALSE
  /\ pc' = "parse"

\* The element that was just completed becomes the root, or the last child of
\* the node below it.
only_two_kids(ns, n, s) ==       \* variant: last_child stays with the first child
  IF s = <<>> THEN ns
  ELSE [ns EXCEPT ![Top(s)].kids = IF @ = <<>> THEN <<n>> ELSE <<@[1], n>>]

Link(ns, n, s) ==
  IF s = <<>> THEN ns ELSE [ns EXCEPT ![Top(s)].kids = Append(@, n)]

Complete(n, s) ==
  /\ root' = IF s = <<>> THEN n ELSE root
  /\ pc'   = IF s = <<>> THEN "parsed" ELSE "parse"

AtElement == pc = "parse" /\ (stack = <<>> \/ pos # End)

\* The early returns of lines 42-51 and 76-79: what this call has allocated
\* itself is gone again.
node_refused ==
  /\ AtElement
  /\ \A h \in Header : NewNode(h).value /\ ~Allocatable(h.length)
  /\ pc' = "unwind"
  /\ UNCHANGED parser

\* malloc fails for the node (line 35) or for the value (lines 76-79).
malloc_fails ==
  /\ AtElement /\ AllocMayFail
  /\ pc' = "unwind" /\ starved' = TRUE
  /\ UNCHANGED <<input, pos, stack, nodes, root, live>>

\* Lines 53-56.
open_constructed ==
  /\ AtElement
  /\ \E h \in Header :
       /\ ~NewNode(h).value
       /\ nodes' = Append(nodes, NewNode(h))
       /\ pos' = h.next
  /\ stack' = Append(stack, Len(nodes) + 1)
  /\ live' = live \cup {<<"node", Len(nodes) + 1>>}
  /\ UNCHANGED <<pc, input, root, starved>>

\* Lines 74-87, and 64-69 of the caller.
parse_primitive ==
  /\ AtElement
  /\ LET n == Len(nodes) + 1
     IN  /\ \E h \in Header :
              /\ NewNode(h).value
              /\ Allocatable(h.length)
              /\ nodes' = Link(Append(nodes, NewNode(h)), n, stack)
              /\ pos' = h.next + h.length
         /\ live' = live \cup {<<"node", n>>, <<"value", n>>}
         /\ Complete(n, stack)
  /\ UNCHANGED <<input, stack, starved>>

\* The child loop ends (lines 72-73, and 64-69 of the caller).
close_constructed ==
  /\ pc = "parse" /\ stack # <<>> /\ pos = End
  /\ nodes' = Link(nodes, Top(stack), Below(stack))
  /\ stack' = Below(stack)
  /\ Complete(Top(stack), Below(stack))
  /\ UNCHANGED <<input, pos, live, starved>>

\* A child has failed (lines 59-62), or asn1_parse returns.
stays_open == stack              \* variant: the caller goes on with its loop

LeavesCall == Below(stack)

unwind ==
  /\ pc = "unwind"
  /\ IF stack = <<>>
     THEN pc' = "parsed" /\ UNCHANGED <<stack, live>>
     ELSE pc' = pc /\ live' = asn1_free(Top(stack)) /\ stack' = LeavesCall
  /\ UNCHANGED <<input, pos, nodes, root, starved>>

ParserStep ==
  \/ node_refused \/ malloc_fails
  \/ open_constructed \/ parse_primitive \/ close_constructed \/ unwind

-------------------------------------------------------------------------------
(* Searching a finished tree *)

\* n and the nodes its next pointers lead to: the later children of its parent.
Following(n) ==
  {n} \cup {m \in 1..Len(nodes) :
             m > n /\ \E p \in 1..Len(nodes) : {m, n} \subseteq Range(nodes[p].kids)}

\* n, its children, its next: nodes are numbered in that order.  0 is NULL.
asn1_find(n, tag) ==
  LET found == {m \in UNION {Subtree(c) : c \in Following(n)} : nodes[m].tag = tag}
  IN  IF found = {} THEN 0 ELSE Min(found)

===============================================================================

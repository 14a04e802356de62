--------------------------- MODULE ClientHelloProofs ---------------------------
(***************************************************************************)
(* For every set of hellos, whatever the heap holds behind them: what lies *)
(* behind a fragment decides nothing, and which key share is taken.        *)
(***************************************************************************)
EXTENDS ClientHelloCheck, DataInduction, SequenceTheorems, TLAPS

\* The fields are numbers.
LEMMA HelloFields ==
  ASSUME NEW h \in Hello
  PROVE  /\ h.len \in Nat /\ h.sid \in Nat /\ h.cs \in Nat /\ h.comp \in Nat
         /\ h.total \in Nat /\ Len(h.suites) \in Nat /\ Len(h.exts) \in Nat
         /\ \A k \in 1..Len(h.exts) : h.exts[k].len \in Nat
<1>1. /\ h.len \in Nat /\ h.sid \in Byte /\ h.cs \in Word /\ h.comp \in Byte
      /\ h.total \in Word /\ h.suites \in Seq(Suites) /\ h.exts \in Seq(ExtensionHeader)
  BY DEF Hello
<1>2. ASSUME NEW k \in 1..Len(h.exts) PROVE h.exts[k].len \in Nat
  <2>1. h.exts[k] \in ExtensionHeader
    BY <1>1, ElementOfSeq
  <2> QED
    BY <2>1 DEF ExtensionHeader
<1>3. (\A x \in Byte : x \in Nat) /\ (\A x \in Word : x \in Nat)
  BY SMTT(20) DEF Byte, Word
<1> QED
  BY <1>1, <1>2, <1>3

-------------------------------------------------------------------------------
(* Where the extensions start *)

\* The offsets are the running sums of the headers and lengths.
LEMMA OffsetsAreSums ==
  ASSUME NEW h \in Hello
  PROVE  \E f : /\ Sums(Len(h.exts), [i \in 1..Len(h.exts) |-> 4 + h.exts[i].len], f)
                /\ \A k \in Int : ExtOffset(h, k) = f[k - 1]
<1> DEFINE n == Len(h.exts)
           step == [i \in 1..n |-> 4 + h.exts[i].len]
           f == CHOOSE g : g = [i \in 0..n |->
                                  IF i = 0 THEN 0 ELSE g[i - 1] + 4 + h.exts[i].len]
<1>1. n \in Nat /\ \A i \in 1..n : h.exts[i].len \in Nat
  BY HelloFields
<1>2. \A i \in 1..n : step[i] = 4 + h.exts[i].len /\ step[i] \in Nat
  BY <1>1
<1>3. \A k \in Int : ExtOffset(h, k) = f[k - 1]
  BY DEF ExtOffset
<1> HIDE DEF step, n
<1>4. PICK g : Sums(n, step, g)
  BY <1>1, <1>2, SumsExist
<1>5. /\ g \in [0..n -> Nat] /\ g[0] = 0
      /\ \A i \in 1..n : g[i] = g[i - 1] + step[i]
  BY <1>1, <1>2, <1>4, SumsType
<1>6. \A i \in 0..n : g[i] = IF i = 0 THEN 0 ELSE g[i - 1] + 4 + h.exts[i].len
  <2> SUFFICES ASSUME NEW i \in 0..n, i # 0
               PROVE  g[i] = g[i - 1] + 4 + h.exts[i].len
    BY <1>5
  <2>1. i \in 1..n /\ i - 1 \in 0..n
    BY <1>1
  <2>2. g[i] = g[i - 1] + (4 + h.exts[i].len) /\ g[i - 1] \in Nat /\ h.exts[i].len \in Nat
    BY <1>1, <1>2, <1>5, <2>1
  <2> QED
    BY <2>2
<1>7. g = [i \in 0..n |-> IF i = 0 THEN 0 ELSE g[i - 1] + 4 + h.exts[i].len]
  BY <1>5, <1>6
<1>8. f = [i \in 0..n |-> IF i = 0 THEN 0 ELSE f[i - 1] + 4 + h.exts[i].len]
  BY <1>7
<1> HIDE DEF f
<1> DEFINE S == {i \in 0..n : f[i] = g[i]}
<1>9. 0 \in S
  BY <1>1, <1>5, <1>8
<1>10. ASSUME NEW i \in 0..(n - 1), i \in S PROVE i + 1 \in S
  <2>1. i + 1 \in 0..n /\ i + 1 # 0 /\ (i + 1) - 1 = i
    BY <1>1
  <2>2. f[i + 1] = f[i] + 4 + h.exts[i + 1].len
    BY <1>8, <2>1
  <2>3. g[i + 1] = g[i] + 4 + h.exts[i + 1].len
    BY <1>6, <2>1
  <2> QED
    BY <1>10, <2>1, <2>2, <2>3
<1>11. 0..n \subseteq S
  <2> HIDE DEF S
  <2> QED
    BY <1>1, <1>9, <1>10, InductionUpTo
<1>12. f = g
  BY <1>5, <1>8, <1>11
<1> QED
  BY <1>3, <1>4, <1>12 DEF step, n

\* They are numbers, they grow, and each is four bytes and the length of the
\* extension behind the one before.
LEMMA OffsetFacts ==
  ASSUME NEW h \in Hello
  PROVE  /\ \A k \in 1..(Len(h.exts) + 1) : ExtOffset(h, k) \in Nat
         /\ \A k \in 1..Len(h.exts) :
              ExtOffset(h, k + 1) = ExtOffset(h, k) + 4 + h.exts[k].len
         /\ \A j, k \in 1..(Len(h.exts) + 1) :
              j <= k => ExtOffset(h, j) <= ExtOffset(h, k)
<1> DEFINE n == Len(h.exts)
           step == [i \in 1..n |-> 4 + h.exts[i].len]
<1>1. n \in Nat /\ \A i \in 1..n : h.exts[i].len \in Nat
  BY HelloFields
<1>2. \A i \in 1..n : step[i] = 4 + h.exts[i].len /\ step[i] \in Nat
  BY <1>1
<1>3. PICK f : Sums(n, step, f) /\ \A k \in Int : ExtOffset(h, k) = f[k - 1]
  BY OffsetsAreSums
<1> HIDE DEF n, step
<1>s. n \in Nat /\ (\A i \in 1..n : step[i] \in Nat) /\ Sums(n, step, f)
  BY <1>1, <1>2, <1>3
<1>4. /\ f \in [0..n -> Nat] /\ f[0] = 0
      /\ \A i \in 1..n : f[i] = f[i - 1] + step[i]
  BY <1>s, SumsType
<1>5. ASSUME NEW k \in 1..(n + 1)
      PROVE  ExtOffset(h, k) = f[k - 1] /\ k - 1 \in 0..n /\ ExtOffset(h, k) \in Nat
  BY <1>1, <1>3, <1>4
<1>6. ASSUME NEW k \in 1..n
      PROVE  ExtOffset(h, k + 1) = ExtOffset(h, k) + 4 + h.exts[k].len
  <2>1. k \in 1..(n + 1) /\ k + 1 \in 1..(n + 1) /\ (k + 1) - 1 = k
    BY <1>1
  <2>2. ExtOffset(h, k + 1) = f[k] /\ ExtOffset(h, k) = f[k - 1] /\ ExtOffset(h, k) \in Nat
    BY <1>5, <2>1
  <2> QED
    BY <1>1, <1>2, <1>4, <2>2
<1>7. ASSUME NEW j \in 1..(n + 1), NEW k \in 1..(n + 1), j <= k
      PROVE  ExtOffset(h, j) <= ExtOffset(h, k)
  <2> DEFINE a == j - 1
             b == k - 1
  <2>1. a \in 0..n /\ b \in a..n
    BY <1>1, <1>7
  <2> HIDE DEF a, b
  <2>2. f[a] <= f[b]
    BY <1>s, <2>1, SumsGrow
  <2> QED
    BY <1>5, <2>2 DEF a, b
<1> QED
  BY <1>5, <1>6, <1>7 DEF n

-------------------------------------------------------------------------------
(* What a hello decides by itself *)

\* The checks read no byte from behind a hello they accept.
Whole(h) ==
  /\ CsAt(h) <= h.len
  /\ SuitesAt(h) + h.cs + 1 + h.comp + 2 <= h.len

LEMMA BehindFields ==
  ASSUME NEW b \in Behind
  PROVE  b.cs \in Nat /\ b.comp \in Nat
<1>1. b.cs \in Word /\ b.comp \in Byte
  BY DEF Behind
<1>2. (\A x \in Byte : x \in Nat) /\ (\A x \in Word : x \in Nat)
  BY SMTT(20) DEF Byte, Word
<1> QED
  BY <1>1, <1>2

LEMMA FieldsInside ==
  ASSUME NEW h \in Hello, NEW b \in Behind, Fits(h, b), RestFits(h, b)
  PROVE  /\ CsLen(h, b) = h.cs /\ CompLen(h, b) = h.comp
         /\ CompAt(h, b) = SuitesAt(h) + h.cs
         /\ ExtAt(h, b) + 2 = FixedPart(h)
         /\ Whole(h)
<1>1. /\ h.len \in Nat /\ h.sid \in Nat /\ h.cs \in Nat /\ h.comp \in Nat
      /\ b.cs \in Nat /\ b.comp \in Nat
  BY HelloFields, BehindFields
<1> QED
  BY <1>1 DEF Fits, RestFits, CsLen, CompLen, CompAt, ExtAt, SuitesAt, CsAt, FixedPart, Whole

LEMMA WholeFits ==
  ASSUME NEW h \in Hello, NEW b \in Behind, Whole(h)
  PROVE  Fits(h, b) /\ RestFits(h, b)
<1>1. h.len \in Nat /\ h.sid \in Nat /\ h.cs \in Nat /\ h.comp \in Nat
  BY HelloFields
<1>2. SuitesAt(h) <= h.len /\ CsLen(h, b) = h.cs /\ SuitesAt(h) \in Nat
  BY <1>1 DEF Whole, CsLen, SuitesAt, CsAt
<1>3. CompAt(h, b) = SuitesAt(h) + h.cs /\ CompAt(h, b) < h.len
  BY <1>1, <1>2 DEF Whole, CompAt
<1>4. CompLen(h, b) = h.comp
  BY <1>3 DEF CompLen
<1> QED
  BY <1>1, <1>2, <1>3, <1>4 DEF Whole, Fits, RestFits, ExtAt

\* Nor do the cipher suites: the last entry may end one byte behind the block,
\* but not behind a hello that has a compression method length.
LEMMA SuitesInside ==
  ASSUME NEW h \in Hello, NEW b \in Behind, NEW c \in Behind, Whole(h)
  PROVE  Chosen(h, b) = Chosen(h, c) /\ SuiteChosen(h, b) = SuiteChosen(h, c)
<1>1. /\ Fits(h, b) /\ Fits(h, c)
      /\ CsLen(h, b) = h.cs /\ CsLen(h, c) = h.cs
  BY WholeFits, FieldsInside
<1>2. h.len \in Nat /\ h.sid \in Nat /\ h.cs \in Nat /\ h.comp \in Nat /\ Len(h.suites) \in Nat
  BY HelloFields
<1>3. Entries(h, b) = Entries(h, c)
  BY <1>1 DEF Entries
<1>4. ASSUME NEW k \in Entries(h, b)
      PROVE  Entry(h, b, k) = h.suites[k] /\ Entry(h, c, k) = h.suites[k]
  <2>1. k \in Nat /\ 2 * (k - 1) < h.cs
    BY <1>1, <1>2 DEF Entries
  <2>2. 2 * k <= h.cs + 1
    BY <1>2, <2>1
  <2>3. SuitesAt(h) + 2 * k <= h.len
    <3>1. SuitesAt(h) + h.cs + 1 <= h.len /\ SuitesAt(h) \in Nat
      BY <1>2, SMTT(20) DEF Whole, SuitesAt, CsAt
    <3>2. 2 * k \in Int
      BY <2>1
    <3> QED
      BY <1>2, <2>2, <3>1, <3>2
  <2> QED
    BY <2>3 DEF Entry
<1>5. Chosen(h, b) = Chosen(h, c)
  BY <1>3, <1>4 DEF Chosen
<1>6. CASE Chosen(h, b) = {}
  BY <1>5, <1>6 DEF SuiteChosen
<1>7. CASE Chosen(h, b) # {}
  <2> DEFINE k == CHOOSE i \in Chosen(h, b) : TRUE
             l == CHOOSE i \in Chosen(h, c) : TRUE
  <2>1. k = l
    BY <1>5
  <2>2. k \in Entries(h, b)
    BY <1>7 DEF Chosen
  <2>3. SuiteChosen(h, b) = Entry(h, b, k) /\ SuiteChosen(h, c) = Entry(h, c, l)
    BY <1>1, <1>5, <1>7 DEF SuiteChosen
  <2> HIDE DEF k, l
  <2> QED
    BY <1>4, <1>5, <2>1, <2>2, <2>3
<1> QED
  BY <1>5, <1>6, <1>7

-------------------------------------------------------------------------------
(* Key shares *)

\* A share is taken from a hello accepted, where its bytes begin, as long as
\* the walk has come there, and whole.
Taken(h) ==
  {k \in 1..Len(h.exts) :
     /\ IsKeyShare(h.exts[k])
     /\ \A j \in 1..k : InLoop(h, FixedPart(h) + ExtOffset(h, j))
     /\ \A j \in 1..(k - 1) : ~IsKeyShare(h.exts[j])
     /\ h.exts[k].key_len = 32
     /\ FixedPart(h) + ExtOffset(h, k) + 42 <= h.len}

LEMMA SharesInside ==
  ASSUME NEW h \in Hello, NEW b \in Behind, Whole(h)
  PROVE  ShareStored(h, b) = Taken(h)
<1>1. ExtAt(h, b) + 2 = FixedPart(h)
  BY WholeFits, FieldsInside
<1>2. \A j \in 1..Len(h.exts) : ExtStart(h, b, j) = FixedPart(h) + ExtOffset(h, j)
  BY <1>1 DEF ExtStart
<1>3. h.len \in Nat /\ h.sid \in Nat /\ h.cs \in Nat /\ h.comp \in Nat
      /\ Len(h.exts) \in Nat
  BY HelloFields
<1>4. FixedPart(h) \in Nat
  BY <1>3, SMTT(20) DEF FixedPart
<1>5. ASSUME NEW k \in 1..Len(h.exts)
      PROVE  k \in ShareStored(h, b) <=> k \in Taken(h)
  <2> DEFINE at == FixedPart(h) + ExtOffset(h, k)
  <2>1. at \in Nat
    <3>1. k \in 1..(Len(h.exts) + 1)
      BY <1>3
    <3>2. ExtOffset(h, k) \in Nat
      BY <3>1, OffsetFacts
    <3> QED
      BY <1>4, <3>2
  <2>2. ExtStart(h, b, k) = at /\ \A j \in 1..k : j \in 1..Len(h.exts)
    BY <1>2, <1>3
  <2> HIDE DEF at
  <2>3. at + 10 + 32 <= h.len <=> at + 42 <= h.len
    BY <1>3, <2>1
  <2>4. at + 42 <= h.len => at + 10 <= h.len
    BY <1>3, <2>1
  <2>5. k \in ShareSeen(h, b) <=> /\ IsKeyShare(h.exts[k])
                                  /\ \A j \in 1..k : InLoop(h, FixedPart(h) + ExtOffset(h, j))
                                  /\ \A j \in 1..(k - 1) : ~IsKeyShare(h.exts[j])
    BY <1>2, <2>2 DEF ShareSeen
  <2>6. k \in ShareStored(h, b) <=>
          /\ k \in ShareSeen(h, b)
          /\ (IF at + 10 <= h.len THEN h.exts[k].key_len ELSE b.key_len) = 32
          /\ at + 42 <= h.len
    BY <2>2, <2>3 DEF ShareStored, KeyLen, ShareSeen
  <2> QED
    BY <2>4, <2>5, <2>6 DEF Taken, at
<1> QED
  BY <1>5 DEF ShareStored, ShareSeen, Taken

-------------------------------------------------------------------------------
(* What a call leaves *)

\* Everything but the suite of a hello that is refused.
LEMMA Verdict ==
  ASSUME NEW h \in Hello, NEW b \in Behind
  PROVE  LET p == axon_parse_client_hello(h, b)
         IN  /\ p.ok \in BOOLEAN /\ p.random \in BOOLEAN /\ p.share \in BOOLEAN
             /\ p.random <=> h.len >= 40
             /\ p.ok => h.len >= 40 /\ Whole(h) /\ Chosen(h, b) # {}
             /\ h.len >= 40 /\ Whole(h) /\ Chosen(h, b) # {} => p.ok
             /\ p.share <=> p.ok /\ Taken(h) # {}
             /\ p.ok => p.suite = SuiteChosen(h, b)
<1> DEFINE p == axon_parse_client_hello(h, b)
<1>0. h.len \in Nat
  BY HelloFields
<1>1. Accepts(h, b) <=> Whole(h) /\ Chosen(h, b) # {}
  BY WholeFits, FieldsInside DEF Accepts
<1>2. Whole(h) => ShareStored(h, b) = Taken(h)
  BY SharesInside
<1>3. CASE h.len < 40
  <2>1. p = [ok |-> FALSE, random |-> FALSE, suite |-> NoSuite, share |-> FALSE]
    BY <1>3 DEF axon_parse_client_hello
  <2> HIDE DEF p
  <2>2. p.ok = FALSE /\ p.random = FALSE /\ p.share = FALSE /\ ~(h.len >= 40)
    BY <1>0, <1>3, <2>1
  <2>3. /\ p.ok \in BOOLEAN /\ p.random \in BOOLEAN /\ p.share \in BOOLEAN
        /\ p.random <=> h.len >= 40
        /\ p.share <=> p.ok /\ Taken(h) # {}
    BY <2>2
  <2> QED
    BY <2>2, <2>3 DEF p
<1>4. CASE h.len >= 40
  <2>1. p = [ok     |-> Accepts(h, b),
             random |-> TRUE,
             suite  |-> SuiteChosen(h, b),
             share  |-> Accepts(h, b) /\ ShareStored(h, b) # {}]
    BY <1>0, <1>4 DEF axon_parse_client_hello
  <2>2. Accepts(h, b) \in BOOLEAN
    BY DEF Accepts, Fits
  <2> HIDE DEF p
  <2>3. /\ p.ok = Accepts(h, b) /\ p.random = TRUE /\ p.suite = SuiteChosen(h, b)
        /\ p.share = (Accepts(h, b) /\ ShareStored(h, b) # {})
    BY <2>1
  <2> QED
    <3>1. p.share \in BOOLEAN /\ p.random \in BOOLEAN /\ p.ok \in BOOLEAN
      BY <2>2, <2>3
    <3>2. p.share <=> p.ok /\ Taken(h) # {}
      BY <1>1, <1>2, <2>2, <2>3
    <3> QED
      BY <1>1, <1>4, <2>3, <3>1, <3>2 DEF p
<1> QED
  BY <1>0, <1>3, <1>4

-------------------------------------------------------------------------------
(* The behaviours *)

\* A hello is a fragment of the set, and what a call left is its own result.
Inv ==
  /\ hello \in HelloSet
  /\ result = NotParsed \/ \E b \in BehindSet : result = axon_parse_client_hello(hello, b)

LEMMA InvHolds == Spec => []Inv
<1>1. Init => Inv
  BY DEF Init, Inv
<1>2. Inv /\ [Next]_vars => Inv'
  <2> SUFFICES ASSUME Inv, [Next]_vars PROVE Inv'
    OBVIOUS
  <2>1. CASE Parse
    BY <2>1 DEF Inv, Parse
  <2>2. CASE Again
    BY <2>2 DEF Inv, Again
  <2>3. CASE UNCHANGED vars
    BY <2>3 DEF Inv, vars
  <2> QED
    BY <2>1, <2>2, <2>3 DEF Next
<1> QED
  BY <1>1, <1>2, PTL DEF Spec

\* The offset checks of axon_parse_client_hello come after the reads they
\* should guard (handshake.c:39-67, 75-81); whatever the heap holds behind the
\* fragment, the verdict, the key share and an accepted suite are the same.
THEOREM BehindDecidesNothing == Spec => []BehindNeverDecides
<1>1. Inv => BehindNeverDecides
  <2> SUFFICES ASSUME Inv, result # NotParsed, NEW c \in BehindSet
               PROVE  LET other == axon_parse_client_hello(hello, c)
                      IN  /\ result.ok = other.ok
                          /\ result.random = other.random
                          /\ result.share = other.share
                          /\ result.ok => result.suite = other.suite
    BY DEF BehindNeverDecides
  <2> DEFINE other == axon_parse_client_hello(hello, c)
  <2>1. PICK b \in BehindSet : result = axon_parse_client_hello(hello, b)
    BY DEF Inv
  <2>2. hello \in Hello /\ b \in Behind /\ c \in Behind
    BY HelloSetAssumption, BehindSetAssumption DEF Inv
  <2>3. Whole(hello) => /\ Chosen(hello, b) = Chosen(hello, c)
                        /\ SuiteChosen(hello, b) = SuiteChosen(hello, c)
    BY <2>2, SuitesInside
  <2>4. /\ result.ok \in BOOLEAN /\ result.random \in BOOLEAN /\ result.share \in BOOLEAN
        /\ result.random <=> hello.len >= 40
        /\ result.ok <=> hello.len >= 40 /\ Whole(hello) /\ Chosen(hello, b) # {}
        /\ result.share <=> result.ok /\ Taken(hello) # {}
        /\ result.ok => result.suite = SuiteChosen(hello, b)
    BY <2>1, <2>2, Verdict
  <2>5. /\ other.ok \in BOOLEAN /\ other.random \in BOOLEAN /\ other.share \in BOOLEAN
        /\ other.random <=> hello.len >= 40
        /\ other.ok <=> hello.len >= 40 /\ Whole(hello) /\ Chosen(hello, c) # {}
        /\ other.share <=> other.ok /\ Taken(hello) # {}
        /\ other.ok => other.suite = SuiteChosen(hello, c)
    BY <2>2, Verdict
  <2> HIDE DEF other
  <2>6. result.ok = other.ok
    BY <2>3, <2>4, <2>5
  <2>7. result.random = other.random /\ result.share = other.share
    BY <2>4, <2>5, <2>6
  <2>8. result.ok => result.suite = other.suite
    BY <2>3, <2>4, <2>5, <2>6
  <2> QED
    BY <2>6, <2>7, <2>8 DEF other
<1> QED
  BY <1>1, InvHolds, PTL

\* A hello in which a share is found: nothing of the verdict but the share.
LEMMA ShareTaken ==
  ASSUME Inv
  PROVE  /\ hello \in Hello
         /\ result.share <=> result.ok /\ Taken(hello) # {}
<1>1. hello \in Hello
  BY HelloSetAssumption DEF Inv
<1>2. CASE result = NotParsed
  <2>1. result.ok = FALSE /\ result.share = FALSE
    BY <1>2 DEF NotParsed
  <2> QED
    BY <1>1, <2>1
<1>3. CASE result # NotParsed
  <2>1. PICK b \in Behind : result = axon_parse_client_hello(hello, b)
    BY <1>3, BehindSetAssumption DEF Inv
  <2> QED
    BY <1>1, <2>1, Verdict
<1> QED
  BY <1>2, <1>3

\* The bytes in front of the extensions, and where extension k begins.
LEMMA Places ==
  ASSUME NEW h \in Hello
  PROVE  /\ FixedPart(h) \in Nat /\ FixedPart(h) = 42 + h.sid + h.cs + h.comp
         /\ h.sid \in Nat /\ h.cs \in Nat /\ h.comp \in Nat /\ h.len \in Nat /\ h.total \in Nat
         /\ \A k \in 1..Len(h.exts) : ExtOffset(h, k) \in Nat
<1>1. /\ h.sid \in Nat /\ h.cs \in Nat /\ h.comp \in Nat /\ h.len \in Nat /\ h.total \in Nat
      /\ Len(h.exts) \in Nat
  BY HelloFields
<1>2. \A k \in 1..Len(h.exts) : k \in 1..(Len(h.exts) + 1)
  BY <1>1
<1>3. FixedPart(h) \in Nat /\ FixedPart(h) = 42 + h.sid + h.cs + h.comp
  <2> DEFINE x == h.sid
             y == h.cs
             z == h.comp
  <2>1. x \in Nat /\ y \in Nat /\ z \in Nat
    BY <1>1
  <2> HIDE DEF x, y, z
  <2>2. /\ 37 + x + 2 + y + 1 + z + 2 \in Nat
        /\ 37 + x + 2 + y + 1 + z + 2 = 42 + x + y + z
    BY <2>1
  <2> QED
    BY <2>2 DEF FixedPart, x, y, z
<1> QED
  BY <1>1, <1>2, <1>3, OffsetFacts

\* The key share loop (handshake.c:70-85) copies no byte from outside the
\* extension block the client declared, although its condition measures that
\* block from the wrong place: what lies in front of the block is 45 bytes or
\* more, and that outweighs the 42 bytes of the share behind the loop check.
THEOREM StoredShareStaysInside == Spec => []StoredShareInsideBlock
<1>1. Inv => StoredShareInsideBlock
  <2> SUFFICES ASSUME Inv, result.share, hello.cs >= 2, hello.comp >= 1
               PROVE  \E k \in 1..Len(hello.exts) :
                        /\ IsKeyShare(hello.exts[k])
                        /\ FixedPart(hello) + ExtOffset(hello, k) + 42 <= hello.len
                        /\ ExtOffset(hello, k) + 42 <= hello.total
    BY DEF StoredShareInsideBlock
  <2>1. hello \in Hello /\ Taken(hello) # {}
    BY ShareTaken
  <2>2. PICK k \in 1..Len(hello.exts) :
               /\ IsKeyShare(hello.exts[k])
               /\ \A j \in 1..k : InLoop(hello, FixedPart(hello) + ExtOffset(hello, j))
               /\ FixedPart(hello) + ExtOffset(hello, k) + 42 <= hello.len
    BY <2>1 DEF Taken
  <2> DEFINE at == ExtOffset(hello, k)
  <2>3. k \in 1..k
    BY <2>1, HelloFields
  <2>4. (FixedPart(hello) + at) - 4 < hello.total
    BY <2>2, <2>3 DEF InLoop
  <2>5. /\ FixedPart(hello) \in Nat /\ at \in Nat /\ hello.total \in Nat
        /\ FixedPart(hello) = 42 + hello.sid + hello.cs + hello.comp
        /\ hello.sid \in Nat /\ hello.cs \in Nat /\ hello.comp \in Nat
    BY <2>1, Places
  <2> HIDE DEF at
  <2>6. FixedPart(hello) >= 45
    BY <2>5
  <2>7. at + 42 <= hello.total
    BY <2>4, <2>5, <2>6
  <2> QED
    BY <2>2, <2>7 DEF at
<1> QED
  BY <1>1, InvHolds, PTL

\* Which untruncated hello has its key share taken: the loop condition of
\* handshake.c:70, evaluated at the share and at every extension before it, is
\* the comparison of the fixed part with the bytes from the share to the end.
THEOREM ShareIsTakenExactlyWhen == Spec => []ShareTakenExactlyWhen
<1>1. Inv => ShareTakenExactlyWhen
  <2> SUFFICES ASSUME Inv, NEW k \in 1..Len(hello.exts),
                      Exact(hello), result.ok, IsKeyShare(hello.exts[k]),
                      hello.exts[k].len >= 38, hello.exts[k].key_len = 32,
                      \A j \in 1..(k - 1) : ~IsKeyShare(hello.exts[j])
               PROVE  result.share
                        <=> FixedPart(hello) < 4 + BlockSize(hello) - ExtOffset(hello, k)
    BY DEF ShareTakenExactlyWhen
  <2> DEFINE n == Len(hello.exts)
             fixed == FixedPart(hello)
             at(j) == ExtOffset(hello, j)
             block == BlockSize(hello)
  <2>1. hello \in Hello /\ (result.share <=> Taken(hello) # {})
    BY ShareTaken
  <2>2. n \in Nat /\ k \in Nat /\ k + 1 \in 1..(n + 1) /\ k \in 1..(n + 1) /\ n + 1 \in 1..(n + 1)
    BY <2>1, HelloFields
  <2>3. /\ at(k) \in Nat /\ at(k + 1) \in Nat /\ block \in Nat
        /\ at(k + 1) = at(k) + 4 + hello.exts[k].len /\ at(k + 1) <= block
        /\ \A j \in 1..k : at(j) \in Nat /\ at(j) <= at(k)
    <3>1. \A j \in 1..k : j \in 1..(n + 1) /\ j <= k
      BY <2>2
    <3>2. k + 1 <= n + 1 /\ block = at(n + 1)
      BY <2>2 DEF BlockSize
    <3> QED
      BY <2>1, <2>2, <3>1, <3>2, OffsetFacts
  <2>4. fixed \in Nat /\ hello.len = fixed + block /\ hello.total = block
        /\ hello.exts[k].len \in Nat
    BY <2>1, Places, HelloFields DEF Exact
  <2>e. hello.exts[k].len \in Nat /\ hello.exts[k].len >= 38
    BY <2>4
  <2> HIDE DEF n, fixed, at, block
  <2>5. at(k) + 42 <= block
    BY <2>3, <2>e, SMTT(20)
  <2>6. InLoop(hello, fixed + at(k)) <=> fixed < 4 + block - at(k)
    BY <2>3, <2>4, <2>5, SMTT(20) DEF InLoop
  <2>7. \A j \in 1..k : InLoop(hello, fixed + at(k)) => InLoop(hello, fixed + at(j))
    <3> SUFFICES ASSUME NEW j \in 1..k, InLoop(hello, fixed + at(k))
                 PROVE  InLoop(hello, fixed + at(j))
      OBVIOUS
    <3>1. at(j) \in Nat /\ at(k) \in Nat /\ at(j) <= at(k)
      BY <2>3
    <3>2. fixed + at(k) + 4 <= hello.len /\ (fixed + at(k)) - 4 < hello.total
      BY DEF InLoop
    <3>3. \A x, y, z \in Nat : y <= z =>
            \A l, t \in Nat : x + z + 4 <= l /\ (x + z) - 4 < t => x + y + 4 <= l /\ (x + y) - 4 < t
      OBVIOUS
    <3>4. fixed \in Nat /\ hello.len \in Nat /\ hello.total \in Nat
      BY <2>3, <2>4
    <3>5. fixed + at(j) + 4 <= hello.len /\ (fixed + at(j)) - 4 < hello.total
      BY <3>1, <3>2, <3>3, <3>4
    <3> QED
      BY <3>5 DEF InLoop
  <2>8. fixed + at(k) + 42 <= hello.len
    BY <2>3, <2>4, <2>5
  <2>9. k \in Taken(hello) <=> InLoop(hello, fixed + at(k))
    <3>1. k \in 1..k
      BY <2>2
    <3> QED
      BY <2>7, <2>8, <3>1 DEF Taken, fixed, at
  <2>10. ASSUME NEW i \in Taken(hello) PROVE i = k
    <3>1. i \in 1..n /\ IsKeyShare(hello.exts[i])
          /\ \A j \in 1..(i - 1) : ~IsKeyShare(hello.exts[j])
      BY DEF Taken, n
    <3>2. ~(i < k) /\ ~(k < i)
      BY <2>2, <3>1
    <3> QED
      BY <2>2, <3>1, <3>2
  <2>11. Taken(hello) # {} <=> k \in Taken(hello)
    BY <2>10
  <2> QED
    BY <2>1, <2>6, <2>9, <2>11 DEF fixed, at, block
<1> QED
  BY <1>1, InvHolds, PTL

===============================================================================

----------------------------- MODULE CryptoProofs -----------------------------
(***************************************************************************)
(* The primitives for texts, keys and hashes of every length the counters  *)
(* of the code can count.                                                  *)
(***************************************************************************)
EXTENDS Crypto, SequenceTheorems, TLAPS

-------------------------------------------------------------------------------
(* SHA-256 *)

(***************************************************************************)
(* Whatever was hashed, sha256_final leaves no half-filled block, adds the *)
(* nine bytes it needs and at most a block more, calls the transform as    *)
(* often as FIPS 180-4 asks for, and needs more than its array exactly     *)
(* when less than nine bytes of the last block are free (sha256.c:110-121).*)
(***************************************************************************)
THEOREM PaddingClosesTheBlock ==
  ASSUME NEW count \in Nat
  PROVE  /\ (count + pad_len(count)) % 64 = 0
         /\ pad_len(count) \in 9..72
         /\ Transforms(count) = (count + 8) \div 64 + 1
         /\ PaddingOverflows(count) <=> count % 64 >= 56
<1> DEFINE q == count \div 64
           r == count % 64
<1>1. q \in Nat /\ r \in 0..63 /\ count = 64 * q + r
  OBVIOUS
<1>2. pad_len(count) = IF r > 55 THEN 128 - r ELSE 64 - r
  BY <1>1 DEF pad_len
<1>3. count + pad_len(count) = IF r > 55 THEN 64 * (q + 2) ELSE 64 * (q + 1)
  BY <1>1, <1>2
<1>4. (64 * (q + 2)) % 64 = 0 /\ (64 * (q + 1)) % 64 = 0
      /\ (64 * (q + 2)) \div 64 = q + 2 /\ (64 * (q + 1)) \div 64 = q + 1
  BY <1>1
<1>5. (count + 8) \div 64 = IF r > 55 THEN q + 1 ELSE q
  BY <1>1
<1> QED
  BY <1>1, <1>2, <1>3, <1>4, <1>5 DEF Transforms, PaddingOverflows

-------------------------------------------------------------------------------
(* Counters *)

LEMMA UpperBytesCount == UpperBytes \in Nat /\ UpperBytes > 1
  BY SMT DEF UpperBytes

\* What a counter counts.
Value(c) == 256 * c.high + c.low

\* A number below 2^32 in its bytes.
LEMMA CounterBytes ==
  ASSUME NEW n \in Nat, n < 256 * UpperBytes
  PROVE  /\ n \div 256 \in 0..(UpperBytes - 1)
         /\ n % 256 \in 0..255
         /\ n = 256 * (n \div 256) + (n % 256)
         /\ Counter(n) = [high |-> n \div 256, low |-> n % 256]
<1>1. n \div 256 \in 0..(UpperBytes - 1) /\ n % 256 \in 0..255
      /\ n = 256 * (n \div 256) + (n % 256)
  BY UpperBytesCount
<1>2. \A q \in 0..(UpperBytes - 1) : q % UpperBytes = q
  BY UpperBytesCount
<1>3. (n \div 256) % UpperBytes = n \div 256
  BY <1>1, <1>2
<1> QED
  BY <1>1, <1>3 DEF Counter

\* A counter below 2^32 is one number.
LEMMA CountersDiffer ==
  ASSUME NEW a \in Nat, NEW b \in Nat, a < 256 * UpperBytes, b < 256 * UpperBytes,
         Counter(a) = Counter(b)
  PROVE  a = b
<1>1. Value(Counter(a)) = a /\ Value(Counter(b)) = b
  BY CounterBytes DEF Value
<1> QED
  BY <1>1

\* gcm_inc32 counts on.
LEMMA IncrementCounts ==
  ASSUME NEW n \in Nat, n + 1 < 256 * UpperBytes
  PROVE  gcm_inc32(Counter(n)) = Counter(n + 1)
<1> DEFINE q == n \div 256
           r == n % 256
<1>1. q \in 0..(UpperBytes - 1) /\ r \in 0..255 /\ n = 256 * q + r
  BY CounterBytes, UpperBytesCount
<1>2. Counter(n).high = q /\ Counter(n).low = r
  BY CounterBytes, UpperBytesCount
<1>3. gcm_inc32(Counter(n)) =
        [high |-> (q + (r + 1) \div 256) % UpperBytes, low |-> (r + 1) % 256]
  BY <1>2 DEF gcm_inc32
<1>4. q + (r + 1) \div 256 = (n + 1) \div 256 /\ (r + 1) % 256 = (n + 1) % 256
  <2> HIDE DEF q, r
  <2>1. CASE r < 255
    BY <1>1, <2>1
  <2>2. CASE r = 255
    BY <1>1, <2>2
  <2> QED
    BY <1>1, <2>1, <2>2
<1> QED
  BY <1>3, <1>4 DEF Counter

-------------------------------------------------------------------------------
(* HKDF *)

OkmBytes == [prk : Nat, previous : Nat, counter : Nat] \X Nat

HkdfTypes ==
  /\ call \in {"idle", "extracted", "expanding", "expanded", "aborted"}
  /\ prk \in Nat /\ info_len \in Nat /\ okm_len \in Nat
  /\ generated \in Nat /\ generated <= okm_len
  /\ counter \in 0..255 /\ previous \in 0..255
  /\ okm \in Seq(OkmBytes)

\* While there is more to write the loop is at the head of a whole pass, and for
\* as long as the byte counter counts it is the number of that pass.
LoopCounts ==
  call = "expanding" /\ generated < okm_len =>
    \E k \in Nat :
      /\ generated = HashLen * k
      /\ k <= 254 => counter = k + 1 /\ (k > 0 => previous = k)

HkdfInv == HkdfTypes /\ LoopCounts /\ OkmFollowsRfc5869

LEMMA HkdfStarts == HkdfInit => HkdfInv
  BY DEF HkdfInit, HkdfInv, HkdfTypes, LoopCounts, OkmFollowsRfc5869

\* Places in pass number k.
LEMMA PlaceInPass ==
  ASSUME NEW k \in Nat, NEW i \in Nat, 32 * k < i, i <= 32 * k + 32
  PROVE  (i - 1) \div 32 = k /\ (i - 1) % 32 = i - 1 - 32 * k
  OBVIOUS

LEMMA ExpandBlockStep ==
  ASSUME HkdfInv, expand_block PROVE HkdfInv'
<1>1. PICK k \in Nat :
        /\ generated = 32 * k
        /\ k <= 254 => counter = k + 1 /\ (k > 0 => previous = k)
  BY DEF HkdfInv, LoopCounts, expand_block, HashLen
<1> DEFINE n == ToCopy
           piece == [j \in 1..n |-> <<Digest, j>>]
<1>2. /\ call = "expanding" /\ generated < okm_len /\ call' = call /\ prk' = prk
      /\ info_len' = info_len /\ okm_len' = okm_len
      /\ okm' = okm \o piece /\ previous' = counter
      /\ generated' = generated + n /\ counter' = (counter + 1) % 256
  BY DEF expand_block, NextPrevious
<1>3. /\ okm_len \in Nat /\ generated \in Nat /\ counter \in 0..255 /\ previous \in 0..255
      /\ okm \in Seq(OkmBytes) /\ Len(okm) = generated /\ prk \in Nat
  BY <1>2 DEF HkdfInv, HkdfTypes, OkmFollowsRfc5869
<1>4. n \in 1..32 /\ generated + n <= okm_len /\ (generated + n < okm_len => n = 32)
  BY <1>2, <1>3 DEF ToCopy, HashLen
<1>5. Digest \in [prk : Nat, previous : Nat, counter : Nat]
  BY <1>3 DEF Digest
<1>6. piece \in Seq(OkmBytes) /\ Len(piece) = n
  BY <1>4, <1>5 DEF OkmBytes
<1>7. /\ okm' \in Seq(OkmBytes) /\ Len(okm') = generated + n
      /\ \A i \in 1..(generated + n) :
           okm'[i] = IF i <= generated THEN okm[i] ELSE piece[i - generated]
  <2> HIDE DEF piece, n
  <2> QED
    BY <1>2, <1>3, <1>4, <1>6, ConcatProperties
<1> HIDE DEF n
<1>8. HkdfTypes'
  <2>1. counter' \in 0..255
    BY <1>2, <1>3
  <2> QED
    BY <1>2, <1>3, <1>4, <1>7, <2>1 DEF HkdfInv, HkdfTypes
<1>9. LoopCounts'
  <2>1. ASSUME generated' < okm_len'
        PROVE  \E m \in Nat :
                 /\ generated' = 32 * m
                 /\ m <= 254 => counter' = m + 1 /\ (m > 0 => previous' = m)
    <3>1. k + 1 \in Nat /\ generated' = 32 * (k + 1)
      BY <1>1, <1>2, <1>4, <2>1
    <3>2. ASSUME k + 1 <= 254 PROVE counter' = k + 2 /\ previous' = k + 1
      BY <1>1, <1>2, <3>2
    <3> QED
      BY <3>1, <3>2
  <2> QED
    BY <2>1 DEF LoopCounts, HashLen
<1>10. ASSUME NEW i \in 1..(generated + n), i <= 255 * 32
       PROVE  okm'[i] = <<T((i - 1) \div 32 + 1), ((i - 1) % 32) + 1>>'
  <2>1. CASE i <= generated
    <3>1. okm'[i] = okm[i]
      BY <1>3, <1>4, <1>7, <2>1
    <3>2. okm[i] = <<T((i - 1) \div 32 + 1), ((i - 1) % 32) + 1>>
      BY <1>2, <1>3, <1>10, <2>1 DEF HkdfInv, OkmFollowsRfc5869, HashLen
    <3> QED
      BY <1>2, <3>1, <3>2 DEF T
  <2>2. CASE i > generated
    <3>1. i - generated \in 1..n
      BY <1>3, <1>4, <2>2
    <3>2. okm'[i] = <<Digest, i - generated>>
      <4>1. okm'[i] = piece[i - generated]
        <5> HIDE DEF piece
        <5> QED
          BY <1>3, <1>4, <1>7, <2>2
      <4>2. \A j \in 1..n : piece[j] = <<Digest, j>>
        OBVIOUS
      <4> HIDE DEF piece
      <4> QED
        BY <3>1, <4>1, <4>2
    <3>3. (i - 1) \div 32 = k /\ (i - 1) % 32 = i - 1 - 32 * k
      <4> HIDE DEF piece
      <4>1. i \in Nat /\ 32 * k < i /\ i <= 32 * k + 32
        BY <1>1, <1>3, <1>4, <2>2
      <4> QED
        BY <4>1, PlaceInPass
    <3>4. k <= 254
      BY <1>1, <1>10, <2>2
    <3>5. Digest = [prk |-> prk, previous |-> k, counter |-> k + 1]
      BY <1>1, <1>3, <3>4 DEF Digest
    <3>6. T((i - 1) \div 32 + 1)' = [prk |-> prk, previous |-> k, counter |-> k + 1]
      BY <1>2, <3>3 DEF T
    <3>7. i - generated = ((i - 1) % 32) + 1
      BY <1>1, <1>3, <3>3
    <3> QED
      BY <3>2, <3>5, <3>6, <3>7
  <2> QED
    BY <1>3, <1>4, <2>1, <2>2
<1>11. OkmFollowsRfc5869'
  BY <1>2, <1>7, <1>10 DEF OkmFollowsRfc5869, HashLen
<1> QED
  BY <1>8, <1>9, <1>11 DEF HkdfInv

LEMMA HkdfStep ==
  ASSUME HkdfInv, HkdfNext PROVE HkdfInv'
<1>1. CASE \E salt_len \in SaltLengths : hkdf_extract(salt_len)
  <2>1. PICK salt_len \in SaltLengths : hkdf_extract(salt_len)
    BY <1>1
  <2>2. prk' \in Nat /\ call' \in {"extracted", "aborted"}
    BY <2>1, HkdfAssumption DEF hkdf_extract, SaltHashed
  <2> QED
    BY <2>1, <2>2 DEF hkdf_extract, HkdfInv, HkdfTypes, LoopCounts, OkmFollowsRfc5869
<1>2. CASE \E info \in InfoLengths, wanted \in OkmLengths : hkdf_expand(info, wanted)
  <2>1. PICK info \in InfoLengths, wanted \in OkmLengths : hkdf_expand(info, wanted)
    BY <1>2
  <2>2. info \in Nat /\ wanted \in Nat
    BY HkdfAssumption
  <2>3. /\ generated' = 0 /\ counter' = 1 /\ previous' = 0 /\ okm' = <<>>
        /\ call' = "expanding" /\ prk' = prk /\ info_len' = info /\ okm_len' = wanted
    BY <2>1 DEF hkdf_expand
  <2>4. LoopCounts'
    <3>1. generated' = HashLen * 0 /\ counter' = 0 + 1
      BY <2>3 DEF HashLen
    <3> QED
      BY <3>1 DEF LoopCounts
  <2> QED
    BY <2>2, <2>3, <2>4 DEF HkdfInv, HkdfTypes, OkmFollowsRfc5869
<1>3. CASE expand_block
  BY <1>3, ExpandBlockStep
<1>4. CASE expand_aborts
  BY <1>4 DEF expand_aborts, HkdfInv, HkdfTypes, LoopCounts, OkmFollowsRfc5869
<1>5. CASE expand_returns
  <2>1. OkmFollowsRfc5869'
    BY <1>5 DEF expand_returns, HkdfInv, HkdfTypes, OkmFollowsRfc5869, T
  <2> QED
    BY <1>5, <2>1 DEF expand_returns, HkdfInv, HkdfTypes, LoopCounts
<1>6. CASE keys_taken
  BY <1>6 DEF keys_taken, HkdfInv, HkdfTypes, LoopCounts, OkmFollowsRfc5869
<1> QED
  BY <1>1, <1>2, <1>3, <1>4, <1>5, <1>6 DEF HkdfNext

LEMMA HkdfStutter ==
  ASSUME HkdfInv, UNCHANGED hkdfVars PROVE HkdfInv'
  BY DEF hkdfVars, HkdfInv, HkdfTypes, LoopCounts, OkmFollowsRfc5869, T

\* OkmFollowsRfc5869, for all lengths.
THEOREM DerivedBytesFollowRfc == Spec => []OkmFollowsRfc5869
<1>1. Init => HkdfInv
  BY HkdfStarts DEF Init
<1>2. HkdfInv /\ [Next]_vars => HkdfInv'
  <2> SUFFICES ASSUME HkdfInv, [Next]_vars PROVE HkdfInv'
    OBVIOUS
  <2>1. HkdfNext \/ UNCHANGED hkdfVars
    BY DEF Next, vars
  <2> QED
    BY <2>1, HkdfStep, HkdfStutter
<1>3. HkdfInv => OkmFollowsRfc5869
  BY DEF HkdfInv
<1> QED
  BY <1>1, <1>2, <1>3, PTL DEF Spec

(***************************************************************************)
(* With the lengths the handshake uses - a salt of 32 bytes, 9 or 13 bytes *)
(* of info - no hash of a derivation needs more padding than sha256_final  *)
(* has room for, however many bytes are asked for (handshake.c:340-356,    *)
(* main.c:95-98).  Infos of up to 22 bytes stay clear of it.               *)
(***************************************************************************)
THEOREM DerivationNeverOverflows ==
  ASSUME SaltLengths \subseteq {0, 32}, InfoLengths \subseteq 0..22
  PROVE  Spec => [](call # "aborted")
<1> DEFINE Safe == HkdfTypes /\ info_len \in 0..22 /\ call # "aborted"
<1>1. Init => HkdfInv /\ Safe
  BY HkdfStarts DEF Init, HkdfInit, HkdfInv
<1>2. (HkdfInv /\ Safe) /\ [Next]_vars => (HkdfInv /\ Safe)'
  <2> SUFFICES ASSUME HkdfInv, Safe, [Next]_vars PROVE (HkdfInv /\ Safe)'
    OBVIOUS
  <2>0. HkdfTypes /\ info_len \in 0..22 /\ call # "aborted"
    OBVIOUS
  <2>1. HkdfNext \/ UNCHANGED hkdfVars
    BY DEF Next, vars
  <2>2. HkdfInv'
    BY <2>1, HkdfStep, HkdfStutter
  <2>3. ASSUME NEW salt_len \in SaltLengths, hkdf_extract(salt_len)
        PROVE  info_len' \in 0..22 /\ call' # "aborted"
    <3>0. info_len' = info_len
      BY <2>3 DEF hkdf_extract
    <3>1. SaltHashed(salt_len) + 32 = 64
      BY <2>3 DEF SaltHashed
    <3>2. ~PaddingOverflows(SaltHashed(salt_len) + 32)
      BY <3>1, PaddingClosesTheBlock
    <3> QED
      BY <2>0, <2>3, <3>0, <3>2 DEF hkdf_extract
  <2>4. ~expand_aborts
    <3>1. Hashed \in 33..55 \/ Hashed \in 65..87
      BY <2>0 DEF Hashed, HashLen, HkdfTypes
    <3>2. Hashed \in Nat /\ Hashed % 64 < 56
      BY <3>1
    <3> QED
      <4>1. ~PaddingOverflows(Hashed)
        <5>1. \A count \in Nat : PaddingOverflows(count) <=> count % 64 >= 56
          BY PaddingClosesTheBlock
        <5> HIDE DEF Safe
        <5>2. PaddingOverflows(Hashed) <=> Hashed % 64 >= 56
          BY <3>2, <5>1
        <5> QED
          BY <3>2, <5>2
      <4> QED
        BY <4>1 DEF expand_aborts
  <2>5. info_len' \in 0..22 /\ call' # "aborted"
    <3>1. CASE UNCHANGED hkdfVars
      BY <2>0, <3>1 DEF hkdfVars
    <3>2. ASSUME NEW info \in InfoLengths, NEW wanted \in OkmLengths,
                 hkdf_expand(info, wanted)
          PROVE  info_len' \in 0..22 /\ call' # "aborted"
      BY <3>2 DEF hkdf_expand
    <3>3. CASE expand_block \/ expand_returns \/ keys_taken
      <4>1. call' \in {call, "expanded", "idle"} /\ info_len' \in {info_len, 0}
        BY <3>3 DEF expand_block, expand_returns, keys_taken
      <4> QED
        BY <4>1, <2>0
    <3> QED
      BY <2>1, <2>3, <2>4, <3>1, <3>2, <3>3 DEF HkdfNext
  <2> QED
    BY <2>2, <2>5 DEF HkdfInv
<1> QED
  BY <1>1, <1>2, PTL DEF Spec

-------------------------------------------------------------------------------
(* Sealing and opening *)

Stages == {"idle", "sealing", "sealed", "opening", "opened", "refused", "aborted"}

\* Passes of the loop over the whole text.
Passes == (sealed.length + BlockLen[cipher] - 1) \div BlockLen[cipher]

TextBlocks == SUBSET ((Nonces \cup {0}) \X [high : Nat, low : Nat])

AeadTypes ==
  /\ stage \in Stages /\ cipher \in Ciphers
  /\ nonce \in Nonces \cup {0} /\ offset \in Nat
  /\ block \in [high : Nat, low : Nat]
  /\ text \in Seq(TextBlocks)
  /\ sealed \in [nonce : Nonces \cup {0}, length : Nat, text : Seq(TextBlocks)]
  /\ sealed.length \div 4096 < UpperBytes - 1

\* As many blocks as passes, and all of the text when the loop ends.
LoopAtPass ==
  stage \in {"sealing", "opening"} =>
    IF offset < sealed.length
    THEN offset = BlockLen[cipher] * Len(text) /\ Len(text) < Passes
    ELSE Len(text) = Passes

\* The counter of AES-GCM is one ahead of the passes.  Opening it is so in its
\* three upper bytes.
CounterAhead ==
  cipher = "aes_gcm" =>
    /\ stage = "sealing" => block = Counter(Len(text) + 1)
    /\ stage = "opening" => block.high = Counter(Len(text) + 1).high

\* Block k of a text is XORed with block k of the key stream.
Sealing ==
  stage = "sealing" =>
    /\ nonce = sealed.nonce
    /\ \A k \in 1..Len(text) : text[k] = {<<nonce, Counter(k)>>}

Sealed ==
  stage \in {"sealed", "opening", "opened", "refused"} =>
    /\ Len(sealed.text) = Passes
    /\ \A k \in 1..Passes : sealed.text[k] = {<<sealed.nonce, Counter(k)>>}

Opening ==
  stage \in {"opening", "opened"} =>
    \A k \in 1..Len(text) :
      text[k] = XOR({<<sealed.nonce, Counter(k)>>}, {<<nonce, Counter(k)>>})

Verdict ==
  /\ stage = "opened" => nonce = sealed.nonce /\ offset >= sealed.length /\ Len(text) = Passes
  /\ stage = "refused" => nonce # sealed.nonce

AeadInv ==
  AeadTypes /\ LoopAtPass /\ CounterAhead /\ Sealing /\ Sealed /\ Opening /\ Verdict

LEMMA AeadStarts == AeadInit => AeadInv
<1> SUFFICES ASSUME AeadInit PROVE AeadInv
  OBVIOUS
<1>1. Nothing \in [nonce : Nonces \cup {0}, length : Nat, text : Seq(TextBlocks)]
      /\ sealed = Nothing /\ sealed.length = 0
  BY DEF Nothing, AeadInit
<1>2. AeadTypes
  BY <1>1, UpperBytesCount DEF AeadInit, AeadTypes, Stages, Ciphers
<1> QED
  BY <1>2 DEF AeadInit, AeadInv, LoopAtPass, CounterAhead, Sealing, Sealed, Opening, Verdict

\* A pass of the loop is at the block of its number, and there is a next number.
LEMMA StreamAtPass ==
  ASSUME AeadInv, AtBlock
  PROVE  /\ Len(text) \in Nat /\ Len(text) + 2 < 256 * UpperBytes
         /\ offset = BlockLen[cipher] * Len(text)
         /\ StreamBlock = <<nonce, Counter(Len(text) + 1)>>
         /\ cipher = "aes_gcm" =>
              NextBlock = gcm_inc32(Counter(Len(text) + 1))
<1> DEFINE k == Len(text)
<1>1. k \in Nat /\ stage \in {"sealing", "opening"} /\ offset < sealed.length
      /\ offset = BlockLen[cipher] * k
  BY DEF AeadInv, AeadTypes, AtBlock, LoopAtPass
<1>2. cipher \in {"aes_gcm", "chacha20_poly1305"}
      /\ (cipher = "aes_gcm" => offset = 16 * k)
      /\ (cipher = "chacha20_poly1305" => offset = 64 * k)
  BY <1>1 DEF BlockLen, AeadInv, AeadTypes, Ciphers
<1>3. 16 * k < 4096 * (UpperBytes - 1)
  <2>1. sealed.length \in Nat /\ sealed.length \div 4096 < UpperBytes - 1
    BY DEF AeadInv, AeadTypes
  <2>2. sealed.length < 4096 * (UpperBytes - 1)
    BY <2>1, UpperBytesCount
  <2>3. 16 * k <= offset /\ offset \in Nat
    BY <1>1, <1>2
  <2> QED
    BY <1>1, <2>1, <2>2, <2>3, UpperBytesCount
<1>4. k + 2 < 256 * UpperBytes
  BY <1>1, <1>3, UpperBytesCount
<1>5. CASE cipher = "chacha20_poly1305"
  <2>1. offset \div 64 = k
    BY <1>1, <1>2, <1>5
  <2>2. StreamBlock = ChaChaBlock
    BY <1>5 DEF StreamBlock
  <2>3. ChaChaBlock = <<nonce, Counter(k + 1)>>
    <3>1. 1 + offset \div 64 = k + 1
      BY <1>1, <2>1
    <3> QED
      BY <3>1 DEF ChaChaBlock
  <2> QED
    BY <1>1, <1>4, <1>5, <2>2, <2>3
<1>6. CASE cipher = "aes_gcm" /\ stage = "sealing"
  BY <1>1, <1>4, <1>6 DEF StreamBlock, NextBlock, AeadInv, CounterAhead
<1>7. CASE cipher = "aes_gcm" /\ stage = "opening"
  <2>1. offset \div 16 + 1 = k + 1
    BY <1>1, <1>2, <1>7
  <2>2. block \in [high : Nat, low : Nat] /\ block.high = Counter(k + 1).high
    BY <1>7 DEF AeadInv, AeadTypes, CounterAhead
  <2>3. LowByteSet = [high |-> block.high, low |-> (k + 1) % 256]
    BY <2>1, <2>2 DEF LowByteSet
  <2>4. LowByteSet = Counter(k + 1)
    BY <2>2, <2>3 DEF Counter
  <2>5. StreamBlock = <<nonce, LowByteSet>> /\ NextBlock = gcm_inc32(LowByteSet)
    BY <1>7 DEF StreamBlock, NextBlock
  <2> QED
    BY <1>1, <1>4, <2>4, <2>5
<1> QED
  BY <1>1, <1>2, <1>5, <1>6, <1>7

\* What a pass adds to the text.
LEMMA BlockAppended ==
  ASSUME AeadInv, xor_block
  PROVE  LET before == IF stage = "sealing" THEN {} ELSE sealed.text[Len(text) + 1]
         IN  /\ AtBlock
             /\ text' = Append(text, XOR(before, {<<nonce, Counter(Len(text) + 1)>>}))
             /\ text' \in Seq(TextBlocks)
<1> DEFINE k == Len(text)
           before == IF stage = "sealing" THEN {} ELSE sealed.text[k + 1]
           stream == <<nonce, Counter(k + 1)>>
<1>1. AtBlock /\ text' = Append(text, XOR(before, {StreamBlock}))
  BY DEF xor_block
<1>2. StreamBlock = stream
  BY <1>1, StreamAtPass
<1>3. nonce \in Nonces \cup {0} /\ k \in Nat /\ text \in Seq(TextBlocks)
  BY DEF AeadInv, AeadTypes
<1>4. Counter(k + 1) \in [high : Nat, low : Nat]
  <2>1. k + 1 \in Nat /\ k + 1 < 256 * UpperBytes
    BY <1>1, StreamAtPass, UpperBytesCount
  <2> QED
    BY <2>1, CounterBytes, UpperBytesCount
<1>5. before \in TextBlocks
  <2>1. CASE stage = "sealing"
    BY <2>1 DEF TextBlocks
  <2>2. CASE stage = "opening"
    <3>1. Len(sealed.text) = Passes /\ k < Passes /\ sealed.text \in Seq(TextBlocks)
      BY <1>1, <2>2 DEF AeadInv, AeadTypes, Sealed, LoopAtPass, AtBlock
    <3>2. k + 1 \in 1..Len(sealed.text)
      BY <1>3, <3>1
    <3> QED
      BY <2>2, <3>1, <3>2
  <2> QED
    BY <1>1, <2>1, <2>2 DEF AtBlock
<1>6. XOR(before, {stream}) \in TextBlocks
  <2>1. stream \in (Nonces \cup {0}) \X [high : Nat, low : Nat]
    BY <1>3, <1>4
  <2> HIDE DEF stream, before
  <2> QED
    BY <1>5, <2>1 DEF XOR, TextBlocks
<1> QED
  BY <1>1, <1>2, <1>3, <1>6

\* The number of passes that a text takes.
LEMMA PassesCounted ==
  ASSUME NEW length \in Nat, NEW k \in Nat, NEW size \in {16, 64}
  PROVE  /\ size * k < length => k < (length + size - 1) \div size
         /\ size * k >= length /\ (k > 0 => size * (k - 1) < length)
              => k = (length + size - 1) \div size
<1> DEFINE n == (length + size - 1) \div size
<1>1. CASE size = 16
  <2>1. n \in Nat /\ 16 * n <= length + 15 /\ length + 15 < 16 * n + 16
    BY <1>1
  <2> HIDE DEF n
  <2> QED
    BY <1>1, <2>1
<1>2. CASE size = 64
  <2>1. n \in Nat /\ 64 * n <= length + 63 /\ length + 63 < 64 * n + 64
    BY <1>2
  <2> HIDE DEF n
  <2> QED
    BY <1>2, <2>1
<1> QED
  BY <1>1, <1>2

LEMMA XorBlockStep ==
  ASSUME AeadInv, xor_block PROVE AeadInv'
<1> DEFINE k == Len(text)
           before == IF stage = "sealing" THEN {} ELSE sealed.text[k + 1]
           added == XOR(before, {<<nonce, Counter(k + 1)>>})
<1>1. /\ AtBlock /\ text' = Append(text, added) /\ text' \in Seq(TextBlocks)
  BY BlockAppended
<1>2. /\ stage' = stage /\ cipher' = cipher /\ nonce' = nonce /\ sealed' = sealed
      /\ block' = NextBlock /\ offset' = offset + Step
      /\ stage \in {"sealing", "opening"} /\ offset < sealed.length
  BY DEF xor_block, AtBlock
<1>3. /\ k \in Nat /\ k + 2 < 256 * UpperBytes /\ offset = BlockLen[cipher] * k
      /\ cipher = "aes_gcm" => NextBlock = gcm_inc32(Counter(k + 1))
  BY <1>1, StreamAtPass
<1>4. /\ cipher \in Ciphers /\ sealed.length \in Nat /\ text \in Seq(TextBlocks)
      /\ block \in [high : Nat, low : Nat]
  BY DEF AeadInv, AeadTypes
<1> HIDE DEF added
<1>5. /\ Len(text') = k + 1
      /\ \A i \in 1..(k + 1) : text'[i] = IF i <= k THEN text[i] ELSE added
  BY <1>1, <1>3, <1>4, AppendProperties
<1>6. Passes' = Passes
  BY <1>2 DEF Passes
<1>7. cipher = "aes_gcm" => block' = Counter(k + 2)
  <2>1. k + 1 \in Nat /\ (k + 1) + 1 = k + 2
    BY <1>3
  <2>2. gcm_inc32(Counter(k + 1)) = Counter(k + 2)
    BY <1>3, <2>1, IncrementCounts
  <2> QED
    BY <1>2, <1>3, <2>2
<1>8. block' \in [high : Nat, low : Nat]
  <2>1. CASE cipher = "aes_gcm"
    <3>1. k + 2 \in Nat
      BY <1>3
    <3> QED
      BY <1>3, <1>7, <2>1, <3>1, CounterBytes, UpperBytesCount
  <2>2. CASE cipher # "aes_gcm"
    <3>1. cipher = "chacha20_poly1305"
      BY <1>4, <2>2 DEF Ciphers
    <3> QED
      BY <1>2, <1>4, <3>1 DEF NextBlock
  <2> QED
    BY <2>1, <2>2
<1>9. LoopAtPass' /\ offset' \in Nat
  <2>1. ASSUME NEW size \in {16, 64}, BlockLen[cipher] = size,
               Step = size \/ (sealed.length - offset < size /\ Step = sealed.length - offset)
        PROVE  LoopAtPass' /\ offset' \in Nat
    <3>1. offset = size * k /\ offset < sealed.length
      BY <1>2, <1>3, <2>1
    <3>2. offset \in Nat /\ offset' \in Nat
      BY <1>2, <1>3, <1>4, <2>1, <3>1
    <3>3. offset' < sealed.length => offset' = size * (k + 1)
      BY <1>2, <1>3, <1>4, <2>1, <3>1, <3>2
    <3>4. offset' >= sealed.length => size * (k + 1) >= sealed.length
      BY <1>2, <1>3, <1>4, <2>1, <3>1, <3>2
    <3>5. Passes = (sealed.length + size - 1) \div size
      BY <2>1 DEF Passes
    <3>6. offset' < sealed.length => k + 1 < Passes
      BY <1>3, <1>4, <3>3, <3>5, PassesCounted
    <3>7. offset' >= sealed.length => k + 1 = Passes
      <4>1. k + 1 \in Nat /\ (k + 1) - 1 = k /\ size * k < sealed.length
        BY <1>3, <3>1
      <4> QED
        BY <1>4, <3>4, <3>5, <4>1, PassesCounted
    <3> QED
      BY <1>2, <1>4, <1>5, <1>6, <2>1, <3>2, <3>3, <3>6, <3>7 DEF LoopAtPass
  <2>2. CASE cipher = "aes_gcm"
    BY <2>1, <2>2 DEF BlockLen, Step
  <2>3. CASE cipher = "chacha20_poly1305"
    BY <2>1, <2>3 DEF BlockLen, Step, Pass
  <2> QED
    BY <1>4, <2>2, <2>3 DEF Ciphers
<1>10. AeadTypes'
  BY <1>1, <1>2, <1>8, <1>9 DEF AeadInv, AeadTypes
<1>11. CounterAhead'
  BY <1>2, <1>3, <1>5, <1>7 DEF CounterAhead
<1>12. Sealing'
  <2>1. ASSUME stage = "sealing"
        PROVE  nonce = sealed.nonce /\ \A i \in 1..(k + 1) : text'[i] = {<<nonce, Counter(i)>>}
    <3>1. nonce = sealed.nonce /\ \A i \in 1..k : text[i] = {<<nonce, Counter(i)>>}
      BY <2>1 DEF AeadInv, Sealing
    <3>2. added = {<<nonce, Counter(k + 1)>>}
      BY <2>1 DEF added, XOR
    <3> QED
      BY <1>3, <1>5, <3>1, <3>2
  <2> QED
    BY <1>2, <1>5, <2>1 DEF Sealing
<1>13. Sealed'
  BY <1>2, <1>6 DEF AeadInv, Sealed
<1>14. Opening'
  <2>1. ASSUME stage = "opening"
        PROVE  \A i \in 1..(k + 1) :
                 text'[i] = XOR({<<sealed.nonce, Counter(i)>>}, {<<nonce, Counter(i)>>})
    <3>1. \A i \in 1..k :
            text[i] = XOR({<<sealed.nonce, Counter(i)>>}, {<<nonce, Counter(i)>>})
      BY <2>1 DEF AeadInv, Opening
    <3>2. sealed.text[k + 1] = {<<sealed.nonce, Counter(k + 1)>>}
      <4>1. k < Passes
        BY <1>2, <2>1 DEF AeadInv, LoopAtPass
      <4>2. Passes \in Nat
        BY <2>1 DEF AeadInv, AeadTypes, Sealed
      <4>3. k + 1 \in 1..Passes
        BY <1>3, <4>1, <4>2
      <4> QED
        BY <2>1, <4>3 DEF AeadInv, Sealed
    <3>3. added = XOR({<<sealed.nonce, Counter(k + 1)>>}, {<<nonce, Counter(k + 1)>>})
      BY <2>1, <3>2 DEF added
    <3>4. ASSUME NEW i \in 1..(k + 1)
          PROVE  text'[i] = XOR({<<sealed.nonce, Counter(i)>>}, {<<nonce, Counter(i)>>})
      <4>1. CASE i = k + 1
        <5>1. ~(i <= k) /\ text'[i] = added
          BY <1>3, <1>5, <4>1
        <5> QED
          BY <3>3, <4>1, <5>1
      <4>2. CASE i # k + 1
        <5>1. i \in 1..k /\ text'[i] = text[i]
          BY <1>3, <1>5, <4>2
        <5> QED
          BY <3>1, <5>1
      <4> QED
        BY <4>1, <4>2
    <3> QED
      BY <3>4
  <2> QED
    BY <1>2, <1>5, <2>1 DEF Opening
<1>15. Verdict'
  BY <1>2 DEF Verdict
<1> QED
  BY <1>9, <1>10, <1>11, <1>12, <1>13, <1>14, <1>15 DEF AeadInv

LEMMA EncryptStep ==
  ASSUME AeadInv, NEW c \in Ciphers, NEW n \in Nonces, NEW length \in Lengths,
         encrypt(c, n, length)
  PROVE  AeadInv'
<1>1. /\ stage' = "sealing" /\ cipher' = c /\ nonce' = n /\ offset' = 0
      /\ block' = Counter(1) /\ text' = <<>>
      /\ sealed' = [nonce |-> n, length |-> length, text |-> <<>>]
  BY DEF encrypt
<1>2. length \in Nat /\ length \div 4096 < UpperBytes - 1
  BY AeadAssumption
<1>3. Counter(1) \in [high : Nat, low : Nat]
  BY CounterBytes, UpperBytesCount
<1>4. AeadTypes'
  <2>1. sealed' \in [nonce : Nonces \cup {0}, length : Nat, text : Seq(TextBlocks)]
        /\ sealed'.length = length
    BY <1>1, <1>2
  <2> QED
    BY <1>1, <1>2, <1>3, <2>1 DEF AeadTypes, Stages
<1>5. LoopAtPass'
  <2>1. Passes' = (length + BlockLen[c] - 1) \div BlockLen[c] /\ Len(text') = 0
        /\ sealed'.length = length
    BY <1>1 DEF Passes
  <2>2. BlockLen[c] \in {16, 64}
    BY DEF BlockLen, Ciphers
  <2>3. offset' < sealed'.length => 0 < Passes'
    <3>1. BlockLen[c] * 0 = 0
      BY <2>2
    <3> QED
      BY <1>1, <1>2, <2>1, <2>2, <3>1, PassesCounted
  <2>4. ~(offset' < sealed'.length) => 0 = Passes'
    <3>1. BlockLen[c] * 0 = 0
      BY <2>2
    <3> QED
      BY <1>1, <1>2, <2>1, <2>2, <3>1, PassesCounted
  <2>5. offset' < sealed'.length => offset' = BlockLen[c] * Len(text')
    BY <1>1, <2>1, <2>2
  <2> QED
    BY <1>1, <2>1, <2>3, <2>4, <2>5 DEF LoopAtPass
<1>6. Sealing'
  BY <1>1 DEF Sealing
<1>7. CounterAhead'
  BY <1>1 DEF CounterAhead
<1> QED
  BY <1>1, <1>4, <1>5, <1>6, <1>7 DEF AeadInv, Sealed, Opening, Verdict

LEMMA EncryptReturnsStep ==
  ASSUME AeadInv, encrypt_returns PROVE AeadInv'
<1>1. /\ stage = "sealing" /\ ~(offset < sealed.length) /\ stage' = "sealed"
      /\ sealed' = [sealed EXCEPT !.text = text]
      /\ UNCHANGED <<cipher, nonce, offset, block, text>>
  <2>1. offset \in Nat /\ sealed.length \in Nat
    BY DEF AeadInv, AeadTypes
  <2> QED
    BY <2>1 DEF encrypt_returns
<1>2. /\ sealed' \in [nonce : Nonces \cup {0}, length : Nat, text : Seq(TextBlocks)]
      /\ sealed'.text = text /\ sealed'.length = sealed.length /\ sealed'.nonce = sealed.nonce
  BY <1>1 DEF AeadInv, AeadTypes
<1>3. AeadTypes'
  BY <1>1, <1>2 DEF AeadInv, AeadTypes, Stages
<1>4. Sealed'
  <2>1. Len(text) = Passes /\ Passes' = Passes
    BY <1>1, <1>2 DEF AeadInv, LoopAtPass, Passes
  <2>2. \A k \in 1..Len(text) : text[k] = {<<sealed.nonce, Counter(k)>>}
    BY <1>1 DEF AeadInv, Sealing
  <2> QED
    BY <1>1, <1>2, <2>1, <2>2 DEF Sealed
<1> QED
  BY <1>1, <1>3, <1>4 DEF AeadInv, LoopAtPass, CounterAhead, Sealing, Opening, Verdict

LEMMA DecryptStep ==
  ASSUME AeadInv, NEW n \in Nonces, decrypt(n) PROVE AeadInv'
<1>1. /\ stage = "sealed" /\ stage' \in {"opening", "refused"}
      /\ nonce' = n /\ offset' = 0 /\ block' = [high |-> 0, low |-> 0] /\ text' = <<>>
      /\ cipher' = cipher /\ sealed' = sealed
      /\ stage' = "refused" => ~TagAgrees(n)
  BY DEF decrypt
<1>2. cipher \in Ciphers /\ sealed.length \in Nat
  BY DEF AeadInv, AeadTypes
<1>3. AeadTypes'
  <2>1. block' \in [high : Nat, low : Nat]
    BY <1>1
  <2> QED
    BY <1>1, <2>1 DEF AeadInv, AeadTypes, Stages
<1>4. LoopAtPass'
  <2>1. BlockLen[cipher] \in {16, 64} /\ Len(text') = 0 /\ Passes' = Passes
    BY <1>1, <1>2 DEF BlockLen, Ciphers, Passes
  <2>2. BlockLen[cipher] * 0 = 0
    BY <2>1
  <2>3. offset' < sealed'.length => 0 < Passes'
    BY <1>1, <1>2, <2>1, <2>2, PassesCounted DEF Passes
  <2>4. ~(offset' < sealed'.length) => 0 = Passes'
    BY <1>1, <1>2, <2>1, <2>2, PassesCounted DEF Passes
  <2> QED
    BY <1>1, <2>1, <2>2, <2>3, <2>4 DEF LoopAtPass
<1>5. CounterAhead'
  <2>1. Counter(1).high = 0
    BY UpperBytesCount DEF Counter
  <2> QED
    BY <1>1, <2>1 DEF CounterAhead
<1>6. Sealed'
  BY <1>1 DEF AeadInv, Sealed, Passes
<1>7. Verdict'
  BY <1>1 DEF Verdict, TagAgrees
<1> QED
  BY <1>1, <1>3, <1>4, <1>5, <1>6, <1>7 DEF AeadInv, Sealing, Opening

LEMMA DecryptReturnsStep ==
  ASSUME AeadInv, decrypt_returns PROVE AeadInv'
<1>1. /\ stage = "opening" /\ offset >= sealed.length /\ ~(offset < sealed.length)
      /\ stage' = IF TagAgrees(nonce) THEN "opened" ELSE "refused"
      /\ UNCHANGED <<cipher, nonce, offset, block, text, sealed>>
  <2>1. offset \in Nat /\ sealed.length \in Nat
    BY DEF AeadInv, AeadTypes
  <2> QED
    BY <2>1 DEF decrypt_returns
<1>2. TagAgrees(nonce) <=> nonce = sealed.nonce
  BY DEF TagAgrees, TagBlock
<1>3. Len(text) = Passes /\ Passes' = Passes
  BY <1>1 DEF AeadInv, LoopAtPass, Passes
<1>4. Verdict'
  BY <1>1, <1>2, <1>3 DEF Verdict
<1>5. Sealed' /\ Opening'
  BY <1>1, <1>3 DEF AeadInv, Sealed, Opening
<1>6. AeadTypes'
  BY <1>1 DEF AeadInv, AeadTypes, Stages
<1> QED
  BY <1>1, <1>4, <1>5, <1>6 DEF AeadInv, LoopAtPass, CounterAhead, Sealing

LEMMA AeadStep ==
  ASSUME AeadInv, AeadNext PROVE AeadInv'
<1>1. CASE poly1305_aborts
  BY <1>1 DEF poly1305_aborts, AeadInv, AeadTypes, Stages, LoopAtPass, CounterAhead,
              Sealing, Sealed, Opening, Verdict
<1>2. CASE text_taken
  <2>1. AeadInit'
    BY <1>2 DEF text_taken, AeadInit
  <2>2. Nothing \in [nonce : Nonces \cup {0}, length : Nat, text : Seq(TextBlocks)]
        /\ sealed' = Nothing /\ sealed'.length = 0
    BY <2>1 DEF Nothing, AeadInit
  <2>3. AeadTypes'
    BY <2>1, <2>2, UpperBytesCount DEF AeadInit, AeadTypes, Stages, Ciphers
  <2> QED
    BY <2>1, <2>3 DEF AeadInit, AeadInv, LoopAtPass, CounterAhead, Sealing, Sealed,
                      Opening, Verdict
<1> QED
  BY <1>1, <1>2, EncryptStep, XorBlockStep, EncryptReturnsStep, DecryptStep,
     DecryptReturnsStep DEF AeadNext

LEMMA AeadStutter ==
  ASSUME AeadInv, UNCHANGED aeadVars PROVE AeadInv'
<1>1. UNCHANGED <<stage, cipher, nonce, offset, block, text, sealed>> /\ Passes' = Passes
  BY DEF aeadVars, Passes
<1>2. AeadTypes' /\ LoopAtPass' /\ CounterAhead'
  BY <1>1 DEF AeadInv, AeadTypes, LoopAtPass, CounterAhead
<1>3. Sealing' /\ Sealed'
  BY <1>1 DEF AeadInv, Sealing, Sealed
<1>4. Opening' /\ Verdict'
  BY <1>1 DEF AeadInv, Opening, Verdict
<1> QED
  BY <1>2, <1>3, <1>4 DEF AeadInv

LEMMA AeadInductive == AeadInv /\ [Next]_vars => AeadInv'
<1> SUFFICES ASSUME AeadInv, [Next]_vars PROVE AeadInv'
  OBVIOUS
<1>1. AeadNext \/ UNCHANGED aeadVars
  BY DEF Next, vars
<1> QED
  BY <1>1, AeadStep, AeadStutter

\* OpensWhatWasSealed, for all texts shorter than the counter's round.
THEOREM SealedTextsOpen == Spec => []OpensWhatWasSealed
<1>1. Init => AeadInv
  BY AeadStarts DEF Init
<1>2. AeadInv => OpensWhatWasSealed
  <2> SUFFICES ASSUME AeadInv PROVE OpensWhatWasSealed
    OBVIOUS
  <2>1. ASSUME stage = "opened"
        PROVE  /\ nonce = sealed.nonce
               /\ offset >= sealed.length /\ Len(text) = Len(sealed.text)
               /\ \A k \in 1..Len(text) : text[k] = {}
    <3>1. nonce = sealed.nonce /\ offset >= sealed.length /\ Len(text) = Passes
          /\ Len(sealed.text) = Passes
      BY <2>1 DEF AeadInv, Verdict, Sealed
    <3>2. \A k \in 1..Len(text) :
            text[k] = XOR({<<nonce, Counter(k)>>}, {<<nonce, Counter(k)>>})
      BY <2>1, <3>1 DEF AeadInv, Opening
    <3> QED
      BY <3>1, <3>2 DEF XOR
  <2> QED
    BY <2>1 DEF OpensWhatWasSealed, AeadInv, Verdict
<1> QED
  BY <1>1, <1>2, AeadInductive, PTL DEF Spec

LEMMA PairsDiffer ==
  ASSUME NEW n, NEW a, NEW b, a # b PROVE {<<n, a>>} # {<<n, b>>}
<1>1. <<n, a>> # <<n, b>>
  OBVIOUS
<1>2. \A x, y : {x} = {y} => x = y
  OBVIOUS
<1> QED
  BY <1>1, <1>2

\* StreamNeverRepeats, for all of them.
THEOREM KeyStreamNeverRepeats == Spec => StreamNeverRepeats
<1>1. Init => AeadInv
  BY AeadStarts DEF Init
<1>2. AeadInv /\ [Next]_vars =>
        [stage = "sealing" /\ text' # text => ~StreamRepeats(text'[Len(text')])]_vars
  <2> SUFFICES ASSUME AeadInv, Next, stage = "sealing", text' # text
               PROVE  ~StreamRepeats(text'[Len(text')])
    BY DEF vars
  <2> DEFINE k == Len(text)
  <2>1. xor_block
    BY DEF Next, AeadNext, aeadVars, hkdfVars, encrypt, encrypt_returns, decrypt,
           decrypt_returns, poly1305_aborts, text_taken
  <2>2. AtBlock /\ text' = Append(text, XOR({}, {<<nonce, Counter(k + 1)>>}))
    BY <2>1, BlockAppended
  <2>3. k \in Nat /\ k + 2 < 256 * UpperBytes /\ text \in Seq(TextBlocks)
    BY <2>2, StreamAtPass DEF AeadInv, AeadTypes
  <2>4. text'[Len(text')] = {<<nonce, Counter(k + 1)>>}
    <3>1. XOR({}, {<<nonce, Counter(k + 1)>>}) = {<<nonce, Counter(k + 1)>>}
      BY DEF XOR
    <3> HIDE DEF k
    <3>2. text' = Append(text, {<<nonce, Counter(k + 1)>>})
      BY <2>2, <3>1
    <3>3. Len(text') = Len(text) + 1 /\ text'[Len(text) + 1] = {<<nonce, Counter(k + 1)>>}
      BY <2>3, <3>2
    <3> QED
      BY <3>3
  <2> DEFINE stream == {<<nonce, Counter(k + 1)>>}
  <2>5. stream # {TagBlock(nonce)}
    <3>1. k + 1 \in Nat /\ k + 1 < 256 * UpperBytes /\ 0 < 256 * UpperBytes /\ k + 1 # 0
      BY <2>3, UpperBytesCount
    <3>2. Counter(k + 1) # Counter(0)
      BY <3>1, CountersDiffer
    <3> QED
      BY <3>2, PairsDiffer DEF TagBlock
  <2>6. ASSUME NEW i \in 1..k PROVE text[i] # stream
    <3>1. text[i] = {<<nonce, Counter(i)>>}
      BY <2>6 DEF AeadInv, Sealing
    <3>2. i \in Nat /\ i # k + 1 /\ i < 256 * UpperBytes /\ k + 1 \in Nat
          /\ k + 1 < 256 * UpperBytes
      BY <2>3, UpperBytesCount
    <3>3. Counter(i) # Counter(k + 1)
      BY <3>2, CountersDiffer
    <3> QED
      BY <3>1, <3>3, PairsDiffer
  <2> HIDE DEF stream
  <2>7. text'[Len(text')] = stream
    BY <2>4 DEF stream
  <2>8. ~StreamRepeats(stream)
    BY <2>5, <2>6 DEF StreamRepeats
  <2> QED
    BY <2>7, <2>8
<1> QED
  BY <1>1, <1>2, AeadInductive, PTL DEF Spec, StreamNeverRepeats

===============================================================================

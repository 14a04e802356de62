--------------------------------- MODULE Aead ---------------------------------
(***************************************************************************)
(* crypto/source/aes_gcm.c and chacha20.c: one text is sealed and what     *)
(* comes out is opened, under one key, a block of key stream a step.  A    *)
(* block of key stream is known by its nonce and counter; a block of text  *)
(* is the set of key stream blocks that are XORed onto the plaintext, so   *)
(* that {} is the plaintext itself.  No additional data: record.c has none.*)
(***************************************************************************)
EXTENDS Integers, Sequences

CONSTANTS
  Nonces,    \* the nonces record.c builds
  Lengths    \* of plaintexts, in bytes

UpperBytes == 16777216   \* values of the three upper bytes of a counter

\* A text is shorter than the 2^36 bytes after which AES-GCM's counter is back
\* at its start, by a last round of the lowest byte.
ASSUME AeadAssumption ==
  Lengths \subseteq Nat /\ \A n \in Lengths : n \div 4096 < UpperBytes - 1

Ciphers == {"aes_gcm", "chacha20_poly1305"}
BlockLen == [aes_gcm |-> 16, chacha20_poly1305 |-> 64]

VARIABLES
  stage,    \* "idle", "sealing", "sealed", "opening", "opened", "refused" or "aborted"
  cipher,   \* the functions used for this text
  nonce,    \* of the call
  offset,   \* bytes the loop is past
  block,    \* the counter of AES-GCM: bytes 12 to 14, and byte 15
  text,     \* ciphertext while sealing, plaintext while opening
  sealed    \* what came out of sealing

aeadVars == <<stage, cipher, nonce, offset, block, text, sealed>>

Nothing == [nonce |-> 0, length |-> 0, text |-> <<>>]

AeadInit ==
  /\ stage = "idle" /\ cipher = "aes_gcm" /\ nonce = 0 /\ offset = 0
  /\ block = [high |-> 0, low |-> 0] /\ text = <<>> /\ sealed = Nothing

-------------------------------------------------------------------------------
(* Counters of 32 bits *)

Counter(n) == [high |-> (n \div 256) % UpperBytes, low |-> n % 256]

no_carry(c) == [c EXCEPT !.low = (@ + 1) % 256]   \* variant: one byte counts

gcm_inc32(c) ==
  [high |-> (c.high + (c.low + 1) \div 256) % UpperBytes, low |-> (c.low + 1) % 256]

\* The block of the tag: auth_key (aes_gcm.c:79-82), poly_key (chacha20.c:144-145).
TagBlock(n) == <<n, Counter(0)>>

\* The counter at the head of the loop of aes_gcm_decrypt (lines 103-104).
low_byte_lags == [block EXCEPT !.low = (offset \div 16) % 256]   \* variant

LowByteSet == [block EXCEPT !.low = (offset \div 16 + 1) % 256]

ChaChaBlock == <<nonce, Counter(1 + offset \div 64)>>

\* What the pass at offset XORs its block with, and the counter it leaves.
StreamBlock ==
  IF cipher = "chacha20_poly1305" THEN ChaChaBlock
  ELSE <<nonce, IF stage = "sealing" THEN block ELSE LowByteSet>>

NextBlock ==
  IF cipher = "chacha20_poly1305" THEN block
  ELSE gcm_inc32(IF stage = "sealing" THEN block ELSE LowByteSet)

XOR(a, b) == (a \cup b) \ (a \cap b)

-------------------------------------------------------------------------------
(* Sealing *)

\* aes_gcm_encrypt (lines 39-47), chacha20_poly1305_encrypt (lines 144-146).
encrypt(c, n, length) ==
  /\ stage = "idle"
  /\ stage' = "sealing" /\ cipher' = c /\ nonce' = n
  /\ offset' = 0 /\ block' = Counter(1) /\ text' = <<>>
  /\ sealed' = [nonce |-> n, length |-> length, text |-> <<>>]

Pass == IF sealed.length - offset < BlockLen[cipher]
        THEN sealed.length - offset ELSE BlockLen[cipher]

AtBlock == stage \in {"sealing", "opening"} /\ offset < sealed.length

\* A pass of the loops of lines 49-56 and 102-111, or of chacha20_xor.
Step == IF cipher = "aes_gcm" THEN 16 ELSE Pass

xor_block ==
  /\ AtBlock
  /\ LET before == IF stage = "sealing" THEN {} ELSE sealed.text[Len(text) + 1]
     IN  text' = Append(text, XOR(before, {StreamBlock}))
  /\ block' = NextBlock
  /\ offset' = offset + Step
  /\ UNCHANGED <<stage, cipher, nonce, sealed>>

\* The tag is a function of key, nonce, ciphertext and its length, and is kept
\* with the ciphertext.
encrypt_returns ==
  /\ stage = "sealing" /\ offset >= sealed.length
  /\ stage' = "sealed"
  /\ sealed' = [sealed EXCEPT !.text = text]
  /\ UNCHANGED <<cipher, nonce, offset, block, text>>

-------------------------------------------------------------------------------
(* Opening *)

\* The tag computed over what was sealed with nonce is the tag sealing made.
TagAgrees(n) == TagBlock(n) = TagBlock(sealed.nonce)

\* aes_gcm_decrypt writes the text first and looks at the tag last (line 143);
\* chacha20_poly1305_decrypt looks at the tag first (line 213).
decrypt(n) ==
  /\ stage = "sealed"
  /\ stage' = IF cipher = "aes_gcm" \/ TagAgrees(n) THEN "opening" ELSE "refused"
  /\ nonce' = n /\ offset' = 0 /\ block' = [high |-> 0, low |-> 0] /\ text' = <<>>
  /\ UNCHANGED <<cipher, sealed>>

decrypt_returns ==
  /\ stage = "opening" /\ offset >= sealed.length
  /\ stage' = IF TagAgrees(nonce) THEN "opened" ELSE "refused"
  /\ UNCHANGED <<cipher, nonce, offset, block, text, sealed>>

\* chacha20_block writes 64 bytes to the 32 of poly_key (chacha20.c:144-145,
\* 182-184), poly1305_mac one behind its block (line 120): a build may stop for
\* either.  If it runs on, both ends run the same code on the same input.
poly1305_aborts ==
  /\ cipher = "chacha20_poly1305"
  /\ stage \in {"sealing", "sealed", "opening"}
  /\ stage' = "aborted"
  /\ UNCHANGED <<cipher, nonce, offset, block, text, sealed>>

\* The caller is done with this text.
text_taken ==
  /\ stage \in {"opened", "refused"}
  /\ stage' = "idle" /\ cipher' = "aes_gcm" /\ nonce' = 0 /\ offset' = 0
  /\ block' = [high |-> 0, low |-> 0] /\ text' = <<>> /\ sealed' = Nothing

AeadNext ==
  \/ \E c \in Ciphers, n \in Nonces, length \in Lengths : encrypt(c, n, length)
  \/ xor_block
  \/ encrypt_returns
  \/ \E n \in Nonces : decrypt(n)
  \/ decrypt_returns
  \/ poly1305_aborts
  \/ text_taken

===============================================================================

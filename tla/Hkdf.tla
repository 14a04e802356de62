--------------------------------- MODULE Hkdf ---------------------------------
(***************************************************************************)
(* crypto/source/hkdf.c as the handshake uses it: extract a key from a     *)
(* salt and a secret, expand it one hash at a time, copy the result out.   *)
(* A digest is the record of what was hashed, a byte of it its place.      *)
(***************************************************************************)
EXTENDS Sha256, Sequences

CONSTANTS
  SaltLengths, InfoLengths, OkmLengths   \* what callers may ask for

ASSUME HkdfAssumption ==
  SaltLengths \subseteq Nat /\ InfoLengths \subseteq Nat /\ OkmLengths \subseteq Nat

HashLen == 32

VARIABLES
  call,       \* "idle", "extracted", "expanding", "expanded" or "aborted"
  prk,        \* length of the salt prk was made with
  info_len, okm_len,
  generated,  \* bytes of okm written
  counter,    \* the byte counter
  previous,   \* counter of the digest kept from the last pass, 0 for garbage
  okm         \* the bytes written: <<digest, place>>

hkdfVars == <<call, prk, info_len, okm_len, generated, counter, previous, okm>>

HkdfInit ==
  /\ call = "idle" /\ prk = 0 /\ info_len = 0 /\ okm_len = 0
  /\ generated = 0 /\ counter = 1 /\ previous = 0 /\ okm = <<>>

\* Without a salt 32 zeros are hashed (lines 14-18).  The secret has 32 bytes.
SaltHashed(salt_len) == IF salt_len = 0 THEN 32 ELSE salt_len

hkdf_extract(salt_len) ==
  /\ call = "idle"
  /\ prk' = SaltHashed(salt_len)
  /\ \/ call' = "extracted"
     \/ PaddingOverflows(SaltHashed(salt_len) + 32) /\ call' = "aborted"
  /\ UNCHANGED <<info_len, okm_len, generated, counter, previous, okm>>

hkdf_expand(info, wanted) ==
  /\ call = "extracted"
  /\ info_len' = info /\ okm_len' = wanted
  /\ generated' = 0 /\ counter' = 1 /\ previous' = 0 /\ okm' = <<>>
  /\ call' = "expanding"
  /\ UNCHANGED prk

\* Bytes hashed by a pass (lines 40-51).
Hashed == HashLen + (IF generated > 0 THEN HashLen ELSE 0) + info_len + 1

Digest ==
  [prk |-> prk, previous |-> IF generated > 0 THEN previous ELSE 0, counter |-> counter]

ToCopy == IF okm_len - generated < HashLen THEN okm_len - generated ELSE HashLen

previous_kept == previous        \* variant: the first digest stays in previous
NextPrevious  == counter

\* One pass of the loop.
expand_block ==
  /\ call = "expanding" /\ generated < okm_len
  /\ okm' = okm \o [j \in 1..ToCopy |-> <<Digest, j>>]
  /\ previous' = NextPrevious
  /\ generated' = generated + ToCopy
  /\ counter' = (counter + 1) % 256
  /\ UNCHANGED <<call, prk, info_len, okm_len>>

\* The padding of a pass does not fit and the build notices.
expand_aborts ==
  /\ call = "expanding" /\ generated < okm_len
  /\ PaddingOverflows(Hashed)
  /\ call' = "aborted"
  /\ UNCHANGED <<prk, info_len, okm_len, generated, counter, previous, okm>>

expand_returns ==
  /\ call = "expanding" /\ generated >= okm_len
  /\ call' = "expanded"
  /\ UNCHANGED <<prk, info_len, okm_len, generated, counter, previous, okm>>

\* The caller copies its keys out of the array and leaves its scope.
keys_taken ==
  /\ call = "expanded"
  /\ call' = "idle" /\ prk' = 0 /\ info_len' = 0 /\ okm_len' = 0
  /\ generated' = 0 /\ counter' = 1 /\ previous' = 0 /\ okm' = <<>>

HkdfNext ==
  \/ \E salt_len \in SaltLengths : hkdf_extract(salt_len)
  \/ \E info \in InfoLengths, wanted \in OkmLengths : hkdf_expand(info, wanted)
  \/ expand_block \/ expand_aborts \/ expand_returns
  \/ keys_taken

===============================================================================

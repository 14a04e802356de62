-------------------------------- MODULE Sha256 --------------------------------
(***************************************************************************)
(* crypto/source/sha256.c as its callers can tell it apart: how many bytes *)
(* sha256_final adds to how many that were hashed.  The compression        *)
(* function is numeric; a digest is a term in the modules that use this.   *)
(***************************************************************************)
EXTENDS Integers

\* Bytes of padding behind count bytes: 0x80, zeros, and eight bytes of length.
pad_len(count) ==
  LET rest == 64 - (count % 64) IN IF rest < 9 THEN rest + 64 ELSE rest

\* Calls of sha256_transform for count bytes and their padding.
Transforms(count) == (count + pad_len(count)) \div 64

\* The padding is put together in an array of 64 bytes.  A fortified build
\* stops when it is longer, another one may run on.
PaddingOverflows(count) == pad_len(count) > 64

===============================================================================

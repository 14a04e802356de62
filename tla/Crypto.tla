-------------------------------- MODULE Crypto --------------------------------
(***************************************************************************)
(* The primitives as one thread of core/ uses them: a key is derived and   *)
(* taken, later a text is sealed and opened; never both at once.           *)
(***************************************************************************)
EXTENDS Aead, Hkdf

vars == <<aeadVars, hkdfVars>>

Init == AeadInit /\ HkdfInit

Next ==
  \/ stage = "idle" /\ HkdfNext /\ UNCHANGED aeadVars
  \/ call = "idle" /\ AeadNext /\ UNCHANGED hkdfVars

Spec == Init /\ [][Next]_vars

(***************************************************************************)
(* What is opened is what was sealed, all of it, and that with the nonce   *)
(* of sealing and no other.  aes_gcm_encrypt counts its blocks in one      *)
(* variable; aes_gcm_decrypt sets the lowest byte of the counter for every *)
(* block and has the three others from the increment of the block before   *)
(* (aes_gcm.c:46-55, 102-110; chacha20.c:50-58).  RecordLayer's Opens      *)
(* stands on this.                                                         *)
(***************************************************************************)
OpensWhatWasSealed ==
  /\ stage = "opened" =>
       /\ nonce = sealed.nonce
       /\ offset >= sealed.length /\ Len(text) = Len(sealed.text)
       /\ \A k \in 1..Len(text) : text[k] = {}
  /\ stage = "refused" => nonce # sealed.nonce

(***************************************************************************)
(* No step of sealing XORs a block of key stream onto the text that is     *)
(* already on another block of it, or that the tag is masked with or made  *)
(* from: the counter starts behind the tag's and no carry is lost          *)
(* (aes_gcm.c:27-34, 47, 81; chacha20.c:51, 145-146).                      *)
(***************************************************************************)
StreamRepeats(stream) ==
  \/ stream = {TagBlock(nonce)}
  \/ \E k \in 1..Len(text) : text[k] = stream

StreamNeverRepeats ==
  [][stage = "sealing" /\ text' # text => ~StreamRepeats(text'[Len(text')])]_vars

(***************************************************************************)
(* The derived bytes are those of RFC 5869: byte i is one of the digest of *)
(* the key, the digest before (none for the first), info and the number of *)
(* the digest; when the call returns there are exactly as many as were     *)
(* asked for (hkdf.c:39-60).  Beyond 255 digests the byte counter starts   *)
(* over and the RFC has nothing to say.                                    *)
(***************************************************************************)
T(k) == [prk |-> prk, previous |-> k - 1, counter |-> k]

OkmFollowsRfc5869 ==
  call \in {"expanding", "expanded"} =>
    /\ Len(okm) = generated
    /\ call = "expanded" => generated = okm_len
    /\ \A i \in 1..generated :
         i <= 255 * HashLen => okm[i] = <<T((i - 1) \div HashLen + 1), ((i - 1) % HashLen) + 1>>

===============================================================================

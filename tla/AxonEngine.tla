------------------------------ MODULE AxonEngine ------------------------------
(***************************************************************************)
(* The server engine of core/source/main.c with the context, handshake and *)
(* record functions it calls.  One engine serves handshake calls one after *)
(* another; a call is the sequence of steps axon_engine_handshake makes,   *)
(* and pc says which step comes next.  A call that ends leaves its result  *)
(* in last.                                                                *)
(*                                                                         *)
(* Byte arrays are tokens.  Call number n uses the client random n, the    *)
(* client share n and the server random n; 0 is an array of zeros.  The    *)
(* shared secret of share n is n (X25519 of the zero point is zero), a     *)
(* derived key is the triple of its inputs.  The transcript keeps, for     *)
(* every message copied into handshake_buffer, its type, call and length.  *)
(***************************************************************************)
EXTENDS AxonState, ClientHello, Sha256

CONSTANTS
  Records,     \* what a peer may put on the wire
  BehindSet,   \* what the heap may hold behind a fragment
  BufferSize,  \* sizeof(handshake_buffer)
  Embedder,    \* whether the application checks the client's Finished itself
  MaxCalls,    \* bound: hellos an engine takes in between create and destroy
  MaxRecords   \* bound: application records, and leaked fragments

Contents == {"HANDSHAKE", "ALERT", "APPLICATION_DATA", "OTHER"}
Versions == {"TLS13", "TLS12", "OTHER"}

\* A record as it arrives.  whole: the five header bytes and the declared
\* length are there.  msg_type and high are the fragment's first three bytes,
\* hello the rest read as a ClientHello, hello.len the fragment's length.
Record == [whole: BOOLEAN, content: Contents, version: Versions,
           msg_type: {"CLIENT_HELLO", "OTHER"}, high: Word, hello: Hello]

ASSUME RecordsAssumption   == Records \subseteq Record
ASSUME BehindAssumption    == BehindSet \subseteq Behind
ASSUME BufferAssumption    == BufferSize \in Nat
ASSUME EmbedderAssumption  == Embedder \in BOOLEAN
ASSUME BoundsAssumption    == MaxCalls \in Nat /\ MaxRecords \in Nat

VARIABLES
  pc,         \* "absent", "idle", a step of a handshake call, or "aborted"
  state,      \* eng->state
  ctx,        \* eng->context
  keys,       \* eng->write_key, read_key and their ivs
  response,   \* messages written to the response buffer for the last hello
  resp_len,   \* *resp_len
  finished,   \* what the last server Finished was computed over
  last,       \* the last call that returned: <<operation, "ok" or "fail">>
  fragments,  \* record fragments allocated and never freed
  calls,      \* hellos taken in since create (the supply of tokens)
  resetAt,    \* value of calls at the last create or reset
  client      \* the hello last looked at, as its sender knows it

engineVars == <<state, ctx, keys>>
callVars   == <<response, resp_len, finished, client>>
vars == <<pc, engineVars, callVars, last, fragments, calls, resetAt>>

Messages == {"CLIENT_HELLO", "SERVER_HELLO", "ENCRYPTED_EXTENSIONS",
             "CERTIFICATE", "CERTIFICATE_VERIFY", "FINISHED"}

\* Bytes each builder writes.
MessageLen == [SERVER_HELLO |-> 86, ENCRYPTED_EXTENSIONS |-> 6,
               CERTIFICATE |-> 13, CERTIFICATE_VERIFY |-> 74, FINISHED |-> 36]

Steps == {"server_hello", "encrypted_extensions", "derive", "certificate",
          "certificate_verify", "finished"}

ZeroKey == <<0, 0, 0>>

-------------------------------------------------------------------------------
(* The context *)

WipedContext ==
  [client_random |-> 0, server_random |-> 0, client_pubkey |-> 0,
   server_privkey |-> "ZERO",
   shared_secret |-> 0, master_secret |-> ZeroKey, session_keys |-> ZeroKey,
   sequence_number |-> 0, transcript |-> <<>>, buffer_offset |-> 0,
   messages_received |-> {}, handshake_done |-> FALSE, cipher_suite |-> "NULL"]

\* Variant: the context is not wiped.
init_keeps_context(c) == [c EXCEPT !.cipher_suite = "AES_128_GCM"]

axon_context_init(c) == [WipedContext EXCEPT !.cipher_suite = "AES_128_GCM"]

\* Variants: the bound forgets the message or is one byte short.
Kept(c, msg, n, len) ==
  [c EXCEPT !.transcript = Append(@, <<msg, n, len>>), !.buffer_offset = @ + len]

bound_forgets_message(c, msg, n, len) ==
  IF len > 0 /\ c.buffer_offset <= BufferSize THEN Kept(c, msg, n, len) ELSE c

bound_too_small(c, msg, n, len) ==
  IF len > 0 /\ c.buffer_offset + len < BufferSize THEN Kept(c, msg, n, len) ELSE c

\* A message that does not fit is dropped without a sign.
axon_context_update_hash(c, msg, n, len) ==
  IF len > 0 /\ c.buffer_offset + len <= BufferSize THEN Kept(c, msg, n, len) ELSE c

-------------------------------------------------------------------------------
(* The record layer's reader and the checks on its result *)

axon_record_read(r, allocated) ==
  /\ r.whole
  /\ r.content # "ALERT"
  /\ r.version \in {"TLS13", "TLS12"}
  /\ r.hello.len > 0
  /\ allocated

\* Bytes 1 and 2 of the fragment, the high bytes of the handshake length, are
\* compared with the protocol version 0x0304.  In a fragment of one or two
\* bytes they are whatever lies behind it.
VersionSeen(r) == IF r.hello.len >= 3 THEN {r.high} ELSE {r.high, 772}

IsHello(r, seen) ==
  /\ r.content = "HANDSHAKE"
  /\ r.msg_type = "CLIENT_HELLO"
  /\ seen = 772

\* A complete share for X25519, as its sender sees it.
CarriesShare(h) ==
  \E k \in 1..Len(h.exts) :
    h.exts[k].type = "KEY_SHARE" /\ h.exts[k].len >= 38 /\ h.exts[k].key_len = 32

NoClient == [call |-> 0, len |-> 0, share |-> FALSE, well_formed |-> FALSE]

\* What the sender knows of its own hello.  A hello is well formed when its
\* handshake header carries its length and the parser finds nothing missing.
ClientOf(r, n) ==
  [call |-> n, len |-> r.hello.len, share |-> CarriesShare(r.hello),
   well_formed |-> /\ r.content = "HANDSHAKE"
                   /\ r.msg_type = "CLIENT_HELLO"
                   /\ r.hello.len >= 40
                   /\ r.high = (r.hello.len - 4) \div 256
                   /\ \A b \in BehindSet : Accepts(r.hello, b)]

\* Fields of the context the parser overwrites, then the transcript update
\* that follows whatever the parser said.
AfterHello(c, r, n, p) ==
  axon_context_update_hash(
    [c EXCEPT !.client_random = IF p.random THEN n ELSE @,
              !.client_pubkey = IF p.share THEN n ELSE @,
              !.cipher_suite  = IF p.suite = NoSuite THEN @ ELSE p.suite,
              !.messages_received = IF p.ok THEN @ \cup {"CLIENT_HELLO"} ELSE @],
    "CLIENT_HELLO", n, r.hello.len)

-------------------------------------------------------------------------------
(* Actions *)

\* No call has returned since create, or one is under way.
NoCall == <<"none", "ok">>

NoFinished == [key |-> ZeroKey, over |-> <<>>]

Init ==
  /\ pc = "absent"
  /\ state = "INIT" /\ ctx = axon_context_init(WipedContext) /\ keys = ZeroKey
  /\ response = <<>> /\ resp_len = 0 /\ finished = NoFinished
  /\ last = NoCall /\ fragments = 0
  /\ calls = 0 /\ resetAt = 0 /\ client = NoClient

axon_engine_create ==
  /\ pc = "absent"
  /\ pc' = "idle"
  /\ UNCHANGED <<engineVars, callVars, last, fragments, calls, resetAt>>

\* Destroying the engine wipes it; so does the end of an aborted process.
axon_engine_destroy ==
  /\ pc \in {"idle", "aborted"}
  /\ pc' = "absent"
  /\ state' = "INIT" /\ ctx' = axon_context_init(WipedContext) /\ keys' = ZeroKey
  /\ response' = <<>> /\ resp_len' = 0 /\ finished' = NoFinished
  /\ last' = NoCall /\ fragments' = 0
  /\ calls' = 0 /\ resetAt' = 0 /\ client' = NoClient

\* eng->sequence_number is zeroed too, but nothing ever reads it.
axon_engine_reset ==
  /\ pc = "idle"
  /\ state' = "INIT"
  /\ ctx' = axon_context_init(ctx)
  /\ keys' = keys
  /\ resetAt' = calls
  /\ last' = <<"reset", "ok">>
  /\ UNCHANGED <<pc, callVars, fragments, calls>>

Fails(op) == last' = <<op, "fail">>

\* The caller passes a fresh response buffer and *resp_len = 0.
Called(r, n) == /\ response' = <<>>
                /\ resp_len' = 0
                /\ client' = ClientOf(r, n)
                /\ UNCHANGED <<finished, fragments>>

\* axon_record_read fails: the engine is left as it was.
RejectRecord ==
  /\ pc = "idle"
  /\ \E r \in Records, allocated \in BOOLEAN : ~axon_record_read(r, allocated)
  /\ resp_len' = 0
  /\ Fails("handshake")
  /\ UNCHANGED <<pc, engineVars, response, finished, client, fragments, calls, resetAt>>

\* Not a handshake record, not a ClientHello, not the version looked for.
RejectFragment ==
  /\ pc = "idle"
  /\ \E r \in Records : \E seen \in VersionSeen(r) :
       axon_record_read(r, TRUE) /\ ~IsHello(r, seen) /\ Called(r, 0)
  /\ state' = "ALERT_SENT"
  /\ Fails("handshake")
  /\ UNCHANGED <<pc, ctx, keys, calls, resetAt>>

\* Variant: a hello that is refused leaves the state of the handshake before.
state_survives_bad_hello(p) ==
  IF p.ok THEN axon_state_machine("INIT", "CLIENT_HELLO") ELSE state

\* The new state does not depend on the old one.
StateAfterHello(p) ==
  IF p.ok THEN axon_state_machine("INIT", "CLIENT_HELLO") ELSE "ALERT_SENT"

\* The hello is parsed and added to the transcript.
TakeHello ==
  /\ pc = "idle"
  /\ calls < MaxCalls
  /\ \E r \in Records, b \in BehindSet : \E seen \in VersionSeen(r) :
       LET p == axon_parse_client_hello(r.hello, b)
       IN  /\ axon_record_read(r, TRUE) /\ IsHello(r, seen)
           /\ Called(r, calls + 1)
           /\ ctx' = AfterHello(ctx, r, calls + 1, p)
           /\ state' = StateAfterHello(p)
           /\ IF p.ok THEN pc' = "server_hello" /\ last' = NoCall
                      ELSE pc' = pc /\ Fails("handshake")
  /\ calls' = calls + 1
  /\ UNCHANGED <<keys, resetAt>>

\* Variant: a message leaves no bit in messages_received.
builds_without_bit(msg, c, next) ==
  /\ response' = Append(response, <<msg, calls, MessageLen[msg]>>)
  /\ ctx' = axon_context_update_hash(c, msg, calls, MessageLen[msg])
  /\ pc' = next

\* A builder writes msg behind what the response holds, sets its bit in
\* messages_received and adds it to the transcript.
Builds(msg, c, next) ==
  /\ response' = Append(response, <<msg, calls, MessageLen[msg]>>)
  /\ ctx' = axon_context_update_hash(
              [c EXCEPT !.messages_received = @ \cup {msg}], msg, calls, MessageLen[msg])
  /\ pc' = next

\* The engine then asks the state machine where msg leads.
MovesOn(msg) == state' = axon_state_machine(state, msg)

Clamp(private_key) == IF private_key = "ZERO" THEN "CLAMPED_ZERO" ELSE private_key

\* Randoms drawn, key pair made from whatever server_privkey holds, shared
\* secret computed with whatever client_pubkey holds.
WithKeyExchange(c) ==
  [c EXCEPT !.server_random  = calls,
            !.server_privkey = Clamp(@),
            !.shared_secret  = c.client_pubkey]

axon_build_server_hello ==
  /\ pc = "server_hello"
  /\ Builds("SERVER_HELLO", WithKeyExchange(ctx), "encrypted_extensions")
  /\ MovesOn("SERVER_HELLO")
  /\ UNCHANGED <<keys, resp_len, finished, client, last, fragments, calls, resetAt>>

\* /dev/urandom cannot be opened, or runs dry after some bytes were stored.
generate_random_fails ==
  /\ pc = "server_hello"
  /\ pc' = "idle"
  /\ \E drawn \in {ctx.server_random, calls} :
       ctx' = [ctx EXCEPT !.server_random = drawn]
  /\ Fails("handshake")
  /\ UNCHANGED <<state, keys, callVars, fragments, calls, resetAt>>

\* Variant: the length is handed out while the flight is still being written.
length_handed_out_early ==
  /\ pc = "encrypted_extensions"
  /\ Builds("ENCRYPTED_EXTENSIONS", ctx, "derive")
  /\ MovesOn("ENCRYPTED_EXTENSIONS")
  /\ resp_len' = MessageLen["SERVER_HELLO"] + MessageLen["ENCRYPTED_EXTENSIONS"]
  /\ UNCHANGED <<keys, finished, client, last, fragments, calls, resetAt>>

axon_build_encrypted_extensions ==
  /\ pc = "encrypted_extensions"
  /\ Builds("ENCRYPTED_EXTENSIONS", ctx, "derive")
  /\ MovesOn("ENCRYPTED_EXTENSIONS")
  /\ UNCHANGED <<keys, resp_len, finished, client, last, fragments, calls, resetAt>>

KeyOf(c) == <<c.client_random, c.server_random, c.shared_secret>>

\* Variants: keys are derived once and kept, or only once there is a share.
keys_derived_once ==
  /\ pc = "derive"
  /\ pc' = "certificate"
  /\ ctx' = [ctx EXCEPT !.master_secret = KeyOf(ctx)]
  /\ keys' = IF keys = ZeroKey THEN KeyOf(ctx) ELSE keys
  /\ UNCHANGED <<state, callVars, last, fragments, calls, resetAt>>

derivation_waits_for_share ==
  /\ pc = "derive" /\ ctx.client_pubkey # 0
  /\ pc' = "certificate"
  /\ ctx' = [ctx EXCEPT !.master_secret = KeyOf(ctx)]
  /\ keys' = KeyOf(ctx)
  /\ UNCHANGED <<state, callVars, last, fragments, calls, resetAt>>

\* axon_derive_handshake_keys fills the master secret, the engine then derives
\* its own keys; the context's session keys stay as they are.
axon_derive_handshake_keys ==
  /\ pc = "derive"
  /\ pc' = "certificate"
  /\ ctx' = [ctx EXCEPT !.master_secret = KeyOf(ctx)]
  /\ keys' = KeyOf(ctx)
  /\ UNCHANGED <<state, callVars, last, fragments, calls, resetAt>>

axon_build_certificate ==
  /\ pc = "certificate"
  /\ Builds("CERTIFICATE", ctx, "certificate_verify")
  /\ MovesOn("CERTIFICATE")
  /\ UNCHANGED <<keys, resp_len, finished, client, last, fragments, calls, resetAt>>

axon_build_certificate_verify ==
  /\ pc = "certificate_verify"
  /\ Builds("CERTIFICATE_VERIFY", ctx, "finished")
  /\ MovesOn("CERTIFICATE_VERIFY")
  /\ UNCHANGED <<keys, resp_len, finished, client, last, fragments, calls, resetAt>>

ResponseBytes == 86 + 6 + 13 + 74 + 36

\* compute_finished runs over the transcript as it stands before this message
\* joins it.  The call ends here, and only here is *resp_len written; the state
\* is set whatever the state machine makes of the message.
axon_build_finished ==
  /\ pc = "finished"
  /\ finished' = [key |-> ctx.master_secret, over |-> ctx.transcript]
  /\ Builds("FINISHED", [ctx EXCEPT !.handshake_done = TRUE], "idle")
  /\ state' = "SENT_FINISHED"
  /\ resp_len' = ResponseBytes
  /\ last' = <<"handshake", "ok">>
  /\ UNCHANGED <<keys, client, fragments, calls, resetAt>>

\* compute_signature and compute_finished hash the transcript.
sha256_final_aborts ==
  /\ pc \in {"certificate_verify", "finished"}
  /\ PaddingOverflows(ctx.buffer_offset)
  /\ pc' = "aborted"
  /\ UNCHANGED <<engineVars, callVars, last, fragments, calls, resetAt>>

-------------------------------------------------------------------------------
(* The client's Finished.  No function under src/ checks it: an application  *)
(* that wants to reach STATE_HANDSHAKE_COMPLETE calls axon_verify_finished   *)
(* and then the state machine itself.                                        *)

ClientKey == <<client.call, client.call, client.call>>

\* The messages a client has sent and received by the end of the handshake.
ClientTranscript ==
  <<<<"CLIENT_HELLO", client.call, client.len>>>> \o response

\* The server's Finished verifies at the client of this handshake.
ClientVerifies ==
  /\ client.share
  /\ finished.key = ClientKey
  /\ finished.over = SubSeq(ClientTranscript, 1, 5)

\* An honest client that has verified the server's Finished sends its own.
ClientFinished == [key |-> ClientKey, over |-> ClientTranscript]

\* Variant: only the key is compared.
verify_ignores_transcript(mac) == mac.key = ctx.master_secret

axon_verify_finished(mac) ==
  mac = [key |-> ctx.master_secret, over |-> ctx.transcript]

ClientFinishedArrives ==
  /\ Embedder
  /\ pc = "idle" /\ state = "SENT_FINISHED"
  /\ \E mac \in {NoFinished} \cup (IF ClientVerifies THEN {ClientFinished} ELSE {}) :
       IF axon_verify_finished(mac)
       THEN /\ ctx' = [ctx EXCEPT !.handshake_done = TRUE]
            /\ state' = axon_state_machine(state, "FINISHED")
            /\ last' = <<"verify", "ok">>
       ELSE Fails("verify") /\ UNCHANGED <<ctx, state>>
  /\ UNCHANGED <<pc, keys, callVars, fragments, calls, resetAt>>

\* compute_finished hashes the transcript here too.
ClientFinishedAborts ==
  /\ Embedder
  /\ pc = "idle" /\ state = "SENT_FINISHED"
  /\ PaddingOverflows(ctx.buffer_offset)
  /\ pc' = "aborted"
  /\ UNCHANGED <<engineVars, callVars, last, fragments, calls, resetAt>>

-------------------------------------------------------------------------------
(* Application data *)

Refused(op) ==
  /\ pc = "idle" /\ state # "HANDSHAKE_COMPLETE"
  /\ Fails(op)
  /\ UNCHANGED <<pc, engineVars, callVars, fragments, calls, resetAt>>

\* A plaintext of more than 16384 bytes is refused before the counter moves.
axon_engine_encrypt ==
  /\ pc = "idle" /\ state = "HANDSHAKE_COMPLETE"
  /\ \/ /\ ctx.sequence_number < MaxRecords
        /\ ctx' = [ctx EXCEPT !.sequence_number = @ + 1]
        /\ last' = <<"encrypt", "ok">>
     \/ Fails("encrypt") /\ ctx' = ctx
  /\ UNCHANGED <<pc, state, keys, callVars, fragments, calls, resetAt>>

\* The record is read into a fragment.  A record that is not application data,
\* or too short for a tag, is turned away before the fragment is freed; any
\* other one costs a sequence number, whether or not its tag verifies.
axon_engine_decrypt ==
  /\ pc = "idle" /\ state = "HANDSHAKE_COMPLETE"
  /\ \E r \in Records, allocated, genuine \in BOOLEAN :
       LET read   == axon_record_read(r, allocated)
           sealed == r.content = "APPLICATION_DATA" /\ r.hello.len >= 16
       IN  /\ fragments < MaxRecords /\ ctx.sequence_number < MaxRecords
           /\ fragments' = IF read /\ ~sealed THEN fragments + 1 ELSE fragments
           /\ ctx' = IF read /\ sealed
                     THEN [ctx EXCEPT !.sequence_number = @ + 1] ELSE ctx
           /\ last' = <<"decrypt", IF read /\ sealed /\ genuine THEN "ok" ELSE "fail">>
  /\ UNCHANGED <<pc, state, keys, callVars, calls, resetAt>>

-------------------------------------------------------------------------------

\* The rest of a handshake call once it is under way.
CallStep ==
  \/ axon_build_server_hello
  \/ generate_random_fails
  \/ axon_build_encrypted_extensions
  \/ axon_derive_handshake_keys
  \/ axon_build_certificate
  \/ axon_build_certificate_verify
  \/ axon_build_finished
  \/ sha256_final_aborts

Next ==
  \/ axon_engine_create
  \/ axon_engine_destroy
  \/ axon_engine_reset
  \/ RejectRecord
  \/ RejectFragment
  \/ TakeHello
  \/ CallStep
  \/ ClientFinishedArrives
  \/ ClientFinishedAborts
  \/ Refused("encrypt")
  \/ Refused("decrypt")
  \/ axon_engine_encrypt
  \/ axon_engine_decrypt

Spec == Init /\ [][Next]_vars

\* A call runs on the caller's thread and waits for nothing but reads of
\* /dev/urandom, which return.  Nothing obliges anyone to make a call.
FairSpec == Spec /\ WF_vars(CallStep)

===============================================================================

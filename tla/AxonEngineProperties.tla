------------------------- MODULE AxonEngineProperties -------------------------
(***************************************************************************)
(* What should hold of the engine, and what its documentation says of it.  *)
(***************************************************************************)
EXTENDS AxonEngine

Token == 0..MaxCalls
Key   == Token \X Token \X Token
Entry3 == Messages \X Token \X Nat

Context ==
  [client_random: Token, server_random: Token, client_pubkey: Token,
   server_privkey: {"ZERO", "CLAMPED_ZERO", "RANDOM"},
   shared_secret: Token, master_secret: Key, session_keys: Key,
   sequence_number: 0..MaxRecords, transcript: Seq(Entry3), buffer_offset: Nat,
   messages_received: SUBSET Messages, handshake_done: BOOLEAN,
   cipher_suite: Suites \cup {"NULL"}]

\* The shape of every variable.
TypeOK ==
  /\ pc \in {"absent", "idle", "aborted"} \cup Steps
  /\ state \in States
  /\ ctx \in Context
  /\ keys \in Key
  /\ response \in Seq(Entry3)
  /\ resp_len \in Nat
  /\ finished \in [key: Key, over: Seq(Entry3)]
  /\ last \in {"none", "handshake", "reset", "verify", "encrypt", "decrypt"}
                \X {"ok", "fail"}
  /\ fragments \in 0..MaxRecords
  /\ calls \in Token /\ resetAt \in Token
  /\ client \in [call: Token, len: Nat, share: BOOLEAN, well_formed: BOOLEAN]

-------------------------------------------------------------------------------
(* Safety *)

Keyed == {"SENT_CERTIFICATE", "SENT_CERTIFICATE_VERIFY", "SENT_FINISHED",
          "HANDSHAKE_COMPLETE"}

\* While the engine's state says keys exist, its keys and the master secret
\* (main.c:85-103, handshake.c:328-359) are derived from the randoms and the
\* shared secret the context holds now: no later hello, failed or not, changes
\* one side without the state leaving these states.
KeysBoundToContext ==
  state \in Keyed => keys = KeyOf(ctx) /\ ctx.master_secret = KeyOf(ctx)

\* The offset never passes the 8192-byte buffer and always equals the bytes of
\* the messages kept (context.c:18-24), over any number of hellos and calls.
BytesOf(entries) ==
  LET upTo[i \in 0..Len(entries)] ==
        IF i = 0 THEN 0 ELSE upTo[i - 1] + entries[i][3]
  IN  upTo[Len(entries)]

TranscriptFillsBuffer ==
  /\ ctx.buffer_offset = BytesOf(ctx.transcript)
  /\ ctx.buffer_offset <= BufferSize

\* After a reset nothing of an earlier client is left in the context: every
\* random, share, secret and transcript entry is zero or newer (main.c:155-162).
Since(n) == n = 0 \/ n > resetAt

ResetForgetsClients ==
  /\ Since(ctx.client_random) /\ Since(ctx.server_random)
  /\ Since(ctx.client_pubkey) /\ Since(ctx.shared_secret)
  /\ \A i \in 1..3 : Since(ctx.master_secret[i])
  /\ \A i \in 1..Len(ctx.transcript) : ctx.transcript[i][2] > resetAt

Answered == last = <<"handshake", "ok">>

\* The first hello after create or reset, when it leaves room for the messages
\* up to the server's Finished and its share was found: the client recomputes
\* exactly the Finished it was sent (handshake.c:265-307).
FirstHandshakeVerifies ==
  ( /\ Answered
    /\ client.call = resetAt + 1
    /\ ctx.client_pubkey = client.call
    /\ client.share
    /\ client.len + ResponseBytes - MessageLen["FINISHED"] <= BufferSize )
  => ClientVerifies

\* When the client's Finished has been accepted, client and server hold the
\* same transcript and the same secret, whatever was handshaken before on this
\* engine and whatever did not fit into the buffer.
CompletionAgrees ==
  state = "HANDSHAKE_COMPLETE" =>
    /\ ctx.transcript = ClientTranscript
    /\ ctx.master_secret = ClientKey
    /\ keys = ClientKey

\* A handshake call that returns -1 has either touched nothing but the caller's
\* buffer or left a state in which encrypt and decrypt refuse and no Finished
\* is accepted: a failed call never leaves an old session usable.
FailedCallDisarms ==
  [][ last' = <<"handshake", "fail">> =>
        \/ UNCHANGED <<state, ctx, keys>>
        \/ state' \in {"WAITING_CLIENT_HELLO", "ALERT_SENT"} ]_vars

\* The state names the message sent last, and messages_received shows it and
\* all before it; the bits only grow until a reset or destroy.
SentUpTo(s) ==
  LET order == <<"WAITING_CLIENT_HELLO", "SENT_SERVER_HELLO",
                 "SENT_ENCRYPTED_EXTENSIONS", "SENT_CERTIFICATE",
                 "SENT_CERTIFICATE_VERIFY", "SENT_FINISHED">>
      bits  == <<"CLIENT_HELLO", "SERVER_HELLO", "ENCRYPTED_EXTENSIONS",
                 "CERTIFICATE", "CERTIFICATE_VERIFY", "FINISHED">>
  IN  {bits[i] : i \in {j \in 1..6 : \E k \in j..6 : s = order[k]}}

StateMatchesMessages ==
  /\ SentUpTo(state) \subseteq ctx.messages_received
  /\ state = "HANDSHAKE_COMPLETE" => ctx.messages_received = Messages
  /\ state \in {"SENT_FINISHED", "HANDSHAKE_COMPLETE"} => ctx.handshake_done

\* state.c keeps two tables, the transitions taken (5-60) and the transitions
\* allowed (78-99), and main.c:125 sets one state past both: from the accepted
\* hello to the completed handshake every change of state is in the second.
HandshakeKeepsToTable ==
  [][ (pc \in Steps \/ state' = "HANDSHAKE_COMPLETE") /\ state' # state =>
        axon_state_is_valid_transition(state, state') ]_vars

-------------------------------------------------------------------------------
(* Liveness and refinement *)

\* Every handshake call comes to an end.
CallsEnd == [](pc \in Steps => <>(pc \notin Steps))

Service == INSTANCE HandshakeService WITH
  phase    <- IF pc \in Steps THEN "serving" ELSE "idle",
  flight   <- [i \in 1..Len(response) |-> response[i][1]],
  answered <- resp_len > 0

\* The engine keeps the promise of HandshakeService.
ImplementsService == Service!Spec

-------------------------------------------------------------------------------
(* What the repository says of the engine *)

\* tests/c/test_handshake.c:46: a handshake with the hello it builds does not
\* fail; README.md:161: handshake returns 0 for success.  A well-formed hello
\* at least is not answered with an alert.
WellFormedHelloServed ==
  client.well_formed /\ last = <<"handshake", "fail">> => state # "ALERT_SENT"

\* README.md:132-162: application data is encrypted after the handshake.
EncryptsAfterHandshake ==
  ~(last = <<"encrypt", "fail">> /\ state = "SENT_FINISHED")

\* README.md:207-234: one engine serves one accepted client after another; the
\* Finished of each covers that client's own handshake.
FinishedCoversOwnHandshake ==
  Answered /\ client.len + ResponseBytes <= BufferSize =>
    finished.over = SubSeq(ClientTranscript, 1, 5)

\* README.md:161: a handshake call returns.
HandshakeReturns == pc # "aborted"

===============================================================================

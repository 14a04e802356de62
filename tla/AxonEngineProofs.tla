--------------------------- MODULE AxonEngineProofs ---------------------------
(***************************************************************************)
(* For every set of records, every buffer size and every number of calls:  *)
(* the invariants of the engine, and that a handshake call does nothing    *)
(* HandshakeService does not allow.                                        *)
(***************************************************************************)
EXTENDS AxonEngineProperties, DataInduction, SequenceTheorems, TLAPS

-------------------------------------------------------------------------------
(* Where the state machine leads *)

\* Every state has a successor that is a state.
LEMMA MachineType ==
  ASSUME NEW s, NEW msg PROVE axon_state_machine(s, msg) \in States
  BY DEF axon_state_machine, Expects, Follows, States

\* The transitions a handshake call takes, one after another.
LEMMA MachineSteps ==
  /\ axon_state_machine("INIT", "CLIENT_HELLO") = "WAITING_CLIENT_HELLO"
  /\ axon_state_machine("WAITING_CLIENT_HELLO", "SERVER_HELLO") = "SENT_SERVER_HELLO"
  /\ axon_state_machine("SENT_SERVER_HELLO", "ENCRYPTED_EXTENSIONS")
       = "SENT_ENCRYPTED_EXTENSIONS"
  /\ axon_state_machine("SENT_ENCRYPTED_EXTENSIONS", "CERTIFICATE") = "SENT_CERTIFICATE"
  /\ axon_state_machine("SENT_CERTIFICATE", "CERTIFICATE_VERIFY")
       = "SENT_CERTIFICATE_VERIFY"
  /\ axon_state_machine("SENT_CERTIFICATE_VERIFY", "FINISHED") = "SENT_FINISHED"
  /\ axon_state_machine("SENT_FINISHED", "FINISHED") = "HANDSHAKE_COMPLETE"
  BY DEF axon_state_machine, Expects, Follows

-------------------------------------------------------------------------------
(* The shape of the context *)

\* A fresh context.
LEMMA WipedType == axon_context_init(WipedContext) \in Context
<1>1. 0 \in Token /\ 0 \in 0..MaxRecords /\ ZeroKey \in Key
  BY BoundsAssumption DEF Token, Key, ZeroKey
<1>2. <<>> \in Seq(Entry3) /\ {} \in SUBSET Messages /\ "AES_128_GCM" \in Suites
  BY DEF Suites, SupportedSuites
<1>3. WipedContext \in Context
  BY <1>1, <1>2 DEF WipedContext, Context
<1> QED
  BY <1>2, <1>3 DEF axon_context_init, Context

\* Adding a message to the transcript.
LEMMA UpdateType ==
  ASSUME NEW c \in Context, NEW msg \in Messages, NEW n \in Token, NEW len \in Nat
  PROVE  axon_context_update_hash(c, msg, n, len) \in Context
<1>1. Append(c.transcript, <<msg, n, len>>) \in Seq(Entry3)
  BY DEF Context, Entry3
<1>2. c.buffer_offset + len \in Nat
  BY DEF Context
<1>3. Kept(c, msg, n, len) \in Context
  BY <1>1, <1>2 DEF Kept, Context
<1> QED
  BY <1>3 DEF axon_context_update_hash

\* What the parser leaves in the context.
LEMMA ParserType ==
  ASSUME NEW h, NEW b
  PROVE  LET p == axon_parse_client_hello(h, b)
         IN  p.suite \in SupportedSuites \cup {NoSuite}
<1>1. SuiteChosen(h, b) \in SupportedSuites \cup {NoSuite}
  BY DEF SuiteChosen, Chosen
<1> QED
  BY <1>1 DEF axon_parse_client_hello

LEMMA HelloType ==
  ASSUME NEW c \in Context, NEW r \in Record, NEW n \in Token, NEW p,
         p.suite \in SupportedSuites \cup {NoSuite}
  PROVE  AfterHello(c, r, n, p) \in Context
<1> DEFINE random == IF p.random THEN n ELSE c.client_random
           pubkey == IF p.share THEN n ELSE c.client_pubkey
           suite  == IF p.suite = NoSuite THEN c.cipher_suite ELSE p.suite
           bits   == IF p.ok THEN c.messages_received \cup {"CLIENT_HELLO"}
                             ELSE c.messages_received
           d == [c EXCEPT !.client_random = random, !.client_pubkey = pubkey,
                          !.cipher_suite = suite, !.messages_received = bits]
<1>1. d \in Context
  <2>1. random \in Token /\ pubkey \in Token
    BY DEF Context
  <2>2. suite \in Suites \cup {"NULL"}
    BY DEF Context, Suites
  <2>3. bits \in SUBSET Messages
    BY DEF Context, Messages
  <2> HIDE DEF random, pubkey, suite, bits
  <2> QED
    BY <2>1, <2>2, <2>3 DEF Context
<1>2. r.hello.len \in Nat
  <2>1. r.hello \in Hello
    BY DEF Record
  <2> QED
    BY <2>1 DEF Hello
<1>3. "CLIENT_HELLO" \in Messages
  BY DEF Messages
<1> HIDE DEF d, random, pubkey, suite, bits
<1>4. axon_context_update_hash(d, "CLIENT_HELLO", n, r.hello.len) \in Context
  BY <1>1, <1>2, <1>3, UpdateType
<1> QED
  BY <1>4 DEF AfterHello, d, random, pubkey, suite, bits

-------------------------------------------------------------------------------
(* The shape of every variable *)

\* The key both sides of the schedule are made of.
LEMMA KeyType == ASSUME NEW c \in Context PROVE KeyOf(c) \in Key
  BY DEF KeyOf, Key, Context

\* The key exchange.
LEMMA ExchangeType ==
  ASSUME NEW c \in Context, calls \in Token PROVE WithKeyExchange(c) \in Context
<1>1. Clamp(c.server_privkey) \in {"ZERO", "CLAMPED_ZERO", "RANDOM"}
  BY DEF Clamp, Context
<1>2. c.client_pubkey \in Token
  BY DEF Context
<1> QED
  BY <1>1, <1>2 DEF WithKeyExchange, Context

\* A builder's part in a step.
LEMMA BuildsType ==
  ASSUME TypeOK, NEW c \in Context, NEW msg \in Messages \ {"CLIENT_HELLO"},
         NEW next \in {"idle"} \cup Steps, Builds(msg, c, next)
  PROVE  /\ response' \in Seq(Entry3)
         /\ ctx' \in Context
         /\ pc' \in {"absent", "idle", "aborted"} \cup Steps
<1>1. MessageLen[msg] \in Nat
  BY DEF MessageLen, Messages
<1>2. calls \in Token /\ response \in Seq(Entry3)
  BY DEF TypeOK
<1>3. <<msg, calls, MessageLen[msg]>> \in Entry3
  BY <1>1, <1>2 DEF Entry3
<1>4. [c EXCEPT !.messages_received = @ \cup {msg}] \in Context
  BY DEF Context
<1>5. ctx' \in Context
  BY <1>1, <1>2, <1>4, UpdateType DEF Builds
<1>6. response' \in Seq(Entry3)
  BY <1>2, <1>3 DEF Builds
<1>7. pc' \in {"idle"} \cup Steps
  BY DEF Builds
<1> QED
  BY <1>5, <1>6, <1>7

\* Looking at a hello.
LEMMA ClientType ==
  ASSUME NEW r \in Record, NEW n \in Token
  PROVE  ClientOf(r, n) \in [call: Token, len: Nat, share: BOOLEAN, well_formed: BOOLEAN]
<1>1. r.hello.len \in Nat
  <2>1. r.hello \in Hello
    BY DEF Record
  <2> QED
    BY <2>1 DEF Hello
<1>2. CarriesShare(r.hello) \in BOOLEAN
  BY DEF CarriesShare
<1> QED
  BY <1>1, <1>2 DEF ClientOf

\* Every step keeps the shape of the variables.
LEMMA TypeStep == TypeOK /\ [Next]_vars => TypeOK'
<1> SUFFICES ASSUME TypeOK, [Next]_vars PROVE TypeOK'
  OBVIOUS
<1>0. /\ 0 \in Token /\ ZeroKey \in Key /\ 0 \in 0..MaxRecords
      /\ "INIT" \in States /\ "ALERT_SENT" \in States
  BY BoundsAssumption DEF Token, Key, ZeroKey, States
<1>1. CASE UNCHANGED vars
  BY <1>1 DEF TypeOK, vars, engineVars, callVars
<1>2. CASE axon_engine_create
  BY <1>2 DEF axon_engine_create, TypeOK, engineVars, callVars
<1>3. CASE axon_engine_destroy
  BY <1>0, <1>3, WipedType
  DEF axon_engine_destroy, TypeOK, NoCall, NoFinished, NoClient
<1>4. CASE axon_engine_reset
  <2>1. axon_context_init(ctx) = axon_context_init(WipedContext)
    BY DEF axon_context_init
  <2> QED
    BY <1>0, <1>4, <2>1, WipedType DEF axon_engine_reset, TypeOK, callVars
<1>5. CASE RejectRecord
  BY <1>5 DEF RejectRecord, TypeOK, Fails, engineVars
<1>6. ASSUME NEW r \in Record, NEW n \in Token, Called(r, n)
      PROVE  /\ response' \in Seq(Entry3) /\ resp_len' \in Nat
             /\ client' \in [call: Token, len: Nat, share: BOOLEAN, well_formed: BOOLEAN]
             /\ UNCHANGED <<finished, fragments>>
  BY <1>6, ClientType DEF Called
<1>7. CASE RejectFragment
  <2>1. PICK r \in Records : Called(r, 0)
    BY <1>7 DEF RejectFragment
  <2> QED
    BY <1>0, <1>6, <1>7, <2>1, RecordsAssumption DEF RejectFragment, TypeOK, Fails
<1>8. CASE TakeHello
  <2>1. calls + 1 \in Token /\ calls' = calls + 1
    BY <1>8, BoundsAssumption DEF TakeHello, TypeOK, Token
  <2>2. PICK r \in Records, b \in BehindSet :
          LET p == axon_parse_client_hello(r.hello, b)
          IN  /\ Called(r, calls + 1)
              /\ ctx' = AfterHello(ctx, r, calls + 1, p)
              /\ state' = StateAfterHello(p)
              /\ IF p.ok THEN pc' = "server_hello" /\ last' = NoCall
                         ELSE pc' = pc /\ Fails("handshake")
    BY <1>8 DEF TakeHello
  <2> DEFINE p == axon_parse_client_hello(r.hello, b)
  <2>3. p.suite \in SupportedSuites \cup {NoSuite}
    BY ParserType
  <2>4. r \in Record /\ ctx \in Context
    BY RecordsAssumption DEF TypeOK
  <2> HIDE DEF p
  <2>5. ctx' \in Context
    BY <2>1, <2>2, <2>3, <2>4, HelloType DEF p
  <2>6. state' \in States
    BY <1>0, <2>2, MachineType DEF StateAfterHello, p
  <2>7. /\ pc' \in {"absent", "idle", "aborted"} \cup Steps
        /\ last' \in {"none", "handshake", "reset", "verify", "encrypt", "decrypt"}
                       \X {"ok", "fail"}
    BY <2>2 DEF TypeOK, NoCall, Fails, Steps, p
  <2> QED
    BY <1>6, <1>8, <2>1, <2>2, <2>4, <2>5, <2>6, <2>7 DEF TakeHello, TypeOK
<1>9. ctx \in Context /\ calls \in Token
  BY DEF TypeOK
<1>10. CASE axon_build_server_hello
  <2>1. WithKeyExchange(ctx) \in Context
    BY <1>9, ExchangeType
  <2> QED
    BY <1>10, <2>1, BuildsType, MachineType
    DEF axon_build_server_hello, MovesOn, TypeOK, Messages, Steps
<1>11. CASE generate_random_fails
  <2>1. PICK drawn \in {ctx.server_random, calls} :
          ctx' = [ctx EXCEPT !.server_random = drawn]
    BY <1>11 DEF generate_random_fails
  <2>2. drawn \in Token
    BY <1>9 DEF Context
  <2>3. ctx' \in Context
    BY <1>9, <2>1, <2>2 DEF Context
  <2> QED
    BY <1>11, <2>3 DEF generate_random_fails, TypeOK, Fails, callVars
<1>12. CASE axon_build_encrypted_extensions
  BY <1>9, <1>12, BuildsType, MachineType
  DEF axon_build_encrypted_extensions, MovesOn, TypeOK, Messages, Steps
<1>13. CASE axon_derive_handshake_keys
  <2>1. KeyOf(ctx) \in Key
    BY <1>9, KeyType
  <2>2. ctx' \in Context
    BY <1>9, <1>13, <2>1 DEF axon_derive_handshake_keys, Context
  <2> QED
    BY <1>13, <2>1, <2>2 DEF axon_derive_handshake_keys, TypeOK, callVars, Steps
<1>14. CASE axon_build_certificate
  BY <1>9, <1>14, BuildsType, MachineType
  DEF axon_build_certificate, MovesOn, TypeOK, Messages, Steps
<1>15. CASE axon_build_certificate_verify
  BY <1>9, <1>15, BuildsType, MachineType
  DEF axon_build_certificate_verify, MovesOn, TypeOK, Messages, Steps
<1>16. CASE axon_build_finished
  <2>1. [ctx EXCEPT !.handshake_done = TRUE] \in Context
    BY <1>9 DEF Context
  <2>2. /\ response' \in Seq(Entry3) /\ ctx' \in Context /\ state' \in States
        /\ pc' \in {"absent", "idle", "aborted"} \cup Steps
    BY <1>16, <2>1, BuildsType DEF axon_build_finished, Messages, States
  <2>3. finished' \in [key: Key, over: Seq(Entry3)]
    BY <1>9, <1>16 DEF axon_build_finished, Context
  <2>4. resp_len' \in Nat
    BY <1>16 DEF axon_build_finished, ResponseBytes
  <2> QED
    BY <1>16, <2>2, <2>3, <2>4 DEF axon_build_finished, TypeOK
<1>17. CASE sha256_final_aborts
  BY <1>17 DEF sha256_final_aborts, TypeOK, engineVars, callVars
<1>18. CASE ClientFinishedArrives
  <2>1. \/ /\ ctx' = [ctx EXCEPT !.handshake_done = TRUE]
           /\ state' = axon_state_machine(state, "FINISHED")
           /\ last' = <<"verify", "ok">>
        \/ UNCHANGED <<ctx, state>> /\ last' = <<"verify", "fail">>
    BY <1>18 DEF ClientFinishedArrives, Fails
  <2>2. ctx' \in Context
    BY <1>9, <2>1 DEF Context
  <2>3. state' \in States
    BY <2>1, MachineType DEF TypeOK
  <2> QED
    BY <1>18, <2>1, <2>2, <2>3 DEF ClientFinishedArrives, TypeOK, callVars
<1>19. CASE ClientFinishedAborts
  BY <1>19 DEF ClientFinishedAborts, TypeOK, engineVars, callVars
<1>20. CASE Refused("encrypt") \/ Refused("decrypt")
  BY <1>20 DEF Refused, TypeOK, Fails, engineVars, callVars
<1>21. ASSUME ctx.sequence_number < MaxRecords
       PROVE  [ctx EXCEPT !.sequence_number = @ + 1] \in Context
  <2>1. ctx.sequence_number \in 0..MaxRecords
    BY <1>9 DEF Context
  <2>2. ctx.sequence_number + 1 \in 0..MaxRecords
    BY <1>21, <2>1, BoundsAssumption
  <2> QED
    BY <1>9, <2>2 DEF Context
<1>22. CASE axon_engine_encrypt
  <2>1. ctx' \in Context
    BY <1>9, <1>21, <1>22 DEF axon_engine_encrypt
  <2> QED
    BY <1>22, <2>1 DEF axon_engine_encrypt, TypeOK, Fails, callVars
<1>23. CASE axon_engine_decrypt
  <2>1. ctx' \in Context
    BY <1>9, <1>21, <1>23 DEF axon_engine_decrypt
  <2>2. fragments' \in 0..MaxRecords
    BY <1>23, BoundsAssumption DEF axon_engine_decrypt, TypeOK
  <2>3. last' \in {"decrypt"} \X {"ok", "fail"}
    BY <1>23 DEF axon_engine_decrypt
  <2> QED
    BY <1>23, <2>1, <2>2, <2>3 DEF axon_engine_decrypt, TypeOK, callVars
<1> QED
  BY <1>1, <1>2, <1>3, <1>4, <1>5, <1>7, <1>8, <1>10, <1>11, <1>12, <1>13, <1>14, <1>15,
     <1>16, <1>17, <1>18, <1>19, <1>20, <1>22, <1>23 DEF Next, CallStep

\* Every variable keeps its shape.
THEOREM TypeCorrect == Spec => []TypeOK
<1>1. Init => TypeOK
  BY WipedType, BoundsAssumption
  DEF Init, TypeOK, NoCall, NoFinished, NoClient, Token, Key, ZeroKey, States
<1> QED
  BY <1>1, TypeStep, PTL DEF Spec

-------------------------------------------------------------------------------
(* Where a call is and what the state says of it *)

\* The state a call has reached is the one its step expects; between calls no
\* state is left from the middle of one; a call under way has no result yet,
\* and the hello it answers was counted.
CallOrder ==
  /\ pc = "absent" => state = "INIT"
  /\ pc = "idle" => state \in {"INIT", "WAITING_CLIENT_HELLO", "ALERT_SENT",
                               "SENT_FINISHED", "HANDSHAKE_COMPLETE"}
  /\ pc = "server_hello" => state = "WAITING_CLIENT_HELLO"
  /\ pc = "encrypted_extensions" => state = "SENT_SERVER_HELLO"
  /\ pc \in {"derive", "certificate"} => state = "SENT_ENCRYPTED_EXTENSIONS"
  /\ pc = "certificate_verify" => state = "SENT_CERTIFICATE"
  /\ pc = "finished" => state = "SENT_CERTIFICATE_VERIFY"
  /\ pc \in Steps => last = NoCall
  /\ resetAt <= calls
  /\ pc \in Steps => resetAt < calls

\* The keys are those of the context from the derivation on.
Bound == keys = KeyOf(ctx) /\ ctx.master_secret = KeyOf(ctx)

KeysFromDerivation == (pc = "certificate" \/ state \in Keyed) => Bound

IInv == TypeOK /\ CallOrder /\ KeysFromDerivation

\* What a builder leaves of the context: everything the keys are made of.
LEMMA BuildsKeepsSecrets ==
  ASSUME TypeOK, NEW c \in Context, NEW msg, NEW next, Builds(msg, c, next)
  PROVE  /\ KeyOf(ctx') = KeyOf(c)
         /\ ctx'.master_secret = c.master_secret
         /\ ctx'.client_pubkey = c.client_pubkey
         /\ ctx'.sequence_number = c.sequence_number
         /\ ctx'.handshake_done = c.handshake_done
         /\ ctx'.messages_received = c.messages_received \cup {msg}
         /\ ctx'.session_keys = c.session_keys
         /\ pc' = next
<1> DEFINE d == [c EXCEPT !.messages_received = @ \cup {msg}]
<1>1. /\ d.client_random = c.client_random /\ d.server_random = c.server_random
      /\ d.shared_secret = c.shared_secret /\ d.master_secret = c.master_secret
      /\ d.client_pubkey = c.client_pubkey /\ d.sequence_number = c.sequence_number
      /\ d.handshake_done = c.handshake_done /\ d.session_keys = c.session_keys
      /\ d.messages_received = c.messages_received \cup {msg}
  BY DEF Context
<1>2. ctx' = axon_context_update_hash(d, msg, calls, MessageLen[msg])
  BY DEF Builds
<1> QED
  BY <1>1, <1>2 DEF Builds, axon_context_update_hash, Kept, KeyOf, Context

\* What looking at a hello changes apart from the context.
LEMMA TakeHelloFacts ==
  ASSUME TakeHello
  PROVE  /\ pc = "idle" /\ keys' = keys /\ resetAt' = resetAt
         /\ calls' = calls + 1
         /\ \/ /\ state' = "WAITING_CLIENT_HELLO" /\ pc' = "server_hello"
               /\ last' = NoCall
            \/ /\ state' = "ALERT_SENT" /\ pc' = "idle"
               /\ last' = <<"handshake", "fail">>
<1>1. PICK r \in Records, b \in BehindSet :
        LET p == axon_parse_client_hello(r.hello, b)
        IN  /\ state' = StateAfterHello(p)
            /\ IF p.ok THEN pc' = "server_hello" /\ last' = NoCall
                       ELSE pc' = pc /\ Fails("handshake")
  BY DEF TakeHello
<1> DEFINE p == axon_parse_client_hello(r.hello, b)
<1>2. /\ state' = StateAfterHello(p)
      /\ IF p.ok THEN pc' = "server_hello" /\ last' = NoCall
                 ELSE pc' = pc /\ Fails("handshake")
  BY <1>1
<1> HIDE DEF p
<1>3. CASE p.ok
  BY <1>2, <1>3, MachineSteps DEF TakeHello, StateAfterHello
<1>4. CASE ~p.ok
  BY <1>2, <1>4 DEF TakeHello, StateAfterHello, Fails
<1> QED
  BY <1>3, <1>4

\* Calls run through their steps in order, whoever interrupts them.
LEMMA OrderStep == TypeOK /\ CallOrder /\ [Next]_vars => CallOrder'
<1> SUFFICES ASSUME TypeOK, CallOrder, [Next]_vars PROVE CallOrder'
  OBVIOUS
<1>0. calls \in Nat /\ resetAt \in Nat /\ ctx \in Context
  BY BoundsAssumption DEF TypeOK, Token
<1>1. CASE UNCHANGED vars
  BY <1>1 DEF vars, engineVars, callVars, CallOrder
<1>2. CASE axon_engine_create \/ axon_engine_destroy \/ axon_engine_reset
  BY <1>0, <1>2 DEF axon_engine_create, axon_engine_destroy, axon_engine_reset,
                    engineVars, CallOrder, Steps
<1>3. CASE RejectRecord \/ RejectFragment
  BY <1>3 DEF RejectRecord, RejectFragment, engineVars, CallOrder, Steps
<1>4. CASE TakeHello
  BY <1>0, <1>4, TakeHelloFacts DEF CallOrder, Steps
<1>5. ASSUME NEW msg, NEW c \in Context, NEW next, Builds(msg, c, next)
      PROVE  pc' = next
  BY <1>5 DEF Builds
<1>6. CASE axon_build_server_hello
  <2>1. WithKeyExchange(ctx) \in Context
    BY <1>0, ExchangeType DEF TypeOK
  <2>2. state' = "SENT_SERVER_HELLO" /\ pc' = "encrypted_extensions"
    BY <1>5, <1>6, <2>1, MachineSteps
    DEF axon_build_server_hello, MovesOn, CallOrder
  <2> QED
    BY <1>6, <2>2 DEF axon_build_server_hello, CallOrder, Steps
<1>7. CASE generate_random_fails
  BY <1>7 DEF generate_random_fails, CallOrder, Steps
<1>8. CASE axon_build_encrypted_extensions
  <2>1. state' = "SENT_ENCRYPTED_EXTENSIONS" /\ pc' = "derive"
    BY <1>0, <1>5, <1>8, MachineSteps
    DEF axon_build_encrypted_extensions, MovesOn, CallOrder
  <2> QED
    BY <1>8, <2>1 DEF axon_build_encrypted_extensions, CallOrder, Steps
<1>9. CASE axon_derive_handshake_keys
  BY <1>9 DEF axon_derive_handshake_keys, CallOrder, Steps
<1>10. CASE axon_build_certificate
  <2>1. state' = "SENT_CERTIFICATE" /\ pc' = "certificate_verify"
    BY <1>0, <1>5, <1>10, MachineSteps
    DEF axon_build_certificate, MovesOn, CallOrder
  <2> QED
    BY <1>10, <2>1 DEF axon_build_certificate, CallOrder, Steps
<1>11. CASE axon_build_certificate_verify
  <2>1. state' = "SENT_CERTIFICATE_VERIFY" /\ pc' = "finished"
    BY <1>0, <1>5, <1>11, MachineSteps
    DEF axon_build_certificate_verify, MovesOn, CallOrder
  <2> QED
    BY <1>11, <2>1 DEF axon_build_certificate_verify, CallOrder, Steps
<1>12. CASE axon_build_finished
  <2>1. [ctx EXCEPT !.handshake_done = TRUE] \in Context
    BY <1>0 DEF Context
  <2>2. state' = "SENT_FINISHED" /\ pc' = "idle"
    BY <1>5, <1>12, <2>1 DEF axon_build_finished
  <2> QED
    BY <1>12, <2>2 DEF axon_build_finished, CallOrder, Steps
<1>13. CASE sha256_final_aborts \/ ClientFinishedAborts
  BY <1>13 DEF sha256_final_aborts, ClientFinishedAborts, CallOrder, Steps
<1>14. CASE ClientFinishedArrives
  BY <1>14, MachineSteps DEF ClientFinishedArrives, CallOrder, Steps
<1>15. CASE Refused("encrypt") \/ Refused("decrypt")
  BY <1>15 DEF Refused, engineVars, CallOrder, Steps
<1>16. CASE axon_engine_encrypt \/ axon_engine_decrypt
  BY <1>16 DEF axon_engine_encrypt, axon_engine_decrypt, CallOrder, Steps
<1> QED
  BY <1>1, <1>2, <1>3, <1>4, <1>6, <1>7, <1>8, <1>9, <1>10, <1>11, <1>12, <1>13, <1>14,
     <1>15, <1>16 DEF Next, CallStep

\* From the derivation on, no step parts the keys from what they are made of.
LEMMA KeysStep ==
  TypeOK /\ CallOrder /\ CallOrder' /\ KeysFromDerivation /\ [Next]_vars
    => KeysFromDerivation'
<1> SUFFICES ASSUME TypeOK, CallOrder, CallOrder', KeysFromDerivation, [Next]_vars
             PROVE  KeysFromDerivation'
  OBVIOUS
<1>0. ctx \in Context /\ calls \in Token
  BY DEF TypeOK
<1>1. CASE UNCHANGED vars
  BY <1>1 DEF vars, engineVars, KeysFromDerivation, Bound, KeyOf
<1>2. CASE axon_engine_create \/ axon_engine_destroy \/ axon_engine_reset
  BY <1>2 DEF axon_engine_create, axon_engine_destroy, axon_engine_reset,
              engineVars, KeysFromDerivation, Keyed, CallOrder, Bound, KeyOf
<1>3. CASE RejectRecord \/ RejectFragment
  BY <1>3 DEF RejectRecord, RejectFragment, engineVars, KeysFromDerivation, Keyed,
              Bound, KeyOf
<1>4. CASE TakeHello
  BY <1>4, TakeHelloFacts DEF KeysFromDerivation, Keyed
<1>5. CASE axon_build_server_hello \/ generate_random_fails \/ axon_build_encrypted_extensions
  <2>1. pc' \in {"encrypted_extensions", "derive", "idle"} /\ (pc' = "idle" => state' = state)
    BY <1>5 DEF axon_build_server_hello, generate_random_fails,
                axon_build_encrypted_extensions, Builds
  <2>2. pc' = "idle" => state = "WAITING_CLIENT_HELLO"
    BY <1>5 DEF axon_build_server_hello, generate_random_fails,
                axon_build_encrypted_extensions, Builds, CallOrder
  <2> QED
    BY <2>1, <2>2 DEF KeysFromDerivation, Keyed, CallOrder
<1>6. CASE axon_derive_handshake_keys
  <2>1. KeyOf(ctx') = KeyOf(ctx) /\ ctx'.master_secret = KeyOf(ctx)
    BY <1>0, <1>6 DEF axon_derive_handshake_keys, KeyOf, Context
  <2> QED
    BY <1>6, <2>1 DEF axon_derive_handshake_keys, KeysFromDerivation, Bound, KeyOf
<1>7. CASE axon_build_certificate \/ axon_build_certificate_verify
  <2>1. KeyOf(ctx') = KeyOf(ctx) /\ ctx'.master_secret = ctx.master_secret
    BY <1>0, <1>7, BuildsKeepsSecrets
    DEF axon_build_certificate, axon_build_certificate_verify
  <2>2. keys' = keys /\ Bound
    BY <1>7 DEF axon_build_certificate, axon_build_certificate_verify,
                KeysFromDerivation, CallOrder, Keyed
  <2> QED
    BY <2>1, <2>2 DEF KeysFromDerivation, Bound, KeyOf
<1>8. CASE axon_build_finished
  <2> DEFINE c == [ctx EXCEPT !.handshake_done = TRUE]
  <2>1. /\ c \in Context /\ KeyOf(c) = KeyOf(ctx)
        /\ c.master_secret = ctx.master_secret
    BY <1>0 DEF Context, KeyOf
  <2>2. Builds("FINISHED", c, "idle")
    BY <1>8 DEF axon_build_finished
  <2> HIDE DEF c
  <2>3. KeyOf(ctx') = KeyOf(ctx) /\ ctx'.master_secret = ctx.master_secret
    BY <2>1, <2>2, BuildsKeepsSecrets
  <2>4. keys' = keys /\ Bound
    BY <1>8 DEF axon_build_finished, KeysFromDerivation, CallOrder, Keyed
  <2> QED
    BY <2>3, <2>4 DEF KeysFromDerivation, Bound, KeyOf
<1>9. CASE sha256_final_aborts \/ ClientFinishedAborts
  BY <1>9 DEF sha256_final_aborts, ClientFinishedAborts, engineVars,
              KeysFromDerivation, Bound, KeyOf
<1>10. CASE ClientFinishedArrives
  <2>1. KeyOf(ctx') = KeyOf(ctx) /\ ctx'.master_secret = ctx.master_secret
    BY <1>0, <1>10 DEF ClientFinishedArrives, Context, KeyOf
  <2>2. keys' = keys /\ Bound
    BY <1>10 DEF ClientFinishedArrives, KeysFromDerivation, Keyed
  <2> QED
    BY <2>1, <2>2 DEF KeysFromDerivation, Bound, KeyOf
<1>11. CASE Refused("encrypt") \/ Refused("decrypt")
  BY <1>11 DEF Refused, engineVars, KeysFromDerivation, Bound, KeyOf
<1>12. CASE axon_engine_encrypt \/ axon_engine_decrypt
  <2>1. KeyOf(ctx') = KeyOf(ctx) /\ ctx'.master_secret = ctx.master_secret
    BY <1>0, <1>12 DEF axon_engine_encrypt, axon_engine_decrypt, Context, KeyOf
  <2>2. keys' = keys /\ Bound
    BY <1>12 DEF axon_engine_encrypt, axon_engine_decrypt, KeysFromDerivation, Keyed
  <2> QED
    BY <2>1, <2>2 DEF KeysFromDerivation, Bound, KeyOf
<1> QED
  BY <1>1, <1>2, <1>3, <1>4, <1>5, <1>6, <1>7, <1>8, <1>9, <1>10, <1>11, <1>12
  DEF Next, CallStep

\* The inductive invariant.
LEMMA Invariance == Spec => []IInv
<1>1. Init => IInv
  <2> SUFFICES ASSUME Init PROVE IInv
    OBVIOUS
  <2>1. TypeOK
    BY WipedType, BoundsAssumption
    DEF Init, TypeOK, NoCall, NoFinished, NoClient, Token, Key, ZeroKey, States
  <2>2. CallOrder /\ KeysFromDerivation
    BY DEF Init, CallOrder, KeysFromDerivation, Keyed, Steps
  <2> QED
    BY <2>1, <2>2 DEF IInv
<1>2. IInv /\ [Next]_vars => IInv'
  BY TypeStep, OrderStep, KeysStep DEF IInv
<1> QED
  BY <1>1, <1>2, PTL DEF Spec

\* Whatever hellos a server is sent and however its calls fail, keys in use are
\* those of the context (main.c:85-103).
THEOREM KeysStayBound == Spec => []KeysBoundToContext
<1>1. IInv => KeysBoundToContext
  BY DEF IInv, KeysFromDerivation, KeysBoundToContext, Bound
<1> QED
  BY <1>1, Invariance, PTL

\* A handshake call that fails leaves no session usable (main.c:36-72).
THEOREM FailureDisarms == Spec => FailedCallDisarms
<1>1. IInv /\ [Next]_vars =>
        [ last' = <<"handshake", "fail">> =>
            \/ UNCHANGED <<state, ctx, keys>>
            \/ state' \in {"WAITING_CLIENT_HELLO", "ALERT_SENT"} ]_vars
  <2> SUFFICES ASSUME IInv, Next, last' = <<"handshake", "fail">>
               PROVE  \/ UNCHANGED <<state, ctx, keys>>
                      \/ state' \in {"WAITING_CLIENT_HELLO", "ALERT_SENT"}
    BY DEF vars, engineVars
  <2>1. NoCall # <<"handshake", "fail">>
    BY DEF NoCall
  <2>2. CASE axon_engine_create \/ RejectRecord \/ sha256_final_aborts \/ ClientFinishedAborts
    BY <2>2 DEF axon_engine_create, RejectRecord, sha256_final_aborts,
                ClientFinishedAborts, engineVars
  <2>3. CASE RejectFragment
    BY <2>3 DEF RejectFragment
  <2>4. CASE TakeHello
    BY <2>4, TakeHelloFacts
  <2>5. CASE generate_random_fails
    BY <2>5 DEF generate_random_fails, IInv, CallOrder
  <2>6. CASE \/ axon_build_server_hello \/ axon_build_encrypted_extensions
             \/ axon_derive_handshake_keys \/ axon_build_certificate
             \/ axon_build_certificate_verify
    BY <2>1, <2>6 DEF axon_build_server_hello, axon_build_encrypted_extensions,
       axon_derive_handshake_keys, axon_build_certificate, axon_build_certificate_verify,
       IInv, CallOrder, Steps
  <2>7. CASE axon_engine_destroy \/ axon_engine_reset \/ axon_build_finished
    BY <2>1, <2>7 DEF axon_engine_destroy, axon_engine_reset, axon_build_finished
  <2>8. CASE \/ ClientFinishedArrives \/ Refused("encrypt") \/ Refused("decrypt")
             \/ axon_engine_encrypt \/ axon_engine_decrypt
    BY <2>8 DEF ClientFinishedArrives, Refused, axon_engine_encrypt, axon_engine_decrypt,
                Fails
  <2> QED
    BY <2>2, <2>3, <2>4, <2>5, <2>6, <2>7, <2>8 DEF Next, CallStep
<1> QED
  BY <1>1, Invariance, PTL DEF Spec, FailedCallDisarms

\* The two tables of state.c agree on every handshake, however often calls fail
\* in between: nothing the engine does from an accepted hello to the completed
\* handshake is missing from axon_state_is_valid_transition.
THEOREM TablesAgree == Spec => HandshakeKeepsToTable
<1> DEFINE Valid == axon_state_is_valid_transition(state, state')
           A == (pc \in Steps \/ state' = "HANDSHAKE_COMPLETE") /\ state' # state => Valid
<1>1. IInv /\ [Next]_vars => [A]_vars
  <2> SUFFICES ASSUME IInv, Next, pc \in Steps \/ state' = "HANDSHAKE_COMPLETE",
                      state' # state
               PROVE  Valid
    OBVIOUS
  <2>1. \A i \in 1..7 : axon_state_is_valid_transition(Ladder[i], Ladder[i + 1])
    BY DEF axon_state_is_valid_transition
  <2>2. /\ axon_state_is_valid_transition("WAITING_CLIENT_HELLO", "SENT_SERVER_HELLO")
        /\ axon_state_is_valid_transition("SENT_SERVER_HELLO", "SENT_ENCRYPTED_EXTENSIONS")
        /\ axon_state_is_valid_transition("SENT_ENCRYPTED_EXTENSIONS", "SENT_CERTIFICATE")
        /\ axon_state_is_valid_transition("SENT_CERTIFICATE", "SENT_CERTIFICATE_VERIFY")
        /\ axon_state_is_valid_transition("SENT_CERTIFICATE_VERIFY", "SENT_FINISHED")
        /\ axon_state_is_valid_transition("SENT_FINISHED", "HANDSHAKE_COMPLETE")
    BY <2>1 DEF Ladder
  <2>3. CASE axon_build_server_hello
    BY <2>2, <2>3, MachineSteps DEF axon_build_server_hello, MovesOn, IInv, CallOrder
  <2>4. CASE axon_build_encrypted_extensions
    BY <2>2, <2>4, MachineSteps DEF axon_build_encrypted_extensions, MovesOn, IInv, CallOrder
  <2>5. CASE axon_build_certificate
    BY <2>2, <2>5, MachineSteps DEF axon_build_certificate, MovesOn, IInv, CallOrder
  <2>6. CASE axon_build_certificate_verify
    BY <2>2, <2>6, MachineSteps DEF axon_build_certificate_verify, MovesOn, IInv, CallOrder
  <2>7. CASE axon_build_finished
    BY <2>2, <2>7 DEF axon_build_finished, IInv, CallOrder
  <2>8. CASE ClientFinishedArrives
    BY <2>2, <2>8, MachineSteps DEF ClientFinishedArrives, Steps
  <2>9. CASE generate_random_fails \/ axon_derive_handshake_keys \/ sha256_final_aborts
    BY <2>9 DEF generate_random_fails, axon_derive_handshake_keys, sha256_final_aborts,
                engineVars
  <2>10. CASE \/ axon_engine_create \/ axon_engine_destroy \/ axon_engine_reset
              \/ RejectRecord \/ RejectFragment \/ TakeHello
    BY <2>10, TakeHelloFacts DEF axon_engine_create, axon_engine_destroy,
       axon_engine_reset, RejectRecord, RejectFragment, engineVars, Steps
  <2>11. CASE \/ ClientFinishedAborts \/ Refused("encrypt") \/ Refused("decrypt")
              \/ axon_engine_encrypt \/ axon_engine_decrypt
    BY <2>11 DEF ClientFinishedAborts, Refused, axon_engine_encrypt,
       axon_engine_decrypt, engineVars
  <2> QED
    BY <2>3, <2>4, <2>5, <2>6, <2>7, <2>8, <2>9, <2>10, <2>11 DEF Next, CallStep
<1> QED
  BY <1>1, Invariance, PTL DEF Spec, HandshakeKeepsToTable

-------------------------------------------------------------------------------
(* What an accepted Finished proves *)

\* From the server hello on the context holds a random of its own, so a mac made
\* of nothing does not match.
RandomDrawn ==
  (pc \in Steps \ {"server_hello"} \/ state \in Keyed) => ctx.server_random # 0

\* RandomDrawn survives every step.
LEMMA RandomStep ==
  TypeOK /\ CallOrder /\ CallOrder' /\ RandomDrawn /\ [Next]_vars => RandomDrawn'
<1> SUFFICES ASSUME TypeOK, CallOrder, CallOrder', RandomDrawn, [Next]_vars
             PROVE  RandomDrawn'
  OBVIOUS
<1>0. ctx \in Context /\ calls \in Token /\ calls \in Nat /\ resetAt \in Nat
  BY BoundsAssumption DEF TypeOK, Token
<1>1. CASE UNCHANGED vars
  BY <1>1 DEF vars, engineVars, RandomDrawn
<1>2. CASE axon_engine_create \/ axon_engine_destroy \/ axon_engine_reset
  BY <1>2 DEF axon_engine_create, axon_engine_destroy, axon_engine_reset, engineVars,
              RandomDrawn, Keyed, Steps
<1>3. CASE RejectRecord \/ RejectFragment
  BY <1>3 DEF RejectRecord, RejectFragment, engineVars, RandomDrawn, Keyed, Steps
<1>4. CASE TakeHello
  BY <1>4, TakeHelloFacts DEF RandomDrawn, Keyed, Steps
<1>5. CASE axon_build_server_hello
  <2> DEFINE c == WithKeyExchange(ctx)
  <2>1. c \in Context /\ c.server_random = calls
    BY <1>0, ExchangeType DEF WithKeyExchange, Context
  <2> HIDE DEF c
  <2>2. KeyOf(ctx') = KeyOf(c)
    BY <1>5, <2>1, BuildsKeepsSecrets DEF axon_build_server_hello, c
  <2>3. ctx'.server_random = calls
    BY <2>1, <2>2 DEF KeyOf
  <2>4. calls > resetAt
    BY <1>0, <1>5 DEF axon_build_server_hello, CallOrder, Steps
  <2> QED
    BY <1>0, <2>3, <2>4 DEF RandomDrawn
<1>6. CASE generate_random_fails
  BY <1>6 DEF generate_random_fails, RandomDrawn, CallOrder, Keyed, Steps
<1>7. CASE \/ axon_build_encrypted_extensions \/ axon_build_certificate
           \/ axon_build_certificate_verify
  <2>1. KeyOf(ctx') = KeyOf(ctx)
    BY <1>0, <1>7, BuildsKeepsSecrets DEF axon_build_encrypted_extensions,
       axon_build_certificate, axon_build_certificate_verify
  <2> QED
    BY <1>7, <2>1 DEF axon_build_encrypted_extensions, axon_build_certificate,
       axon_build_certificate_verify, KeyOf, RandomDrawn, Steps
<1>8. CASE axon_derive_handshake_keys
  BY <1>0, <1>8 DEF axon_derive_handshake_keys, RandomDrawn, Steps, Context
<1>9. CASE axon_build_finished
  <2> DEFINE c == [ctx EXCEPT !.handshake_done = TRUE]
  <2>1. c \in Context /\ KeyOf(c) = KeyOf(ctx)
    BY <1>0 DEF Context, KeyOf
  <2>2. Builds("FINISHED", c, "idle")
    BY <1>9 DEF axon_build_finished
  <2> HIDE DEF c
  <2>3. KeyOf(ctx') = KeyOf(ctx)
    BY <2>1, <2>2, BuildsKeepsSecrets
  <2> QED
    BY <1>9, <2>3 DEF axon_build_finished, KeyOf, RandomDrawn, Steps
<1>10. CASE sha256_final_aborts \/ ClientFinishedAborts
  BY <1>10 DEF sha256_final_aborts, ClientFinishedAborts, engineVars, RandomDrawn, Steps
<1>11. CASE ClientFinishedArrives
  BY <1>0, <1>11 DEF ClientFinishedArrives, RandomDrawn, Keyed, Context
<1>12. CASE Refused("encrypt") \/ Refused("decrypt")
  BY <1>12 DEF Refused, engineVars, RandomDrawn
<1>13. CASE axon_engine_encrypt \/ axon_engine_decrypt
  BY <1>0, <1>13 DEF axon_engine_encrypt, axon_engine_decrypt, RandomDrawn, Context
<1> QED
  BY <1>1, <1>2, <1>3, <1>4, <1>5, <1>6, <1>7, <1>8, <1>9, <1>10, <1>11, <1>12, <1>13
  DEF Next, CallStep

\* Whoever was served before and whatever the buffer could not hold: once the
\* client's Finished is accepted, both sides agree (handshake.c:309-326).
THEOREM CompletionIsAgreement == Spec => []CompletionAgrees
<1>1. Init => CompletionAgrees /\ RandomDrawn
  BY DEF Init, CompletionAgrees, RandomDrawn, Keyed, Steps
<1>2. IInv /\ IInv' /\ RandomDrawn /\ CompletionAgrees /\ [Next]_vars => CompletionAgrees'
  <2> SUFFICES ASSUME IInv, IInv', RandomDrawn, CompletionAgrees, [Next]_vars,
                      state' = "HANDSHAKE_COMPLETE"
               PROVE  /\ ctx'.transcript = ClientTranscript'
                      /\ ctx'.master_secret = ClientKey'
                      /\ keys' = ClientKey'
    BY DEF CompletionAgrees
  <2>0. ctx \in Context /\ keys' = KeyOf(ctx') /\ ctx'.master_secret = KeyOf(ctx')
    BY DEF IInv, TypeOK, KeysFromDerivation, Keyed, Bound, KeyOf
  <2>1. CASE /\ UNCHANGED <<state, response, client, keys>>
             /\ ctx'.transcript = ctx.transcript
             /\ ctx'.master_secret = ctx.master_secret
    BY <2>1 DEF CompletionAgrees, ClientTranscript, ClientKey
  <2>2. CASE ClientFinishedArrives /\ state # "HANDSHAKE_COMPLETE"
    <3>1. PICK mac \in {NoFinished} \cup (IF ClientVerifies THEN {ClientFinished} ELSE {}) :
            axon_verify_finished(mac)
      BY <2>2 DEF ClientFinishedArrives
    <3>2. mac.key[2] = ctx.server_random
      BY <2>2, <3>1 DEF axon_verify_finished, ClientFinishedArrives, IInv,
         KeysFromDerivation, Keyed, Bound, KeyOf
    <3>3. ctx.server_random # 0
      BY <2>2 DEF ClientFinishedArrives, RandomDrawn, Keyed
    <3>4. mac # NoFinished
      BY <3>2, <3>3 DEF NoFinished, ZeroKey
    <3>5. mac = ClientFinished
      BY <3>1, <3>4
    <3>6. ctx.master_secret = ClientKey /\ ctx.transcript = ClientTranscript
      BY <3>1, <3>5 DEF axon_verify_finished, ClientFinished
    <3>7. /\ ctx'.transcript = ctx.transcript /\ ctx'.master_secret = ctx.master_secret
          /\ keys' = keys /\ UNCHANGED <<response, client>>
      BY <2>0, <2>2 DEF ClientFinishedArrives, Context, callVars
    <3> QED
      BY <2>0, <3>6, <3>7 DEF ClientKey, ClientTranscript
  <2>3. CASE \/ UNCHANGED vars \/ axon_engine_create \/ RejectRecord
             \/ sha256_final_aborts \/ ClientFinishedAborts
             \/ Refused("encrypt") \/ Refused("decrypt")
    BY <2>1, <2>3 DEF vars, engineVars, callVars, axon_engine_create, RejectRecord,
       sha256_final_aborts, ClientFinishedAborts, Refused
  <2>4. CASE axon_engine_encrypt \/ axon_engine_decrypt
    BY <2>0, <2>1, <2>4 DEF axon_engine_encrypt, axon_engine_decrypt, callVars, Context
  <2>5. CASE \/ axon_engine_destroy \/ axon_engine_reset \/ RejectFragment \/ TakeHello
             \/ generate_random_fails \/ axon_derive_handshake_keys
    BY <2>5, TakeHelloFacts DEF axon_engine_destroy, axon_engine_reset, RejectFragment,
       generate_random_fails, axon_derive_handshake_keys, IInv, CallOrder
  <2>6. CASE \/ axon_build_server_hello \/ axon_build_encrypted_extensions
             \/ axon_build_certificate \/ axon_build_certificate_verify
    BY <2>6, MachineSteps DEF axon_build_server_hello, axon_build_encrypted_extensions,
       axon_build_certificate, axon_build_certificate_verify, MovesOn, IInv, CallOrder
  <2>7. CASE axon_build_finished
    BY <2>7 DEF axon_build_finished
  <2>8. ClientFinishedArrives => state # "HANDSHAKE_COMPLETE"
    BY DEF ClientFinishedArrives
  <2> QED
    BY <2>2, <2>3, <2>4, <2>5, <2>6, <2>7, <2>8 DEF Next, CallStep
<1>3. IInv /\ IInv' /\ RandomDrawn /\ [Next]_vars => RandomDrawn'
  BY RandomStep DEF IInv
<1> QED
  BY <1>1, <1>2, <1>3, Invariance, PTL DEF Spec

-------------------------------------------------------------------------------
(* What a reset leaves *)

\* ResetForgetsClients of any context.
Newer(n, at) == n = 0 \/ n > at

Clean(c, at) ==
  /\ Newer(c.client_random, at) /\ Newer(c.server_random, at)
  /\ Newer(c.client_pubkey, at) /\ Newer(c.shared_secret, at)
  /\ \A i \in 1..3 : Newer(c.master_secret[i], at)
  /\ \A i \in 1..Len(c.transcript) : c.transcript[i][2] > at

\* A message of a call made since the reset keeps the context clean.
LEMMA UpdateClean ==
  ASSUME NEW c \in Context, Clean(c, resetAt), NEW msg \in Messages, NEW n \in Token,
         NEW len \in Nat, resetAt \in Nat, n > resetAt
  PROVE  Clean(axon_context_update_hash(c, msg, n, len), resetAt)
<1>1. CASE ~(len > 0 /\ c.buffer_offset + len <= BufferSize)
  BY <1>1 DEF axon_context_update_hash
<1>2. CASE len > 0 /\ c.buffer_offset + len <= BufferSize
  <2> DEFINE d == Kept(c, msg, n, len)
             t == c.transcript
  <2>1. /\ d.client_random = c.client_random /\ d.server_random = c.server_random
        /\ d.client_pubkey = c.client_pubkey /\ d.shared_secret = c.shared_secret
        /\ d.master_secret = c.master_secret
        /\ d.buffer_offset = c.buffer_offset + len
        /\ d.transcript = Append(t, <<msg, n, len>>)
    BY DEF Kept, Context
  <2>2. t \in Seq(Entry3)
    BY DEF Context
  <2> HIDE DEF d, t
  <2>3. \A i \in 1..Len(d.transcript) : d.transcript[i][2] > resetAt
    <3> SUFFICES ASSUME NEW i \in 1..Len(d.transcript)
                 PROVE  d.transcript[i][2] > resetAt
      OBVIOUS
    <3>1. CASE i = Len(t) + 1
      BY <2>1, <2>2, <3>1
    <3>2. CASE i # Len(t) + 1
      <4>1. i \in 1..Len(t) /\ d.transcript[i] = t[i]
        BY <2>1, <2>2, <3>2
      <4> QED
        BY <4>1 DEF Clean, t
    <3> QED
      BY <3>1, <3>2
  <2>4. Clean(d, resetAt)
    BY <1>2, <2>1, <2>3 DEF Clean
  <2> QED
    BY <1>2, <2>4 DEF axon_context_update_hash, d
<1> QED
  BY <1>1, <1>2

\* So does a builder.
LEMMA BuildsClean ==
  ASSUME TypeOK, NEW c \in Context, Clean(c, resetAt), NEW msg \in Messages \ {"CLIENT_HELLO"},
         NEW next, Builds(msg, c, next), resetAt \in Nat, calls > resetAt
  PROVE  Clean(ctx', resetAt)
<1> DEFINE d == [c EXCEPT !.messages_received = @ \cup {msg}]
<1>1. d \in Context /\ Clean(d, resetAt)
  BY DEF Context, Clean
<1>2. MessageLen[msg] \in Nat
  BY DEF MessageLen, Messages
<1> HIDE DEF d
<1>3. Clean(axon_context_update_hash(d, msg, calls, MessageLen[msg]), resetAt)
  BY <1>1, <1>2, UpdateClean DEF TypeOK
<1> QED
  BY <1>3 DEF Builds, d

\* What every step does to the context.
LEMMA CleanStep ==
  TypeOK /\ CallOrder /\ Clean(ctx, resetAt) /\ [Next]_vars => Clean(ctx', resetAt')
<1> SUFFICES ASSUME TypeOK, CallOrder, Clean(ctx, resetAt), [Next]_vars
             PROVE  Clean(ctx', resetAt')
  OBVIOUS
<1>0. ctx \in Context /\ calls \in Token /\ calls \in Nat /\ resetAt \in Nat
  BY BoundsAssumption DEF TypeOK, Token
<1>1. CASE ctx' = ctx /\ resetAt' = resetAt
  BY <1>1
<1>2. CASE \/ UNCHANGED vars \/ axon_engine_create \/ RejectRecord \/ RejectFragment
           \/ sha256_final_aborts \/ ClientFinishedAborts
           \/ Refused("encrypt") \/ Refused("decrypt")
  BY <1>1, <1>2 DEF vars, engineVars, axon_engine_create, RejectRecord, RejectFragment,
     sha256_final_aborts, ClientFinishedAborts, Refused
<1>3. CASE axon_engine_destroy \/ axon_engine_reset
  <2>1. ctx' = [WipedContext EXCEPT !.cipher_suite = "AES_128_GCM"]
    BY <1>3 DEF axon_engine_destroy, axon_engine_reset, axon_context_init
  <2>2. /\ ctx'.client_random = 0 /\ ctx'.server_random = 0 /\ ctx'.client_pubkey = 0
        /\ ctx'.shared_secret = 0 /\ ctx'.master_secret = ZeroKey
        /\ ctx'.transcript = <<>> /\ ctx'.buffer_offset = 0
    BY <2>1 DEF WipedContext
  <2>3. Len(ctx'.transcript) = 0
    BY <2>2
  <2> QED
    BY <2>2, <2>3, BufferAssumption DEF Clean, Newer, ZeroKey
<1>4. CASE TakeHello
  <2>1. PICK r \in Records, b \in BehindSet :
          ctx' = AfterHello(ctx, r, calls + 1, axon_parse_client_hello(r.hello, b))
    BY <1>4 DEF TakeHello
  <2> DEFINE p == axon_parse_client_hello(r.hello, b)
             n == calls + 1
             random == IF p.random THEN n ELSE ctx.client_random
             pubkey == IF p.share THEN n ELSE ctx.client_pubkey
             suite  == IF p.suite = NoSuite THEN ctx.cipher_suite ELSE p.suite
             bits   == IF p.ok THEN ctx.messages_received \cup {"CLIENT_HELLO"}
                               ELSE ctx.messages_received
             d == [ctx EXCEPT !.client_random = random, !.client_pubkey = pubkey,
                              !.cipher_suite = suite, !.messages_received = bits]
  <2>2. n \in Token /\ n \in Nat /\ n > resetAt /\ resetAt' = resetAt
    BY <1>0, <1>4, BoundsAssumption DEF TakeHello, CallOrder, Token
  <2>3. p.suite \in SupportedSuites \cup {NoSuite}
    BY ParserType
  <2>4. r.hello.len \in Nat
    <3>1. r.hello \in Hello
      BY RecordsAssumption DEF Record
    <3> QED
      BY <3>1 DEF Hello
  <2>5. random \in Token /\ pubkey \in Token /\ Newer(random, resetAt) /\ Newer(pubkey, resetAt)
    BY <1>0, <2>2 DEF Context, Clean, Newer
  <2>6. suite \in Suites \cup {"NULL"} /\ bits \in SUBSET Messages
    BY <1>0, <2>3 DEF Context, Suites, Messages
  <2>7. ctx' = axon_context_update_hash(d, "CLIENT_HELLO", n, r.hello.len)
    BY <2>1 DEF AfterHello
  <2> HIDE DEF random, pubkey, suite, bits, p, n
  <2>8. /\ d \in Context /\ d.client_random = random /\ d.client_pubkey = pubkey
        /\ d.server_random = ctx.server_random /\ d.shared_secret = ctx.shared_secret
        /\ d.master_secret = ctx.master_secret /\ d.transcript = ctx.transcript
        /\ d.buffer_offset = ctx.buffer_offset
    BY <1>0, <2>5, <2>6 DEF Context
  <2> HIDE DEF d
  <2>9. Clean(d, resetAt)
    BY <2>5, <2>8 DEF Clean
  <2> QED
    BY <1>0, <2>2, <2>4, <2>7, <2>8, <2>9, UpdateClean DEF Messages
<1>5. CASE axon_build_server_hello
  <2> DEFINE c == WithKeyExchange(ctx)
  <2>1. c \in Context /\ calls > resetAt
    BY <1>0, <1>5, ExchangeType DEF axon_build_server_hello, CallOrder, Steps
  <2>2. /\ c.client_random = ctx.client_random /\ c.server_random = calls
        /\ c.client_pubkey = ctx.client_pubkey /\ c.shared_secret = ctx.client_pubkey
        /\ c.master_secret = ctx.master_secret /\ c.transcript = ctx.transcript
        /\ c.buffer_offset = ctx.buffer_offset
    BY <1>0 DEF WithKeyExchange, Context
  <2> HIDE DEF c
  <2>3. Clean(c, resetAt)
    BY <2>1, <2>2 DEF Clean, Newer
  <2> QED
    BY <1>0, <1>5, <2>1, <2>3, BuildsClean DEF axon_build_server_hello, Messages, c
<1>6. CASE generate_random_fails
  <2>1. PICK drawn \in {ctx.server_random, calls} :
          ctx' = [ctx EXCEPT !.server_random = drawn]
    BY <1>6 DEF generate_random_fails
  <2>2. Newer(drawn, resetAt) /\ resetAt' = resetAt
    BY <1>0, <1>6 DEF generate_random_fails, CallOrder, Steps, Clean, Newer
  <2> QED
    BY <1>0, <2>1, <2>2 DEF Clean, Context
<1>7. CASE axon_derive_handshake_keys
  <2>1. ctx' = [ctx EXCEPT !.master_secret = KeyOf(ctx)] /\ resetAt' = resetAt
    BY <1>7 DEF axon_derive_handshake_keys
  <2>2. \A i \in 1..3 : Newer(KeyOf(ctx)[i], resetAt)
    <3>1. \A i \in 1..3 : i = 1 \/ i = 2 \/ i = 3
      OBVIOUS
    <3> QED
      BY <3>1 DEF KeyOf, Clean
  <2> QED
    BY <1>0, <2>1, <2>2 DEF Clean, Context
<1>8. CASE \/ axon_build_encrypted_extensions \/ axon_build_certificate
           \/ axon_build_certificate_verify
  BY <1>0, <1>8, BuildsClean DEF axon_build_encrypted_extensions, axon_build_certificate,
     axon_build_certificate_verify, CallOrder, Steps, Messages
<1>9. CASE axon_build_finished
  <2> DEFINE c == [ctx EXCEPT !.handshake_done = TRUE]
  <2>1. c \in Context /\ Clean(c, resetAt)
    BY <1>0 DEF Context, Clean
  <2>2. /\ Builds("FINISHED", c, "idle") /\ resetAt' = resetAt /\ calls > resetAt
    BY <1>0, <1>9 DEF axon_build_finished, CallOrder, Steps
  <2> HIDE DEF c
  <2> QED
    BY <1>0, <2>1, <2>2, BuildsClean DEF Messages
<1>10. CASE ClientFinishedArrives
  <2>1. resetAt' = resetAt /\ ctx' \in {ctx, [ctx EXCEPT !.handshake_done = TRUE]}
    BY <1>10 DEF ClientFinishedArrives
  <2> QED
    BY <1>0, <2>1 DEF Clean, Context
<1>11. CASE axon_engine_encrypt \/ axon_engine_decrypt
  <2>1. /\ resetAt' = resetAt
        /\ ctx' \in {ctx, [ctx EXCEPT !.sequence_number = @ + 1]}
    BY <1>11 DEF axon_engine_encrypt, axon_engine_decrypt
  <2> QED
    BY <1>0, <2>1 DEF Clean, Context
<1> QED
  BY <1>2, <1>3, <1>4, <1>5, <1>6, <1>7, <1>8, <1>9, <1>10, <1>11 DEF Next, CallStep

\* Cleanliness is invariant.
LEMMA CleanInvariance == Spec => []Clean(ctx, resetAt)
<1>1. Init => Clean(ctx, resetAt)
  <2> SUFFICES ASSUME Init PROVE Clean(ctx, resetAt)
    OBVIOUS
  <2>1. ctx = [WipedContext EXCEPT !.cipher_suite = "AES_128_GCM"]
    BY DEF Init, axon_context_init
  <2>2. /\ ctx.client_random = 0 /\ ctx.server_random = 0 /\ ctx.client_pubkey = 0
        /\ ctx.shared_secret = 0 /\ ctx.master_secret = ZeroKey
        /\ ctx.transcript = <<>> /\ ctx.buffer_offset = 0
    BY <2>1 DEF WipedContext
  <2>3. Len(ctx.transcript) = 0
    BY <2>2
  <2> QED
    BY <2>2, <2>3, BufferAssumption DEF Clean, Newer, ZeroKey
<1>2. IInv /\ Clean(ctx, resetAt) /\ [Next]_vars => Clean(ctx, resetAt)'
  BY CleanStep DEF IInv
<1> QED
  BY <1>1, <1>2, Invariance, PTL DEF Spec

\* After axon_engine_reset (main.c:155-162) nothing in the context is older than
\* the reset, whatever calls follow and wherever they fail.
THEOREM ResetForgets == Spec => []ResetForgetsClients
<1>1. Clean(ctx, resetAt) => ResetForgetsClients
  BY DEF Clean, Newer, ResetForgetsClients, Since
<1> QED
  BY <1>1, CleanInvariance, PTL

-------------------------------------------------------------------------------
(* States and messages *)

\* What has been sent in each state.
LEMMA SentSets ==
  /\ SentUpTo("WAITING_CLIENT_HELLO") = {"CLIENT_HELLO"}
  /\ SentUpTo("SENT_SERVER_HELLO") = SentUpTo("WAITING_CLIENT_HELLO") \cup {"SERVER_HELLO"}
  /\ SentUpTo("SENT_ENCRYPTED_EXTENSIONS")
       = SentUpTo("SENT_SERVER_HELLO") \cup {"ENCRYPTED_EXTENSIONS"}
  /\ SentUpTo("SENT_CERTIFICATE") = SentUpTo("SENT_ENCRYPTED_EXTENSIONS") \cup {"CERTIFICATE"}
  /\ SentUpTo("SENT_CERTIFICATE_VERIFY")
       = SentUpTo("SENT_CERTIFICATE") \cup {"CERTIFICATE_VERIFY"}
  /\ SentUpTo("SENT_FINISHED") = SentUpTo("SENT_CERTIFICATE_VERIFY") \cup {"FINISHED"}
  /\ SentUpTo("SENT_FINISHED") = Messages
  /\ \A s \in {"INIT", "ALERT_SENT", "ERROR", "HANDSHAKE_COMPLETE"} : SentUpTo(s) = {}
<1> DEFINE order == <<"WAITING_CLIENT_HELLO", "SENT_SERVER_HELLO",
                      "SENT_ENCRYPTED_EXTENSIONS", "SENT_CERTIFICATE",
                      "SENT_CERTIFICATE_VERIFY", "SENT_FINISHED">>
           bits  == <<"CLIENT_HELLO", "SERVER_HELLO", "ENCRYPTED_EXTENSIONS",
                      "CERTIFICATE", "CERTIFICATE_VERIFY", "FINISHED">>
<1>1. ASSUME NEW k \in 1..6
      PROVE  SentUpTo(order[k]) = {bits[i] : i \in 1..k}
  <2>1. \A j \in 1..6 : (\E l \in j..6 : order[k] = order[l]) <=> j <= k
    OBVIOUS
  <2> QED BY <2>1 DEF SentUpTo
<1>2. \A s \in {"INIT", "ALERT_SENT", "ERROR", "HANDSHAKE_COMPLETE"} : SentUpTo(s) = {}
  BY DEF SentUpTo
<1> QED BY <1>1, <1>2 DEF Messages

\* A refused hello leaves the bits alone, an accepted one sets its own.
LEMMA HelloBits ==
  ASSUME TypeOK, TakeHello
  PROVE  \/ state' = "WAITING_CLIENT_HELLO" /\ "CLIENT_HELLO" \in ctx'.messages_received
         \/ state' = "ALERT_SENT"
<1>1. PICK r \in Records, b \in BehindSet :
        LET p == axon_parse_client_hello(r.hello, b)
        IN  /\ ctx' = AfterHello(ctx, r, calls + 1, p)
            /\ state' = StateAfterHello(p)
  BY DEF TakeHello
<1> DEFINE p == axon_parse_client_hello(r.hello, b)
           c == [ctx EXCEPT
                   !.client_random = IF p.random THEN calls + 1 ELSE @,
                   !.client_pubkey = IF p.share THEN calls + 1 ELSE @,
                   !.cipher_suite  = IF p.suite = NoSuite THEN @ ELSE p.suite,
                   !.messages_received = IF p.ok THEN @ \cup {"CLIENT_HELLO"} ELSE @]
<1>2. /\ ctx' = axon_context_update_hash(c, "CLIENT_HELLO", calls + 1, r.hello.len)
      /\ state' = StateAfterHello(p)
  BY <1>1 DEF AfterHello
<1>3. p.ok => "CLIENT_HELLO" \in c.messages_received
  BY DEF TypeOK, Context
<1>4. DOMAIN c = DOMAIN ctx /\ ctx \in Context
  BY DEF TypeOK
<1> HIDE DEF p, c
<1>5. ctx'.messages_received = c.messages_received
  BY <1>2, <1>4 DEF axon_context_update_hash, Kept, Context
<1> QED
  BY <1>2, <1>3, <1>5, MachineSteps DEF StateAfterHello

\* A builder adds its message to what has been sent.
LEMMA BuildsSends ==
  ASSUME TypeOK, NEW c \in Context, NEW msg, NEW next, Builds(msg, c, next),
         SentUpTo(state) \subseteq c.messages_received,
         SentUpTo(state') = SentUpTo(state) \cup {msg}
  PROVE  SentUpTo(state') \subseteq ctx'.messages_received
  BY BuildsKeepsSecrets

\* The bits keep up with the state at every step.
LEMMA MessagesStep ==
  IInv /\ IInv' /\ StateMatchesMessages /\ [Next]_vars => StateMatchesMessages'
<1> SUFFICES ASSUME IInv, IInv', StateMatchesMessages, [Next]_vars
             PROVE  StateMatchesMessages'
  OBVIOUS
<1> USE SentSets
<1>0. ctx \in Context /\ ctx' \in Context /\ TypeOK /\ CallOrder
  BY DEF IInv, TypeOK
<1>a. ASSUME state' \in {"INIT", "ALERT_SENT"} PROVE StateMatchesMessages'
  BY <1>a DEF StateMatchesMessages
<1>b. ASSUME state' = state, ctx'.messages_received = ctx.messages_received,
             ctx'.handshake_done = ctx.handshake_done
      PROVE  StateMatchesMessages'
  BY <1>b DEF StateMatchesMessages
<1>1. CASE UNCHANGED vars \/ axon_engine_create \/ RejectRecord
  BY <1>1, <1>b DEF vars, engineVars, axon_engine_create, RejectRecord
<1>2. CASE axon_engine_destroy \/ axon_engine_reset \/ RejectFragment
  BY <1>2, <1>a DEF axon_engine_destroy, axon_engine_reset, RejectFragment
<1>3. CASE TakeHello
  <2>1. CASE state' = "ALERT_SENT"
    BY <2>1, <1>a
  <2>2. CASE state' = "WAITING_CLIENT_HELLO" /\ "CLIENT_HELLO" \in ctx'.messages_received
    BY <2>2 DEF StateMatchesMessages
  <2> QED BY <1>0, <1>3, <2>1, <2>2, HelloBits
<1>4. CASE axon_build_server_hello
  <2>1. WithKeyExchange(ctx) \in Context
    BY <1>0, ExchangeType DEF TypeOK
  <2>2. WithKeyExchange(ctx).messages_received = ctx.messages_received
    BY <1>0 DEF WithKeyExchange, Context
  <2>3. state = "WAITING_CLIENT_HELLO" /\ state' = "SENT_SERVER_HELLO"
    BY <1>0, <1>4, MachineSteps DEF axon_build_server_hello, MovesOn, CallOrder
  <2>4. Builds("SERVER_HELLO", WithKeyExchange(ctx), "encrypted_extensions")
    BY <1>4 DEF axon_build_server_hello
  <2>5. SentUpTo(state') \subseteq ctx'.messages_received
    BY <1>0, <2>1, <2>2, <2>3, <2>4, BuildsSends DEF StateMatchesMessages
  <2> QED BY <2>3, <2>5 DEF StateMatchesMessages
<1>5. CASE axon_build_encrypted_extensions
  <2>1. state = "SENT_SERVER_HELLO" /\ state' = "SENT_ENCRYPTED_EXTENSIONS"
    BY <1>0, <1>5, MachineSteps DEF axon_build_encrypted_extensions, MovesOn, CallOrder
  <2>2. SentUpTo(state') \subseteq ctx'.messages_received
    BY <1>0, <1>5, <2>1, BuildsSends DEF axon_build_encrypted_extensions, StateMatchesMessages
  <2> QED BY <2>1, <2>2 DEF StateMatchesMessages
<1>6. CASE axon_build_certificate
  <2>1. state = "SENT_ENCRYPTED_EXTENSIONS" /\ state' = "SENT_CERTIFICATE"
    BY <1>0, <1>6, MachineSteps DEF axon_build_certificate, MovesOn, CallOrder
  <2>2. SentUpTo(state') \subseteq ctx'.messages_received
    BY <1>0, <1>6, <2>1, BuildsSends DEF axon_build_certificate, StateMatchesMessages
  <2> QED BY <2>1, <2>2 DEF StateMatchesMessages
<1>7. CASE axon_build_certificate_verify
  <2>1. state = "SENT_CERTIFICATE" /\ state' = "SENT_CERTIFICATE_VERIFY"
    BY <1>0, <1>7, MachineSteps DEF axon_build_certificate_verify, MovesOn, CallOrder
  <2>2. SentUpTo(state') \subseteq ctx'.messages_received
    BY <1>0, <1>7, <2>1, BuildsSends DEF axon_build_certificate_verify, StateMatchesMessages
  <2> QED BY <2>1, <2>2 DEF StateMatchesMessages
<1>8. CASE axon_build_finished
  <2> DEFINE c == [ctx EXCEPT !.handshake_done = TRUE]
  <2>1. /\ c \in Context /\ c.handshake_done = TRUE
        /\ c.messages_received = ctx.messages_received
    BY <1>0 DEF Context
  <2>2. Builds("FINISHED", c, "idle")
    BY <1>8 DEF axon_build_finished
  <2>3. state = "SENT_CERTIFICATE_VERIFY" /\ state' = "SENT_FINISHED"
    BY <1>0, <1>8 DEF axon_build_finished, CallOrder
  <2> HIDE DEF c
  <2>4. SentUpTo(state') \subseteq ctx'.messages_received
    BY <1>0, <2>1, <2>2, <2>3, BuildsSends DEF StateMatchesMessages
  <2>5. ctx'.handshake_done = TRUE
    BY <1>0, <2>1, <2>2, BuildsKeepsSecrets
  <2> QED BY <2>3, <2>4, <2>5 DEF StateMatchesMessages
<1>9. CASE generate_random_fails
  BY <1>0, <1>9, <1>b DEF generate_random_fails, Context
<1>10. CASE axon_derive_handshake_keys
  BY <1>0, <1>10, <1>b DEF axon_derive_handshake_keys, Context
<1>11. CASE \/ sha256_final_aborts \/ ClientFinishedAborts
            \/ Refused("encrypt") \/ Refused("decrypt")
  BY <1>11, <1>b DEF sha256_final_aborts, ClientFinishedAborts, Refused, engineVars
<1>12. CASE ClientFinishedArrives
  <2>1. CASE UNCHANGED <<ctx, state>>
    BY <2>1, <1>b
  <2>2. CASE ctx' = [ctx EXCEPT !.handshake_done = TRUE]
             /\ state' = axon_state_machine(state, "FINISHED")
    <3>1. state = "SENT_FINISHED" /\ state' = "HANDSHAKE_COMPLETE"
      BY <1>12, <2>2, MachineSteps DEF ClientFinishedArrives
    <3>2. ctx'.handshake_done = TRUE /\ ctx'.messages_received = ctx.messages_received
      BY <1>0, <2>2 DEF Context
    <3>3. ctx.messages_received \subseteq Messages
      BY <1>0 DEF Context
    <3> QED BY <3>1, <3>2, <3>3 DEF StateMatchesMessages
  <2> QED BY <1>12, <2>1, <2>2 DEF ClientFinishedArrives
<1>13. CASE axon_engine_encrypt \/ axon_engine_decrypt
  <2>1. /\ ctx'.messages_received = ctx.messages_received
        /\ ctx'.handshake_done = ctx.handshake_done
    BY <1>0, <1>13 DEF axon_engine_encrypt, axon_engine_decrypt, Context
  <2> QED BY <1>13, <2>1, <1>b DEF axon_engine_encrypt, axon_engine_decrypt
<1> QED
  BY <1>1, <1>2, <1>3, <1>4, <1>5, <1>6, <1>7, <1>8, <1>9, <1>10, <1>11, <1>12, <1>13
  DEF Next, CallStep

\* The state never claims a message that has no bit, through failed calls,
\* resets and the state that main.c:125 sets by hand.
THEOREM MessagesKeepUp == Spec => []StateMatchesMessages
<1>1. Init => StateMatchesMessages
  BY SentSets DEF Init, StateMatchesMessages
<1> QED
  BY <1>1, MessagesStep, Invariance, PTL DEF Spec

-------------------------------------------------------------------------------
(* The service *)

Written(n) == Len(response) = n /\ \A i \in 1..n : response[i][1] = Service!Flight[i]

\* How much of the flight the response holds at each step of a call.
FlightSoFar ==
  /\ pc = "server_hello" => Written(0)
  /\ pc = "encrypted_extensions" => Written(1)
  /\ pc \in {"derive", "certificate"} => Written(2)
  /\ pc = "certificate_verify" => Written(3)
  /\ pc = "finished" => Written(4)

Names == [i \in 1..Len(response) |-> response[i][1]]

ServiceNext == [Service!Next]_(Service!vars)

\* A builder adds its message to the names, and the next step finds it there.
LEMMA BuildsWrites ==
  ASSUME TypeOK, NEW n \in 0..4, Written(n), NEW c, NEW next,
         Builds(Service!Flight[n + 1], c, next)
  PROVE  /\ Written(n + 1)' /\ pc' = next
         /\ Len(Names) = n /\ Names' = Append(Names, Service!Flight[n + 1])
<1> DEFINE msg == Service!Flight[n + 1]
           e == <<msg, calls, MessageLen[msg]>>
<1>1. response \in Seq(Entry3) /\ Len(response) = n
  BY DEF TypeOK, Written
<1>2. response' = Append(response, e) /\ pc' = next
  BY DEF Builds
<1>3. e[1] = msg
  OBVIOUS
<1> HIDE DEF msg, e
<1>4. Len(response') = n + 1 /\ \A i \in 1..(n + 1) :
        response'[i] = IF i = n + 1 THEN e ELSE response[i]
  BY <1>1, <1>2
<1>5. Written(n + 1)'
  <2>1. ASSUME NEW i \in 1..(n + 1) PROVE response'[i][1] = Service!Flight[i]
    BY <1>3, <1>4 DEF Written, msg
  <2> QED BY <1>4, <2>1 DEF Written, Service!Flight
<1>6. Names' = Append(Names, msg)
  <2>1. Names \in Seq({response[i][1] : i \in 1..n}) /\ Len(Names) = n
    BY <1>1 DEF Names
  <2>2. Len(Append(Names, msg)) = n + 1 /\ \A i \in 1..(n + 1) :
          Append(Names, msg)[i] = IF i = n + 1 THEN msg ELSE Names[i]
    BY <2>1
  <2>3. Names' = [i \in 1..(n + 1) |-> response'[i][1]]
    BY <1>4 DEF Names
  <2>4. \A i \in 1..(n + 1) : response'[i][1] = Append(Names, msg)[i]
    BY <1>1, <1>3, <1>4, <2>2 DEF Names
  <2> DEFINE T == {response[i][1] : i \in 1..n} \cup {msg}
  <2>5. Append(Names, msg) \in Seq(T)
    <3>1. Names \in Seq(T)
      BY <2>1
    <3> QED BY <3>1
  <2>6. Names' \in Seq(T) /\ Len(Names') = n + 1
    <3>1. \A i \in 1..(n + 1) : response'[i][1] \in T
      BY <1>3, <1>4
    <3> QED BY <2>3, <3>1
  <2>7. \A i \in 1..(n + 1) : Names'[i] = Append(Names, msg)[i]
    BY <2>3, <2>4
  <2> HIDE DEF T
  <2> QED BY <2>2, <2>5, <2>6, <2>7, SeqEqual
<1> QED BY <1>1, <1>2, <1>5, <1>6 DEF Names, msg

\* Between two steps of a call, a message more.
LEMMA IsWrite ==
  ASSUME pc \in Steps, pc' \in Steps, NEW n \in 0..3, Len(Names) = n,
         Names' = Append(Names, Service!Flight[n + 1]), resp_len' = resp_len
  PROVE  Service!Write
<1>1. Len(Service!Flight) = 5
  BY DEF Service!Flight
<1>2. /\ Len(Names) < Len(Service!Flight) - 1
      /\ Names' = Append(Names, Service!Flight[Len(Names) + 1])
  BY <1>1
<1>3. /\ (IF pc \in Steps THEN "serving" ELSE "idle") = "serving"
      /\ (IF pc \in Steps THEN "serving" ELSE "idle")' = "serving"
  OBVIOUS
<1> QED BY <1>2, <1>3, Zenon DEF Service!Write, Names

\* Between calls an answer is withdrawn, or nothing changes.
LEMMA IsWithdrawal ==
  ASSUME pc \notin Steps, pc' \notin Steps, Names' = Names \/ Names' = <<>>,
         resp_len' = 0 \/ (resp_len' = resp_len /\ Names' = Names)
  PROVE  Service!Withdraw \/ UNCHANGED Service!vars
<1>1. CASE resp_len' = 0
  BY <1>1 DEF Service!Withdraw, Names
<1>2. CASE resp_len' = resp_len /\ Names' = Names
  BY <1>2 DEF Service!vars, Names
<1> QED BY <1>1, <1>2

\* No response has no names.
LEMMA NothingWritten ==
  ASSUME response' = <<>> PROVE Names' = <<>> /\ Written(0)'
  BY DEF Names, Written

\* Every step of the engine is one of the service or none.
LEMMA ServiceStep ==
  IInv /\ IInv' /\ FlightSoFar /\ [Next]_vars => FlightSoFar' /\ ServiceNext
<1> SUFFICES ASSUME IInv, IInv', FlightSoFar, [Next]_vars
             PROVE  FlightSoFar' /\ ServiceNext
  OBVIOUS
<1>0. TypeOK /\ ctx \in Context /\ CallOrder
  BY DEF IInv, TypeOK
<1>f. /\ Service!Flight[1] = "SERVER_HELLO" /\ Service!Flight[2] = "ENCRYPTED_EXTENSIONS"
      /\ Service!Flight[3] = "CERTIFICATE" /\ Service!Flight[4] = "CERTIFICATE_VERIFY"
      /\ Service!Flight[5] = "FINISHED"
  BY DEF Service!Flight
<1>a. ASSUME pc' \notin Steps PROVE FlightSoFar'
  BY <1>a DEF FlightSoFar, Steps
<1>b. ASSUME pc \notin Steps, pc' \notin Steps, Names' = Names \/ Names' = <<>>,
             resp_len' = 0 \/ (resp_len' = resp_len /\ Names' = Names)
      PROVE  FlightSoFar' /\ ServiceNext
  BY <1>a, <1>b, IsWithdrawal DEF ServiceNext, Service!Next
<1>c. ASSUME response' = response PROVE Names' = Names
  BY <1>c DEF Names
<1>1. CASE UNCHANGED vars
  <2>1. pc' = pc /\ response' = response /\ resp_len' = resp_len
    BY <1>1 DEF vars, callVars
  <2>2. UNCHANGED Service!vars
    BY <2>1 DEF Service!vars
  <2>3. FlightSoFar'
    BY <2>1 DEF FlightSoFar, Written
  <2> QED BY <2>2, <2>3 DEF ServiceNext
<1>2. CASE axon_engine_create \/ axon_engine_reset
  BY <1>2, <1>b, <1>c DEF axon_engine_create, axon_engine_reset, callVars, Steps
<1>3. CASE axon_engine_destroy \/ RejectRecord \/ RejectFragment
  BY <1>3, <1>b, <1>c, NothingWritten
  DEF axon_engine_destroy, RejectRecord, RejectFragment, Called, Steps
<1>4. CASE TakeHello
  <2>1. response' = <<>> /\ resp_len' = 0
    BY <1>4 DEF TakeHello, Called
  <2>2. pc = "idle" /\ pc' \in {"idle", "server_hello"}
    BY <1>4, TakeHelloFacts
  <2>3. CASE pc' = "idle"
    BY <2>1, <2>2, <2>3, <1>b, NothingWritten DEF Steps
  <2>4. CASE pc' = "server_hello"
    <3>1. Service!Accept
      BY <2>1, <2>2, <2>4, NothingWritten DEF Service!Accept, Names, Steps
    <3>2. FlightSoFar'
      BY <2>1, <2>4, NothingWritten DEF FlightSoFar
    <3> QED BY <3>1, <3>2 DEF ServiceNext, Service!Next
  <2> QED BY <2>2, <2>3, <2>4
<1>5. CASE axon_build_server_hello
  <2>1. Written(0) /\ pc \in Steps /\ resp_len' = resp_len
    BY <1>5 DEF axon_build_server_hello, FlightSoFar, Steps
  <2>2. Builds(Service!Flight[0 + 1], WithKeyExchange(ctx), "encrypted_extensions")
    BY <1>5, <1>f DEF axon_build_server_hello
  <2>3. /\ Written(1)' /\ pc' = "encrypted_extensions"
        /\ Len(Names) = 0 /\ Names' = Append(Names, Service!Flight[0 + 1])
    BY <1>0, <2>1, <2>2, BuildsWrites
  <2>4. Service!Write
    BY <2>1, <2>3, IsWrite DEF Steps
  <2> QED BY <2>3, <2>4 DEF FlightSoFar, ServiceNext, Service!Next
<1>6. CASE axon_build_encrypted_extensions
  <2>1. Written(1) /\ pc \in Steps /\ resp_len' = resp_len
    BY <1>6 DEF axon_build_encrypted_extensions, FlightSoFar, Steps
  <2>2. Builds(Service!Flight[1 + 1], ctx, "derive")
    BY <1>6, <1>f DEF axon_build_encrypted_extensions
  <2>3. /\ Written(2)' /\ pc' = "derive"
        /\ Len(Names) = 1 /\ Names' = Append(Names, Service!Flight[1 + 1])
    BY <1>0, <2>1, <2>2, BuildsWrites
  <2>4. Service!Write
    BY <2>1, <2>3, IsWrite DEF Steps
  <2> QED BY <2>3, <2>4 DEF FlightSoFar, ServiceNext, Service!Next
<1>7. CASE axon_derive_handshake_keys
  <2>1. /\ pc = "derive" /\ pc' = "certificate"
        /\ response' = response /\ resp_len' = resp_len
    BY <1>7 DEF axon_derive_handshake_keys, callVars
  <2>2. UNCHANGED Service!vars
    BY <2>1 DEF Service!vars, Steps
  <2>3. FlightSoFar'
    BY <2>1 DEF FlightSoFar, Written
  <2> QED BY <2>2, <2>3 DEF ServiceNext
<1>8. CASE axon_build_certificate
  <2>1. Written(2) /\ pc \in Steps /\ resp_len' = resp_len
    BY <1>8 DEF axon_build_certificate, FlightSoFar, Steps
  <2>2. Builds(Service!Flight[2 + 1], ctx, "certificate_verify")
    BY <1>8, <1>f DEF axon_build_certificate
  <2>3. /\ Written(3)' /\ pc' = "certificate_verify"
        /\ Len(Names) = 2 /\ Names' = Append(Names, Service!Flight[2 + 1])
    BY <1>0, <2>1, <2>2, BuildsWrites
  <2>4. Service!Write
    BY <2>1, <2>3, IsWrite DEF Steps
  <2> QED BY <2>3, <2>4 DEF FlightSoFar, ServiceNext, Service!Next
<1>9. CASE axon_build_certificate_verify
  <2>1. Written(3) /\ pc \in Steps /\ resp_len' = resp_len
    BY <1>9 DEF axon_build_certificate_verify, FlightSoFar, Steps
  <2>2. Builds(Service!Flight[3 + 1], ctx, "finished")
    BY <1>9, <1>f DEF axon_build_certificate_verify
  <2>3. /\ Written(4)' /\ pc' = "finished"
        /\ Len(Names) = 3 /\ Names' = Append(Names, Service!Flight[3 + 1])
    BY <1>0, <2>1, <2>2, BuildsWrites
  <2>4. Service!Write
    BY <2>1, <2>3, IsWrite DEF Steps
  <2> QED BY <2>3, <2>4 DEF FlightSoFar, ServiceNext, Service!Next
<1>10. CASE axon_build_finished
  <2>1. Written(4) /\ pc \in Steps /\ resp_len' > 0
    BY <1>10 DEF axon_build_finished, FlightSoFar, Steps, ResponseBytes
  <2>2. Builds(Service!Flight[4 + 1], [ctx EXCEPT !.handshake_done = TRUE], "idle")
    BY <1>10, <1>f DEF axon_build_finished
  <2>3. Written(5)' /\ pc' = "idle" /\ Len(Names) = 4
    BY <1>0, <2>1, <2>2, BuildsWrites
  <2>4. Names' = Service!Flight
    <3>1. Names' = [i \in 1..5 |-> Service!Flight[i]]
      BY <2>3 DEF Names, Written
    <3> QED BY <3>1 DEF Service!Flight
  <2>5. Service!Answer
    <3>1. /\ (IF pc \in Steps THEN "serving" ELSE "idle") = "serving"
          /\ (IF pc \in Steps THEN "serving" ELSE "idle")' = "idle"
      BY <2>1, <2>3 DEF Steps
    <3>2. Len(Names) = Len(Service!Flight) - 1
      BY <2>3 DEF Service!Flight
    <3>3. (resp_len > 0)' = TRUE
      BY <2>1
    <3> QED BY <2>4, <3>1, <3>2, <3>3, Zenon DEF Service!Answer, Names
  <2> QED BY <1>a, <2>3, <2>5 DEF ServiceNext, Service!Next, Steps
<1>11. CASE generate_random_fails \/ sha256_final_aborts
  <2>1. /\ pc \in Steps /\ pc' \notin Steps
        /\ response' = response /\ resp_len' = resp_len
    BY <1>11 DEF generate_random_fails, sha256_final_aborts, callVars, Steps
  <2>2. Service!GiveUp
    BY <2>1 DEF Service!GiveUp
  <2> QED BY <1>a, <2>1, <2>2 DEF ServiceNext, Service!Next
<1>12. CASE \/ ClientFinishedArrives \/ ClientFinishedAborts
            \/ Refused("encrypt") \/ Refused("decrypt")
            \/ axon_engine_encrypt \/ axon_engine_decrypt
  BY <1>12, <1>b, <1>c DEF ClientFinishedArrives, ClientFinishedAborts, Refused,
     axon_engine_encrypt, axon_engine_decrypt, callVars, Steps
<1> QED
  BY <1>1, <1>2, <1>3, <1>4, <1>5, <1>6, <1>7, <1>8, <1>9, <1>10, <1>11, <1>12
  DEF Next, CallStep

\* For every record, buffer size and failure: a handshake call writes the
\* flight message by message in its order, answers with all of it or with
\* nothing, and nothing else the engine does looks like a call.  That every
\* call ends is left to the runs (main.c:31-129).
THEOREM CallsFollowService == Spec => Service!Init /\ [][Service!Next]_(Service!vars)
<1>1. Init => Service!Init /\ FlightSoFar
  BY DEF Init, Service!Init, FlightSoFar, Steps
<1> QED
  BY <1>1, ServiceStep, Invariance, PTL DEF Spec, ServiceNext

-------------------------------------------------------------------------------
(* What the transcript weighs *)

\* The bytes of a transcript are the running sum of its lengths.
LEMMA BytesAreSums ==
  ASSUME NEW t \in Seq(Entry3)
  PROVE  \E f : /\ Sums(Len(t), [i \in 1..Len(t) |-> t[i][3]], f)
                /\ BytesOf(t) = f[Len(t)]
<1> DEFINE step == [i \in 1..Len(t) |-> t[i][3]]
           f == CHOOSE g : g = [i \in 0..Len(t) |->
                                  IF i = 0 THEN 0 ELSE g[i - 1] + t[i][3]]
<1>1. (\A i \in 1..Len(t) : step[i] \in Nat) /\ Len(t) \in Nat
  BY DEF Entry3
<1>2. \E g : Sums(Len(t), step, g)
  <2> HIDE DEF step
  <2> QED
    BY <1>1, SumsExist
<1>3. PICK g : Sums(Len(t), step, g)
  BY <1>2
<1>4. g = [i \in 0..Len(t) |-> IF i = 0 THEN 0 ELSE g[i - 1] + t[i][3]]
  <2>1. \A i \in 0..Len(t) : i # 0 => step[i] = t[i][3]
    BY <1>1
  <2> HIDE DEF step
  <2>2. g = [i \in 0..Len(t) |-> IF i = 0 THEN 0 ELSE g[i - 1] + step[i]]
    BY <1>3 DEF Sums
  <2> QED
    BY <2>1, <2>2
<1>5. f = [i \in 0..Len(t) |-> IF i = 0 THEN 0 ELSE f[i - 1] + t[i][3]]
  BY <1>4
<1>6. Sums(Len(t), step, f)
  <2>1. \A i \in 0..Len(t) : i # 0 => step[i] = t[i][3]
    BY <1>1
  <2> HIDE DEF f, step
  <2>2. f = [i \in 0..Len(t) |-> IF i = 0 THEN 0 ELSE f[i - 1] + step[i]]
    BY <1>5, <2>1
  <2> QED
    BY <2>2 DEF Sums
<1>7. BytesOf(t) = f[Len(t)]
  BY DEF BytesOf
<1> HIDE DEF f
<1> QED
  BY <1>6, <1>7

LEMMA BytesType == ASSUME NEW t \in Seq(Entry3) PROVE BytesOf(t) \in Nat
<1> DEFINE step == [i \in 1..Len(t) |-> t[i][3]]
<1>1. (\A i \in 1..Len(t) : step[i] \in Nat) /\ Len(t) \in Nat
  BY DEF Entry3
<1>2. PICK f : Sums(Len(t), step, f) /\ BytesOf(t) = f[Len(t)]
  BY BytesAreSums
<1> HIDE DEF step
<1>3. f \in [0..Len(t) -> Nat]
  BY <1>1, <1>2, SumsType
<1> QED
  BY <1>1, <1>2, <1>3

LEMMA BytesOfNone == BytesOf(<<>>) = 0
<1>1. ASSUME NEW t \in Seq(Entry3), t = <<>> PROVE BytesOf(t) = 0
  <2>1. PICK f : /\ Sums(Len(t), [i \in 1..Len(t) |-> t[i][3]], f)
                 /\ BytesOf(t) = f[Len(t)]
    BY BytesAreSums
  <2>2. f[0] = 0 /\ Len(t) = 0
    BY <1>1, <2>1 DEF Sums
  <2> QED
    BY <2>1, <2>2
<1>2. <<>> \in Seq(Entry3)
  OBVIOUS
<1> QED
  BY <1>1, <1>2

\* A message adds its length.
LEMMA BytesAppend ==
  ASSUME NEW t \in Seq(Entry3), NEW e \in Entry3
  PROVE  BytesOf(Append(t, e)) = BytesOf(t) + e[3]
<1> DEFINE u == Append(t, e)
           n == Len(t)
           step  == [i \in 1..n |-> t[i][3]]
           other == [i \in 1..(n + 1) |-> u[i][3]]
<1>1. /\ n \in Nat /\ u \in Seq(Entry3) /\ Len(u) = n + 1
      /\ \A i \in 1..n : u[i] = t[i]
      /\ u[n + 1] = e
  OBVIOUS
<1>2. PICK f : Sums(n, step, f) /\ BytesOf(t) = f[n]
  BY BytesAreSums
<1>3. PICK g : Sums(n + 1, other, g) /\ BytesOf(u) = g[n + 1]
  <2> HIDE DEF u
  <2>1. \E g : /\ Sums(Len(u), [i \in 1..Len(u) |-> u[i][3]], g)
               /\ BytesOf(u) = g[Len(u)]
    BY <1>1, BytesAreSums
  <2> QED
    BY <1>1, <2>1
<1>4. \A i \in 1..n : step[i] \in Nat
  BY DEF Entry3
<1>5. \A i \in 1..(n + 1) : other[i] \in Nat
  <2> HIDE DEF u
  <2> QED
    BY <1>1 DEF Entry3
<1>6. \A i \in 1..n : step[i] = other[i]
  BY <1>1
<1>7. other[n + 1] = e[3]
  BY <1>1
<1> HIDE DEF u, n, step, other
<1> DEFINE m == n + 1
<1>m. m \in Nat /\ n <= m /\ n <= n
  BY <1>1
<1>8. f[n] = g[n]
  <2>1. Sums(m, other, g)
    BY <1>3
  <2>2. \A i \in 1..m : other[i] \in Nat
    BY <1>5
  <2>3. n \in Nat /\ m \in Nat /\ n <= m
    BY <1>1, <1>m
  <2>4. Sums(n, step, f)
    BY <1>2
  <2> HIDE DEF m
  <2> QED
    BY <1>6, <2>1, <2>2, <2>3, <2>4, SumsAgree
<1>9. g[n + 1] = g[n] + other[n + 1]
  <2>0. Sums(m, other, g) /\ \A i \in 1..m : other[i] \in Nat
    BY <1>3, <1>5
  <2>1. \A i \in 1..m : g[i] = g[i - 1] + other[i]
    <3> HIDE DEF m
    <3> QED
      BY <1>m, <2>0, SumsType
  <2> QED
    BY <1>1, <2>1
<1> QED
  BY <1>2, <1>3, <1>7, <1>8, <1>9 DEF u

\* The update adds the message or leaves the context alone.
LEMMA UpdateFacts ==
  ASSUME NEW c \in Context, NEW msg \in Messages, NEW n \in Token, NEW len \in Nat
  PROVE  LET u == axon_context_update_hash(c, msg, n, len)
             e == <<msg, n, len>>
         IN  /\ e \in Entry3
             /\ IF len > 0 /\ c.buffer_offset + len <= BufferSize
                THEN /\ u.transcript = Append(c.transcript, e)
                     /\ u.buffer_offset = c.buffer_offset + len
                ELSE u = c
             /\ u.client_random = c.client_random /\ u.server_random = c.server_random
             /\ u.client_pubkey = c.client_pubkey /\ u.shared_secret = c.shared_secret
             /\ u.master_secret = c.master_secret
  BY DEF axon_context_update_hash, Kept, Context, Entry3

\* What taking in a hello does to the context.
LEMMA TakeHelloContext ==
  ASSUME TypeOK, TakeHello
  PROVE  \E d \in Context, len \in Nat \ {0} :
           /\ ctx' = axon_context_update_hash(d, "CLIENT_HELLO", calls + 1, len)
           /\ d.transcript = ctx.transcript /\ d.buffer_offset = ctx.buffer_offset
           /\ pc' = "server_hello" => d.client_random = calls + 1
           /\ calls + 1 \in Token /\ response' = <<>>
           /\ client'.call = calls + 1 /\ client'.len = len
<1>1. PICK r \in Records, b \in BehindSet :
        LET p == axon_parse_client_hello(r.hello, b)
        IN  /\ axon_record_read(r, TRUE)
            /\ Called(r, calls + 1)
            /\ ctx' = AfterHello(ctx, r, calls + 1, p)
            /\ IF p.ok THEN pc' = "server_hello" /\ last' = NoCall
                       ELSE pc' = pc /\ Fails("handshake")
  BY DEF TakeHello
<1> DEFINE p == axon_parse_client_hello(r.hello, b)
           n == calls + 1
           random == IF p.random THEN n ELSE ctx.client_random
           pubkey == IF p.share THEN n ELSE ctx.client_pubkey
           suite  == IF p.suite = NoSuite THEN ctx.cipher_suite ELSE p.suite
           bits   == IF p.ok THEN ctx.messages_received \cup {"CLIENT_HELLO"}
                             ELSE ctx.messages_received
           d == [ctx EXCEPT !.client_random = random, !.client_pubkey = pubkey,
                            !.cipher_suite = suite, !.messages_received = bits]
<1>2. ctx \in Context /\ calls \in Nat /\ n \in Token /\ pc = "idle"
  BY BoundsAssumption DEF TakeHello, TypeOK, Token
<1>3. p.suite \in SupportedSuites \cup {NoSuite}
  BY ParserType
<1>4. r.hello.len \in Nat \ {0}
  <2>1. r.hello \in Hello
    BY RecordsAssumption DEF Record
  <2> QED
    BY <1>1, <2>1 DEF Hello, axon_record_read
<1>5. p.ok => p.random
  BY DEF axon_parse_client_hello
<1>6. ctx' = axon_context_update_hash(d, "CLIENT_HELLO", n, r.hello.len)
  BY <1>1 DEF AfterHello
<1>7. pc' = "server_hello" => p.ok
  BY <1>1, <1>2
<1>8. client'.call = n /\ client'.len = r.hello.len /\ response' = <<>>
  BY <1>1 DEF Called, ClientOf
<1> HIDE DEF p
<1>9. random \in Token /\ pubkey \in Token
  BY <1>2 DEF Context
<1>10. suite \in Suites \cup {"NULL"} /\ bits \in SUBSET Messages
  BY <1>2, <1>3 DEF Context, Suites, Messages
<1>11. p.ok => random = n
  BY <1>5
<1> HIDE DEF random, pubkey, suite, bits
<1>12. /\ d \in Context /\ d.transcript = ctx.transcript
       /\ d.buffer_offset = ctx.buffer_offset /\ d.client_random = random
  BY <1>2, <1>9, <1>10 DEF Context
<1> HIDE DEF d
<1>13. pc' = "server_hello" => d.client_random = n
  BY <1>7, <1>11, <1>12
<1> QED
  BY <1>2, <1>4, <1>6, <1>8, <1>12, <1>13

\* What a builder does to the context.
LEMMA BuildsContext ==
  ASSUME TypeOK, NEW c \in Context, NEW msg \in Messages \ {"CLIENT_HELLO"}, NEW next,
         Builds(msg, c, next)
  PROVE  LET e == <<msg, calls, MessageLen[msg]>>
         IN  /\ e \in Entry3 /\ MessageLen[msg] \in Nat \ {0}
             /\ response' = Append(response, e)
             /\ IF c.buffer_offset + MessageLen[msg] <= BufferSize
                THEN /\ ctx'.transcript = Append(c.transcript, e)
                     /\ ctx'.buffer_offset = c.buffer_offset + MessageLen[msg]
                ELSE /\ ctx'.transcript = c.transcript
                     /\ ctx'.buffer_offset = c.buffer_offset
             /\ ctx'.client_random = c.client_random /\ ctx'.server_random = c.server_random
             /\ ctx'.client_pubkey = c.client_pubkey /\ ctx'.shared_secret = c.shared_secret
             /\ ctx'.master_secret = c.master_secret
             /\ pc' = next
<1> DEFINE d == [c EXCEPT !.messages_received = @ \cup {msg}]
<1>1. /\ d \in Context /\ d.transcript = c.transcript /\ d.buffer_offset = c.buffer_offset
      /\ d.client_random = c.client_random /\ d.server_random = c.server_random
      /\ d.client_pubkey = c.client_pubkey /\ d.shared_secret = c.shared_secret
      /\ d.master_secret = c.master_secret
  BY DEF Context
<1>2. MessageLen[msg] \in Nat \ {0} /\ calls \in Token
  BY DEF MessageLen, Messages, TypeOK
<1>3. ctx' = axon_context_update_hash(d, msg, calls, MessageLen[msg])
  BY DEF Builds
<1>4. response' = Append(response, <<msg, calls, MessageLen[msg]>>) /\ pc' = next
  BY DEF Builds
<1> HIDE DEF d
<1> DEFINE len == MessageLen[msg]
           e == <<msg, calls, len>>
<1>5. msg \in Messages /\ len \in Nat /\ len > 0
  BY <1>2
<1> HIDE DEF len
<1>6. /\ e \in Entry3
      /\ IF len > 0 /\ d.buffer_offset + len <= BufferSize
         THEN /\ ctx'.transcript = Append(d.transcript, e)
              /\ ctx'.buffer_offset = d.buffer_offset + len
         ELSE ctx' = d
      /\ ctx'.client_random = d.client_random /\ ctx'.server_random = d.server_random
      /\ ctx'.client_pubkey = d.client_pubkey /\ ctx'.shared_secret = d.shared_secret
      /\ ctx'.master_secret = d.master_secret
  BY <1>1, <1>2, <1>3, <1>5, UpdateFacts, SMTT(20) DEF len
<1> HIDE DEF e
<1> QED
  BY <1>1, <1>2, <1>4, <1>5, <1>6 DEF e, len

\* A step leaves the transcript, empties it, or adds a message that fits.
Grows(c, d) ==
  \E e \in Entry3 :
    /\ c.buffer_offset + e[3] <= BufferSize
    /\ d.transcript = Append(c.transcript, e)
    /\ d.buffer_offset = c.buffer_offset + e[3]

Same(c, d)  == d.transcript = c.transcript /\ d.buffer_offset = c.buffer_offset
Empty(d)    == d.transcript = <<>> /\ d.buffer_offset = 0

LEMMA TranscriptStep ==
  ASSUME TypeOK, [Next]_vars
  PROVE  Same(ctx, ctx') \/ Empty(ctx') \/ Grows(ctx, ctx')
<1>0. ctx \in Context /\ calls \in Token
  BY DEF TypeOK
<1>1. CASE ctx' = ctx
  BY <1>1 DEF Same
<1>2. CASE \/ UNCHANGED vars \/ axon_engine_create \/ RejectRecord \/ RejectFragment
           \/ sha256_final_aborts \/ ClientFinishedAborts
           \/ Refused("encrypt") \/ Refused("decrypt")
  BY <1>1, <1>2 DEF vars, engineVars, axon_engine_create, RejectRecord, RejectFragment,
     sha256_final_aborts, ClientFinishedAborts, Refused
<1>3. CASE axon_engine_destroy \/ axon_engine_reset
  BY <1>3 DEF axon_engine_destroy, axon_engine_reset, axon_context_init, WipedContext, Empty
<1>4. CASE TakeHello
  <2>1. PICK d \in Context, len \in Nat \ {0} :
          /\ ctx' = axon_context_update_hash(d, "CLIENT_HELLO", calls + 1, len)
          /\ d.transcript = ctx.transcript /\ d.buffer_offset = ctx.buffer_offset
          /\ calls + 1 \in Token
    BY <1>4, TakeHelloContext
  <2> DEFINE e == <<"CLIENT_HELLO", calls + 1, len>>
  <2>2. /\ e \in Entry3
        /\ IF len > 0 /\ d.buffer_offset + len <= BufferSize
           THEN /\ ctx'.transcript = Append(d.transcript, e)
                /\ ctx'.buffer_offset = d.buffer_offset + len
           ELSE ctx' = d
    BY <2>1, UpdateFacts DEF Messages
  <2>3. e[3] = len
    OBVIOUS
  <2> HIDE DEF e
  <2> QED
    BY <2>1, <2>2, <2>3 DEF Same, Grows
<1>5. ASSUME NEW c \in Context, NEW msg \in Messages \ {"CLIENT_HELLO"}, NEW next,
             Builds(msg, c, next), Same(ctx, c)
      PROVE  Same(ctx, ctx') \/ Grows(ctx, ctx')
  <2> DEFINE e == <<msg, calls, MessageLen[msg]>>
  <2>1. /\ e \in Entry3
        /\ IF c.buffer_offset + MessageLen[msg] <= BufferSize
           THEN /\ ctx'.transcript = Append(c.transcript, e)
                /\ ctx'.buffer_offset = c.buffer_offset + MessageLen[msg]
           ELSE /\ ctx'.transcript = c.transcript
                /\ ctx'.buffer_offset = c.buffer_offset
    BY <1>5, BuildsContext
  <2>2. e[3] = MessageLen[msg]
    OBVIOUS
  <2> HIDE DEF e
  <2> QED
    BY <1>5, <2>1, <2>2 DEF Same, Grows
<1>6. CASE axon_build_server_hello
  <2>1. WithKeyExchange(ctx) \in Context
    BY <1>0, ExchangeType
  <2>2. Same(ctx, WithKeyExchange(ctx))
    BY <1>0 DEF WithKeyExchange, Same, Context
  <2> QED
    BY <1>5, <1>6, <2>1, <2>2 DEF axon_build_server_hello, Messages
<1>7. CASE \/ axon_build_encrypted_extensions \/ axon_build_certificate
           \/ axon_build_certificate_verify
  <2>1. Same(ctx, ctx)
    BY DEF Same
  <2> QED
    BY <1>0, <1>5, <1>7, <2>1 DEF axon_build_encrypted_extensions, axon_build_certificate,
       axon_build_certificate_verify, Messages
<1>8. CASE axon_build_finished
  <2> DEFINE c == [ctx EXCEPT !.handshake_done = TRUE]
  <2>1. c \in Context /\ Same(ctx, c)
    BY <1>0 DEF Context, Same
  <2>2. Builds("FINISHED", c, "idle")
    BY <1>8 DEF axon_build_finished
  <2> HIDE DEF c
  <2> QED
    BY <1>5, <2>1, <2>2 DEF Messages
<1>9. CASE \/ generate_random_fails \/ axon_derive_handshake_keys \/ ClientFinishedArrives
           \/ axon_engine_encrypt \/ axon_engine_decrypt
  BY <1>0, <1>9 DEF generate_random_fails, axon_derive_handshake_keys, Same, Context,
     ClientFinishedArrives, axon_engine_encrypt, axon_engine_decrypt
<1> QED
  BY <1>2, <1>3, <1>4, <1>6, <1>7, <1>8, <1>9 DEF Next, CallStep

\* handshake_buffer holds exactly the messages kept, and no run of hellos makes
\* the offset pass its end (context.c:18-24).
THEOREM TranscriptIsWeighed == Spec => []TranscriptFillsBuffer
<1>1. Init => TranscriptFillsBuffer
  <2> SUFFICES ASSUME Init PROVE TranscriptFillsBuffer
    OBVIOUS
  <2>1. Empty(ctx)
    BY DEF Init, axon_context_init, WipedContext, Empty
  <2>2. BytesOf(ctx.transcript) = 0
    BY <2>1, BytesOfNone DEF Empty
  <2> QED
    BY <2>1, <2>2, BufferAssumption DEF Empty, TranscriptFillsBuffer
<1>2. TypeOK /\ TranscriptFillsBuffer /\ [Next]_vars => TranscriptFillsBuffer'
  <2> SUFFICES ASSUME TypeOK, TranscriptFillsBuffer, [Next]_vars
               PROVE  TranscriptFillsBuffer'
    OBVIOUS
  <2>1. ctx.transcript \in Seq(Entry3) /\ ctx.buffer_offset \in Nat
    BY DEF TypeOK, Context
  <2>2. CASE Same(ctx, ctx')
    BY <2>2 DEF Same, TranscriptFillsBuffer
  <2>3. CASE Empty(ctx')
    <3>1. BytesOf(ctx'.transcript) = 0
      BY <2>3, BytesOfNone DEF Empty
    <3> QED
      BY <2>3, <3>1, BufferAssumption DEF Empty, TranscriptFillsBuffer
  <2>4. CASE Grows(ctx, ctx')
    <3>1. PICK e \in Entry3 :
            /\ ctx.buffer_offset + e[3] <= BufferSize
            /\ ctx'.transcript = Append(ctx.transcript, e)
            /\ ctx'.buffer_offset = ctx.buffer_offset + e[3]
      BY <2>4 DEF Grows
    <3>2. BytesOf(ctx'.transcript) = BytesOf(ctx.transcript) + e[3]
      BY <2>1, <3>1, BytesAppend
    <3> QED
      BY <3>1, <3>2 DEF TranscriptFillsBuffer
  <2> QED
    BY <2>2, <2>3, <2>4, TranscriptStep
<1> QED
  BY <1>1, <1>2, TypeCorrect, PTL DEF Spec

-------------------------------------------------------------------------------
(* The first handshake after a reset *)

\* How many messages, and how many bytes, a call has written before each step.
WrittenBefore ==
  [server_hello |-> 0, encrypted_extensions |-> 1, derive |-> 2, certificate |-> 2,
   certificate_verify |-> 3, finished |-> 4]

BytesBefore ==
  [server_hello |-> 0, encrypted_extensions |-> 86, derive |-> 92, certificate |-> 92,
   certificate_verify |-> 105, finished |-> 179]

LeavesRoom == client.len + ResponseBytes - MessageLen["FINISHED"] <= BufferSize

\* A call under way answers the hello taken in last, with its random; from
\* ServerHello on also with its own random and the share the context holds.
\* In the first call after a reset the transcript is what its client sent and
\* received, if the hello left room.
UnderWay ==
  pc \in Steps =>
    /\ client.call = calls /\ ctx.client_random = calls
    /\ pc # "server_hello" =>
         ctx.server_random = calls /\ ctx.shared_secret = ctx.client_pubkey
    /\ Len(response) = WrittenBefore[pc]
    /\ calls = resetAt + 1 /\ LeavesRoom =>
         /\ ctx.transcript = ClientTranscript
         /\ ctx.buffer_offset = client.len + BytesBefore[pc]

\* Until the first hello the transcript is empty.
NothingYet == calls = resetAt => Empty(ctx)

\* A message behind the hello and the others.
LEMMA TranscriptAppend ==
  ASSUME NEW h \in Entry3, NEW r \in Seq(Entry3), NEW e \in Entry3
  PROVE  /\ <<h>> \o Append(r, e) = Append(<<h>> \o r, e)
         /\ Len(r) = 4 => SubSeq(<<h>> \o Append(r, e), 1, 5) = <<h>> \o r
<1> DEFINE s == <<h>> \o r
           t == Append(r, e)
           u == <<h>> \o t
<1>1. /\ s \in Seq(Entry3) /\ Len(s) = 1 + Len(r) /\ s[1] = h
      /\ \A i \in 2..(1 + Len(r)) : s[i] = r[i - 1]
  OBVIOUS
<1>2. /\ t \in Seq(Entry3) /\ Len(t) = Len(r) + 1 /\ t[Len(r) + 1] = e
      /\ \A i \in 1..Len(r) : t[i] = r[i]
  OBVIOUS
<1> HIDE DEF t
<1>3. /\ u \in Seq(Entry3) /\ Len(u) = 1 + Len(t) /\ u[1] = h
      /\ \A i \in 2..(1 + Len(t)) : u[i] = t[i - 1]
  BY <1>2
<1> HIDE DEF s, u
<1>4. Len(r) \in Nat
  OBVIOUS
<1>5. u = Append(s, e)
  <2> DEFINE v == Append(s, e)
  <2>1. /\ v \in Seq(Entry3) /\ Len(v) = Len(s) + 1 /\ v[Len(s) + 1] = e
        /\ \A i \in 1..Len(s) : v[i] = s[i]
    BY <1>1
  <2> HIDE DEF v
  <2>2. Len(u) = Len(v)
    BY <1>1, <1>2, <1>3, <2>1
  <2>3. ASSUME NEW i \in 1..Len(u) PROVE u[i] = v[i]
    <3>1. CASE i = 1
      BY <1>1, <1>3, <1>4, <2>1, <3>1
    <3>2. CASE i \in 2..(1 + Len(r))
      <4>1. i - 1 \in 1..Len(r) /\ i \in 2..(1 + Len(t)) /\ i \in 1..Len(s)
        BY <1>1, <1>2, <1>4, <3>2
      <4> QED
        BY <1>1, <1>2, <1>3, <2>1, <3>2, <4>1
    <3>3. CASE i = Len(r) + 2
      BY <1>1, <1>2, <1>3, <1>4, <2>1, <3>3
    <3> QED
      BY <1>2, <1>3, <1>4, <3>1, <3>2, <3>3
  <2> QED
    BY <1>3, <2>1, <2>2, <2>3, SeqEqual DEF v
<1>6. ASSUME Len(r) = 4 PROVE SubSeq(u, 1, 5) = s
  <2> DEFINE v == SubSeq(u, 1, 5)
  <2>1. Len(u) = 6 /\ Len(s) = 5
    BY <1>1, <1>2, <1>3, <1>6
  <2>2. /\ v \in Seq(Entry3) /\ Len(v) = 5
        /\ \A i \in 1..5 : v[i] = u[i]
    <3>1. ASSUME NEW i \in 1..5 PROVE u[i] \in Entry3
      <4>1. i \in 1..Len(u)
        BY <2>1
      <4>2. u \in Seq(Entry3)
        BY <1>3
      <4> QED
        BY <4>1, <4>2, ElementOfSeq
    <3>2. /\ v \in Seq(Entry3) /\ Len(v) = IF 1 <= 5 THEN 5 - 1 + 1 ELSE 0
          /\ \A i \in 1..(5 - 1 + 1) : v[i] = u[1 + i - 1]
      BY <3>1, SubSeqProperties
    <3>3. 5 - 1 + 1 = 5 /\ \A i \in 1..5 : 1 + i - 1 = i
      OBVIOUS
    <3> HIDE DEF v
    <3> QED
      BY <3>2, <3>3
  <2> HIDE DEF v
  <2>3. ASSUME NEW i \in 1..5 PROVE v[i] = s[i]
    <3>1. CASE i = 1
      BY <1>1, <1>3, <2>2, <3>1
    <3>2. CASE i \in 2..5
      <4>1. i - 1 \in 1..Len(r) /\ i \in 2..(1 + Len(t)) /\ i \in 2..(1 + Len(r))
        BY <1>2, <1>6, <3>2
      <4> QED
        BY <1>1, <1>2, <1>3, <2>2, <4>1
    <3> QED
      BY <3>1, <3>2
  <2> QED
    BY <1>1, <2>1, <2>2, <2>3, SeqEqual DEF v
<1> QED
  BY <1>5, <1>6 DEF s, t, u

\* A builder that finds room adds its message to both sides of the comparison.
LEMMA BuilderAdds ==
  ASSUME TypeOK, UnderWay, pc \in Steps, NEW c \in Context, Same(ctx, c),
         NEW msg \in Messages \ {"CLIENT_HELLO"}, NEW next, Builds(msg, c, next),
         UNCHANGED <<client, calls, resetAt>>
  PROVE  /\ Len(response') = Len(response) + 1
         /\ ctx'.client_random = c.client_random /\ ctx'.server_random = c.server_random
         /\ ctx'.client_pubkey = c.client_pubkey /\ ctx'.shared_secret = c.shared_secret
         /\ pc' = next
         /\ ( /\ calls = resetAt + 1 /\ LeavesRoom
              /\ client.len + BytesBefore[pc] + MessageLen[msg] <= BufferSize )
              => /\ ctx'.transcript = ClientTranscript'
                 /\ ctx'.buffer_offset = client.len + BytesBefore[pc] + MessageLen[msg]
<1> DEFINE e == <<msg, calls, MessageLen[msg]>>
           hello == <<"CLIENT_HELLO", client.call, client.len>>
<1>1. /\ e \in Entry3
      /\ response' = Append(response, e)
      /\ IF c.buffer_offset + MessageLen[msg] <= BufferSize
         THEN /\ ctx'.transcript = Append(c.transcript, e)
              /\ ctx'.buffer_offset = c.buffer_offset + MessageLen[msg]
         ELSE /\ ctx'.transcript = c.transcript
              /\ ctx'.buffer_offset = c.buffer_offset
      /\ ctx'.client_random = c.client_random /\ ctx'.server_random = c.server_random
      /\ ctx'.client_pubkey = c.client_pubkey /\ ctx'.shared_secret = c.shared_secret
      /\ pc' = next
  BY BuildsContext
<1>2. response \in Seq(Entry3) /\ hello \in Entry3
  BY DEF TypeOK, Entry3, Messages
<1>3. ClientTranscript = <<hello>> \o response /\ ClientTranscript' = <<hello>> \o response'
  BY DEF ClientTranscript
<1> HIDE DEF e, hello
<1>4. Len(response') = Len(response) + 1
  BY <1>1, <1>2
<1>5. ASSUME calls = resetAt + 1, LeavesRoom,
             client.len + BytesBefore[pc] + MessageLen[msg] <= BufferSize
      PROVE  /\ ctx'.transcript = ClientTranscript'
             /\ ctx'.buffer_offset = client.len + BytesBefore[pc] + MessageLen[msg]
  <2>1. ctx.transcript = ClientTranscript /\ ctx.buffer_offset = client.len + BytesBefore[pc]
    BY <1>5 DEF UnderWay
  <2>2. c.transcript = <<hello>> \o response /\ c.buffer_offset = client.len + BytesBefore[pc]
    BY <1>3, <2>1 DEF Same
  <2>3. /\ ctx'.transcript = Append(<<hello>> \o response, e)
        /\ ctx'.buffer_offset = client.len + BytesBefore[pc] + MessageLen[msg]
    BY <1>1, <1>5, <2>2
  <2>4. <<hello>> \o Append(response, e) = Append(<<hello>> \o response, e)
    BY <1>1, <1>2, TranscriptAppend
  <2> QED
    BY <1>1, <1>3, <2>3, <2>4
<1> QED
  BY <1>1, <1>4, <1>5

\* Every step of a call keeps the account of it.
LEMMA UnderWayStep ==
  TypeOK /\ CallOrder /\ UnderWay /\ NothingYet /\ [Next]_vars => UnderWay'
<1> SUFFICES ASSUME TypeOK, CallOrder, UnderWay, NothingYet, [Next]_vars PROVE UnderWay'
  OBVIOUS
<1>0. /\ ctx \in Context /\ calls \in Token /\ calls \in Nat /\ resetAt \in Nat
      /\ client.len \in Nat /\ BufferSize \in Nat
  BY BoundsAssumption, BufferAssumption DEF TypeOK, Token
<1>a. BytesBefore = [server_hello |-> 0, encrypted_extensions |-> 86, derive |-> 92,
                     certificate |-> 92, certificate_verify |-> 105, finished |-> 179]
  BY DEF BytesBefore
<1>b. LeavesRoom <=> client.len + 179 <= BufferSize
  BY <1>0 DEF LeavesRoom, ResponseBytes, MessageLen
<1>c. /\ MessageLen["SERVER_HELLO"] = 86 /\ MessageLen["ENCRYPTED_EXTENSIONS"] = 6
      /\ MessageLen["CERTIFICATE"] = 13 /\ MessageLen["CERTIFICATE_VERIFY"] = 74
  BY DEF MessageLen
<1>1. CASE UNCHANGED vars
  BY <1>1 DEF vars, engineVars, callVars, UnderWay, LeavesRoom, ClientTranscript
<1>2. CASE pc' \notin Steps
  BY <1>2 DEF UnderWay
<1>3. CASE \/ axon_engine_create \/ axon_engine_destroy \/ axon_engine_reset
           \/ RejectRecord \/ RejectFragment \/ generate_random_fails
           \/ sha256_final_aborts \/ ClientFinishedArrives \/ ClientFinishedAborts
           \/ Refused("encrypt") \/ Refused("decrypt")
           \/ axon_engine_encrypt \/ axon_engine_decrypt
  BY <1>2, <1>3 DEF axon_engine_create, axon_engine_destroy, axon_engine_reset,
     RejectRecord, RejectFragment, generate_random_fails, sha256_final_aborts,
     ClientFinishedArrives, ClientFinishedAborts, Refused, axon_engine_encrypt,
     axon_engine_decrypt, Steps
<1>4. CASE TakeHello
  <2>1. PICK d \in Context, len \in Nat \ {0} :
          /\ ctx' = axon_context_update_hash(d, "CLIENT_HELLO", calls + 1, len)
          /\ d.transcript = ctx.transcript /\ d.buffer_offset = ctx.buffer_offset
          /\ pc' = "server_hello" => d.client_random = calls + 1
          /\ calls + 1 \in Token /\ response' = <<>>
          /\ client'.call = calls + 1 /\ client'.len = len
    BY <1>4, TakeHelloContext
  <2>2. calls' = calls + 1 /\ resetAt' = resetAt /\ resetAt <= calls
        /\ pc' \in {"idle", "server_hello"}
    BY <1>4, TakeHelloFacts DEF CallOrder
  <2> DEFINE e == <<"CLIENT_HELLO", calls + 1, len>>
  <2>3. /\ e \in Entry3
        /\ IF len > 0 /\ d.buffer_offset + len <= BufferSize
           THEN /\ ctx'.transcript = Append(d.transcript, e)
                /\ ctx'.buffer_offset = d.buffer_offset + len
           ELSE ctx' = d
        /\ ctx'.client_random = d.client_random
    BY <2>1, UpdateFacts DEF Messages
  <2>4. CASE pc' = "server_hello"
    <3>1. client'.call = calls' /\ ctx'.client_random = calls'
      BY <2>1, <2>2, <2>3, <2>4
    <3>2. Len(response') = 0
      BY <2>1
    <3>3. ASSUME calls' = resetAt' + 1, LeavesRoom'
          PROVE  ctx'.transcript = ClientTranscript' /\ ctx'.buffer_offset = client'.len + 0
      <4>1. ctx.transcript = <<>> /\ ctx.buffer_offset = 0
        BY <1>0, <2>2, <3>3 DEF NothingYet, Empty
      <4>2. len <= BufferSize
        BY <1>0, <2>1, <3>3 DEF LeavesRoom, ResponseBytes, MessageLen
      <4>3. ctx'.transcript = Append(<<>>, e) /\ ctx'.buffer_offset = len
        BY <2>1, <2>3, <4>1, <4>2
      <4>4. ClientTranscript' = <<e>> \o <<>>
        BY <2>1 DEF ClientTranscript
      <4>5. Append(<<>>, e) = <<e>> \o <<>>
        OBVIOUS
      <4> QED
        BY <2>1, <4>3, <4>4, <4>5
    <3> QED
      BY <2>4, <3>1, <3>2, <3>3 DEF UnderWay, WrittenBefore, BytesBefore
  <2> QED
    BY <1>2, <2>2, <2>4 DEF Steps
<1>5. CASE axon_build_server_hello
  <2> DEFINE c == WithKeyExchange(ctx)
  <2>1. c \in Context
    BY <1>0, ExchangeType
  <2>2. /\ Same(ctx, c) /\ c.client_random = ctx.client_random /\ c.server_random = calls
        /\ c.shared_secret = ctx.client_pubkey /\ c.client_pubkey = ctx.client_pubkey
    BY <1>0 DEF WithKeyExchange, Same, Context
  <2>3. /\ Builds("SERVER_HELLO", c, "encrypted_extensions") /\ pc = "server_hello"
        /\ pc \in Steps /\ UNCHANGED <<client, calls, resetAt>>
    BY <1>5 DEF axon_build_server_hello, Steps
  <2> HIDE DEF c
  <2>4. /\ Len(response') = Len(response) + 1
        /\ ctx'.client_random = c.client_random /\ ctx'.server_random = c.server_random
        /\ ctx'.client_pubkey = c.client_pubkey /\ ctx'.shared_secret = c.shared_secret
        /\ pc' = "encrypted_extensions"
        /\ ( /\ calls = resetAt + 1 /\ LeavesRoom
             /\ client.len + BytesBefore[pc] + MessageLen["SERVER_HELLO"] <= BufferSize )
             => /\ ctx'.transcript = ClientTranscript'
                /\ ctx'.buffer_offset
                     = client.len + BytesBefore[pc] + MessageLen["SERVER_HELLO"]
    BY <2>1, <2>2, <2>3, BuilderAdds DEF Messages
  <2>5. BytesBefore[pc] = 0 /\ WrittenBefore[pc] = 0
    BY <2>3 DEF BytesBefore, WrittenBefore
  <2>6. LeavesRoom' <=> LeavesRoom
    BY <2>3 DEF LeavesRoom
  <2>7. client.call = calls /\ ctx.client_random = calls /\ Len(response) = WrittenBefore[pc]
    BY <2>3 DEF UnderWay
  <2> QED
    BY <1>0, <1>b, <1>c, <2>2, <2>3, <2>4, <2>5, <2>6, <2>7
    DEF UnderWay, BytesBefore, WrittenBefore
<1>6. ASSUME NEW msg \in Messages \ {"CLIENT_HELLO"}, NEW next,
             Builds(msg, ctx, next), UNCHANGED <<client, calls, resetAt>>,
             pc \in Steps, pc # "server_hello", next \in Steps, next # "server_hello",
             WrittenBefore[next] = WrittenBefore[pc] + 1,
             BytesBefore[next] = BytesBefore[pc] + MessageLen[msg],
             BytesBefore[next] <= 179, BytesBefore[pc] \in Nat, MessageLen[msg] \in Nat
      PROVE  UnderWay'
  <2>1. Same(ctx, ctx)
    BY DEF Same
  <2>2. /\ Len(response') = Len(response) + 1
        /\ ctx'.client_random = ctx.client_random /\ ctx'.server_random = ctx.server_random
        /\ ctx'.client_pubkey = ctx.client_pubkey /\ ctx'.shared_secret = ctx.shared_secret
        /\ pc' = next
        /\ ( /\ calls = resetAt + 1 /\ LeavesRoom
             /\ client.len + BytesBefore[pc] + MessageLen[msg] <= BufferSize )
             => /\ ctx'.transcript = ClientTranscript'
                /\ ctx'.buffer_offset = client.len + BytesBefore[pc] + MessageLen[msg]
    BY <1>0, <1>6, <2>1, BuilderAdds
  <2>3. LeavesRoom' <=> LeavesRoom
    BY <1>6 DEF LeavesRoom
  <2>4. LeavesRoom => client.len + BytesBefore[pc] + MessageLen[msg] <= BufferSize
    BY <1>0, <1>b, <1>6
  <2>5. client.len + BytesBefore[pc] + MessageLen[msg] = client.len + BytesBefore[next]
    BY <1>0, <1>6
  <2>6. /\ client.call = calls /\ ctx.client_random = calls
        /\ ctx.server_random = calls /\ ctx.shared_secret = ctx.client_pubkey
        /\ Len(response) = WrittenBefore[pc]
    BY <1>6 DEF UnderWay
  <2> QED
    BY <1>6, <2>2, <2>3, <2>4, <2>5, <2>6 DEF UnderWay
<1>7. CASE axon_build_encrypted_extensions
  <2>1. /\ pc = "encrypted_extensions" /\ Builds("ENCRYPTED_EXTENSIONS", ctx, "derive")
        /\ UNCHANGED <<client, calls, resetAt>>
    BY <1>7 DEF axon_build_encrypted_extensions
  <2> QED
    BY <1>6, <1>c, <2>1 DEF Messages, Steps, BytesBefore, WrittenBefore
<1>8. CASE axon_build_certificate
  <2>1. /\ pc = "certificate" /\ Builds("CERTIFICATE", ctx, "certificate_verify")
        /\ UNCHANGED <<client, calls, resetAt>>
    BY <1>8 DEF axon_build_certificate
  <2> QED
    BY <1>6, <1>c, <2>1 DEF Messages, Steps, BytesBefore, WrittenBefore
<1>9. CASE axon_build_certificate_verify
  <2>1. /\ pc = "certificate_verify" /\ Builds("CERTIFICATE_VERIFY", ctx, "finished")
        /\ UNCHANGED <<client, calls, resetAt>>
    BY <1>9 DEF axon_build_certificate_verify
  <2> QED
    BY <1>6, <1>c, <2>1 DEF Messages, Steps, BytesBefore, WrittenBefore
<1>10. CASE axon_derive_handshake_keys
  <2>1. /\ pc = "derive" /\ pc' = "certificate" /\ UNCHANGED <<callVars, calls, resetAt>>
        /\ Same(ctx, ctx') /\ ctx'.client_random = ctx.client_random
        /\ ctx'.server_random = ctx.server_random
        /\ ctx'.client_pubkey = ctx.client_pubkey /\ ctx'.shared_secret = ctx.shared_secret
    BY <1>0, <1>10 DEF axon_derive_handshake_keys, Same, Context
  <2> QED
    BY <2>1 DEF UnderWay, Same, callVars, Steps, LeavesRoom, ClientTranscript,
       BytesBefore, WrittenBefore
<1>11. CASE axon_build_finished
  <2>1. pc' = "idle"
    BY <1>11 DEF axon_build_finished, Builds
  <2> QED
    BY <1>2, <2>1 DEF Steps
<1> QED
  BY <1>1, <1>3, <1>4, <1>5, <1>7, <1>8, <1>9, <1>10, <1>11 DEF Next, CallStep

\* Only a hello and the call that answers it write to the transcript.
LEMMA NothingYetStep == TypeOK /\ CallOrder /\ NothingYet /\ [Next]_vars => NothingYet'
<1> SUFFICES ASSUME TypeOK, CallOrder, NothingYet, [Next]_vars PROVE NothingYet'
  OBVIOUS
<1>0. ctx \in Context /\ calls \in Nat /\ resetAt \in Nat
  BY BoundsAssumption DEF TypeOK, Token
<1>1. CASE Same(ctx, ctx') /\ UNCHANGED <<calls, resetAt>>
  BY <1>1 DEF NothingYet, Same, Empty
<1>2. CASE \/ UNCHANGED vars \/ axon_engine_create \/ RejectRecord \/ RejectFragment
           \/ ClientFinishedArrives \/ ClientFinishedAborts
           \/ Refused("encrypt") \/ Refused("decrypt")
           \/ axon_engine_encrypt \/ axon_engine_decrypt
  BY <1>0, <1>1, <1>2 DEF vars, engineVars, axon_engine_create, RejectRecord, RejectFragment,
     ClientFinishedArrives, ClientFinishedAborts, Refused, axon_engine_encrypt,
     axon_engine_decrypt, Same, Context
<1>3. CASE axon_engine_destroy \/ axon_engine_reset
  BY <1>3 DEF axon_engine_destroy, axon_engine_reset, axon_context_init, WipedContext, Empty,
     NothingYet
<1>4. CASE TakeHello
  BY <1>0, <1>4, TakeHelloFacts DEF CallOrder, NothingYet
<1>5. CASE CallStep
  <2>1. pc \in Steps /\ UNCHANGED <<calls, resetAt>>
    BY <1>5 DEF CallStep, axon_build_server_hello, generate_random_fails,
       axon_build_encrypted_extensions, axon_derive_handshake_keys, axon_build_certificate,
       axon_build_certificate_verify, axon_build_finished, sha256_final_aborts, Steps
  <2>2. resetAt < calls
    BY <2>1 DEF CallOrder
  <2>3. calls' = calls
    BY <2>1
  <2>4. resetAt' = resetAt
    BY <2>1
  <2>5. calls' # resetAt'
    BY <1>0, <2>2, <2>3, <2>4
  <2> QED
    BY <2>5 DEF NothingYet
<1> QED
  BY <1>2, <1>3, <1>4, <1>5 DEF Next

\* The answer to the hello of the first call.
LEMMA FirstAnswerStep ==
  IInv /\ UnderWay /\ FirstHandshakeVerifies /\ [Next]_vars => FirstHandshakeVerifies'
<1> SUFFICES ASSUME IInv, UnderWay, FirstHandshakeVerifies, [Next]_vars
             PROVE  FirstHandshakeVerifies'
  OBVIOUS
<1>0. /\ TypeOK /\ CallOrder /\ ctx \in Context /\ calls \in Nat /\ resetAt \in Nat
      /\ client.len \in Nat /\ BufferSize \in Nat
  BY BoundsAssumption, BufferAssumption DEF IInv, TypeOK, Token
<1>1. CASE last' # <<"handshake", "ok">>
  BY <1>1 DEF FirstHandshakeVerifies, Answered
<1>2. CASE UNCHANGED <<callVars, ctx, last, resetAt>>
  BY <1>2 DEF FirstHandshakeVerifies, Answered, callVars, ClientVerifies, ClientKey,
     ClientTranscript
<1>3. CASE \/ UNCHANGED vars \/ axon_engine_create \/ sha256_final_aborts
           \/ ClientFinishedAborts
  BY <1>2, <1>3 DEF vars, engineVars, axon_engine_create, sha256_final_aborts,
     ClientFinishedAborts
<1>4. CASE \/ axon_engine_destroy \/ axon_engine_reset \/ RejectRecord \/ RejectFragment
           \/ generate_random_fails \/ ClientFinishedArrives
           \/ Refused("encrypt") \/ Refused("decrypt")
           \/ axon_engine_encrypt \/ axon_engine_decrypt
  <2>1. \E op \in {"none", "reset", "verify", "encrypt", "decrypt", "handshake"},
           res \in {"ok", "fail"} :
          last' = <<op, res>> /\ (op = "handshake" => res = "fail")
    BY <1>4 DEF axon_engine_destroy, axon_engine_reset, RejectRecord, RejectFragment,
       generate_random_fails, ClientFinishedArrives, Refused, axon_engine_encrypt,
       axon_engine_decrypt, NoCall, Fails
  <2> QED
    BY <1>1, <2>1
<1>5. CASE TakeHello
  BY <1>1, <1>5, TakeHelloFacts DEF NoCall
<1>6. CASE \/ axon_build_server_hello \/ axon_build_encrypted_extensions
           \/ axon_derive_handshake_keys \/ axon_build_certificate
           \/ axon_build_certificate_verify
  <2>1. pc \in Steps /\ last' = last
    BY <1>6 DEF axon_build_server_hello, axon_build_encrypted_extensions,
       axon_derive_handshake_keys, axon_build_certificate, axon_build_certificate_verify,
       Steps
  <2> QED
    BY <1>0, <1>1, <2>1 DEF CallOrder, NoCall
<1>7. CASE axon_build_finished
  <2> DEFINE c == [ctx EXCEPT !.handshake_done = TRUE]
             hello == <<"CLIENT_HELLO", client.call, client.len>>
             e == <<"FINISHED", calls, MessageLen["FINISHED"]>>
  <2>1. /\ pc = "finished" /\ pc \in Steps /\ UNCHANGED <<client, calls, resetAt>>
        /\ Builds("FINISHED", c, "idle")
        /\ finished' = [key |-> ctx.master_secret, over |-> ctx.transcript]
    BY <1>7 DEF axon_build_finished, Steps
  <2>2. c \in Context /\ Same(ctx, c) /\ c.client_pubkey = ctx.client_pubkey
    BY <1>0 DEF Context, Same
  <2> HIDE DEF c
  <2>3. e \in Entry3 /\ response' = Append(response, e) /\ ctx'.client_pubkey = c.client_pubkey
    BY <1>0, <2>1, <2>2, BuildsContext DEF Messages
  <2>4. /\ client.call = calls /\ ctx.client_random = calls
        /\ ctx.server_random = calls /\ ctx.shared_secret = ctx.client_pubkey
        /\ Len(response) = 4
    BY <2>1 DEF UnderWay, WrittenBefore
  <2>5. ctx.master_secret = <<calls, calls, ctx.client_pubkey>>
    BY <1>0, <2>1, <2>4 DEF CallOrder, IInv, KeysFromDerivation, Keyed, Bound, KeyOf
  <2>6. response \in Seq(Entry3) /\ hello \in Entry3
    BY <1>0 DEF TypeOK, Entry3, Messages
  <2>7. ClientTranscript = <<hello>> \o response /\ ClientTranscript' = <<hello>> \o response'
    BY <2>1 DEF ClientTranscript
  <2> HIDE DEF e, hello
  <2> SUFFICES ASSUME client'.call = resetAt' + 1, ctx'.client_pubkey = client'.call,
                      client'.share,
                      client'.len + ResponseBytes - MessageLen["FINISHED"] <= BufferSize
               PROVE  ClientVerifies'
    BY DEF FirstHandshakeVerifies
  <2>8. calls = resetAt + 1 /\ LeavesRoom /\ ctx.client_pubkey = calls
    BY <2>1, <2>2, <2>3, <2>4 DEF LeavesRoom
  <2>9. finished'.over = <<hello>> \o response
    BY <2>1, <2>7, <2>8 DEF UnderWay
  <2>10. SubSeq(ClientTranscript', 1, 5) = <<hello>> \o response
    BY <2>3, <2>4, <2>6, <2>7, TranscriptAppend
  <2>11. finished'.key = ClientKey'
    BY <2>1, <2>4, <2>5, <2>8 DEF ClientKey
  <2> QED
    BY <2>9, <2>10, <2>11 DEF ClientVerifies
<1> QED
  BY <1>3, <1>4, <1>5, <1>6, <1>7 DEF Next, CallStep

\* Whoever was served before: the first client after a create or a reset, with
\* a share and a hello that leaves room in the buffer, verifies the Finished it
\* is sent (handshake.c:265-307).
THEOREM FirstHandshakeSucceeds == Spec => []FirstHandshakeVerifies
<1>1. Init => UnderWay /\ NothingYet /\ FirstHandshakeVerifies
  BY DEF Init, UnderWay, NothingYet, FirstHandshakeVerifies, Answered, NoCall, Steps,
     Empty, axon_context_init, WipedContext
<1>2. IInv /\ NothingYet /\ [Next]_vars => NothingYet'
  BY NothingYetStep DEF IInv
<1>3. IInv /\ UnderWay /\ NothingYet /\ [Next]_vars => UnderWay'
  BY UnderWayStep DEF IInv
<1> QED
  BY <1>1, <1>2, <1>3, FirstAnswerStep, Invariance, PTL DEF Spec

===============================================================================

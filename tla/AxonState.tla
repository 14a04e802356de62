------------------------------ MODULE AxonState ------------------------------
(***************************************************************************)
(* The handshake state machine of core/source/state.c as constant          *)
(* operators: the transition function the engine calls after each message  *)
(* and the table that says which transitions are legal.  An enumerator of  *)
(* axon_state_t is the string of its name without the STATE_ prefix, a     *)
(* handshake type the name of its TLS_HANDSHAKE_ constant.                 *)
(***************************************************************************)
EXTENDS Naturals

States == {"INIT", "WAITING_CLIENT_HELLO", "SENT_SERVER_HELLO",
           "SENT_ENCRYPTED_EXTENSIONS", "SENT_CERTIFICATE",
           "SENT_CERTIFICATE_VERIFY", "SENT_FINISHED", "WAITING_FINISHED",
           "HANDSHAKE_COMPLETE", "ALERT_SENT", "ERROR"}

\* The one message each state with a case of its own accepts, and where that
\* message leads.  STATE_WAITING_FINISHED has no case: it is never entered.
Expects ==
  [INIT                      |-> "CLIENT_HELLO",
   WAITING_CLIENT_HELLO      |-> "SERVER_HELLO",
   SENT_SERVER_HELLO         |-> "ENCRYPTED_EXTENSIONS",
   SENT_ENCRYPTED_EXTENSIONS |-> "CERTIFICATE",
   SENT_CERTIFICATE          |-> "CERTIFICATE_VERIFY",
   SENT_CERTIFICATE_VERIFY   |-> "FINISHED",
   SENT_FINISHED             |-> "FINISHED",
   HANDSHAKE_COMPLETE        |-> "APPLICATION_DATA"]

\* Variant: Certificate leads past CertificateVerify.
follows_skips_verify ==
  [s \in DOMAIN Expects |->
     CASE s = "INIT" -> "WAITING_CLIENT_HELLO"
       [] s = "WAITING_CLIENT_HELLO" -> "SENT_SERVER_HELLO"
       [] s = "SENT_SERVER_HELLO" -> "SENT_ENCRYPTED_EXTENSIONS"
       [] s = "SENT_FINISHED" -> "HANDSHAKE_COMPLETE"
       [] s = "HANDSHAKE_COMPLETE" -> s
       [] OTHER -> "SENT_CERTIFICATE_VERIFY"]

Follows ==
  [INIT                      |-> "WAITING_CLIENT_HELLO",
   WAITING_CLIENT_HELLO      |-> "SENT_SERVER_HELLO",
   SENT_SERVER_HELLO         |-> "SENT_ENCRYPTED_EXTENSIONS",
   SENT_ENCRYPTED_EXTENSIONS |-> "SENT_CERTIFICATE",
   SENT_CERTIFICATE          |-> "SENT_CERTIFICATE_VERIFY",
   SENT_CERTIFICATE_VERIFY   |-> "SENT_FINISHED",
   SENT_FINISHED             |-> "HANDSHAKE_COMPLETE",
   HANDSHAKE_COMPLETE        |-> "HANDSHAKE_COMPLETE"]

\* Variant: the message that was accepted comes back in place of the state.
returns_message(current, message_type) ==
  IF current \in DOMAIN Expects THEN Expects[current] ELSE "ERROR"

axon_state_machine(current, message_type) ==
  CASE current \notin DOMAIN Expects          -> "ERROR"
    [] current \in DOMAIN Expects
         /\ message_type = Expects[current]   -> Follows[current]
    [] OTHER                                  -> "ALERT_SENT"

\* The second table of the source, kept apart from the first: what may follow a
\* state besides an alert, and who may fall into one.
Ladder == <<"INIT", "WAITING_CLIENT_HELLO", "SENT_SERVER_HELLO",
            "SENT_ENCRYPTED_EXTENSIONS", "SENT_CERTIFICATE",
            "SENT_CERTIFICATE_VERIFY", "SENT_FINISHED", "HANDSHAKE_COMPLETE">>

axon_state_is_valid_transition(from, to) ==
  \/ \E i \in 1..7 : from = Ladder[i] /\ to = Ladder[i + 1]
  \/ from = "HANDSHAKE_COMPLETE" /\ to = "HANDSHAKE_COMPLETE"
  \/ /\ \E i \in 2..8 : from = Ladder[i]
     /\ to = "ALERT_SENT"

==============================================================================

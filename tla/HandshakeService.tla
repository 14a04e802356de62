--------------------------- MODULE HandshakeService ---------------------------
(***************************************************************************)
(* What a handshake call promises its caller, whatever the engine does     *)
(* inside: the flight is written message by message in one fixed order, a  *)
(* call that gives up answers nothing, a call that succeeds answers with   *)
(* the whole flight, and every call ends.                                  *)
(***************************************************************************)
EXTENDS Naturals, Sequences

Flight == <<"SERVER_HELLO", "ENCRYPTED_EXTENSIONS", "CERTIFICATE",
            "CERTIFICATE_VERIFY", "FINISHED">>

VARIABLES phase,    \* "idle" or "serving"
          flight,   \* messages written so far for the call
          answered  \* whether the caller may send the flight

vars == <<phase, flight, answered>>

Init == phase = "idle" /\ flight = <<>> /\ answered = FALSE

Accept == /\ phase = "idle"
          /\ phase' = "serving" /\ flight' = <<>> /\ answered' = FALSE

Write == /\ phase = "serving"
         /\ Len(flight) < Len(Flight) - 1
         /\ flight' = Append(flight, Flight[Len(flight) + 1])
         /\ UNCHANGED <<phase, answered>>

Answer == /\ phase = "serving"
          /\ Len(flight) = Len(Flight) - 1
          /\ flight' = Flight
          /\ phase' = "idle" /\ answered' = TRUE

GiveUp == phase = "serving" /\ phase' = "idle" /\ UNCHANGED <<flight, answered>>

\* Between calls the caller may withdraw an answer or start over.
Withdraw == /\ phase = "idle" /\ phase' = "idle"
            /\ flight' \in {flight, <<>>}
            /\ answered' = FALSE

Next == Accept \/ Write \/ Answer \/ GiveUp \/ Withdraw

Spec == Init /\ [][Next]_vars /\ WF_vars(Write \/ Answer \/ GiveUp)

===============================================================================

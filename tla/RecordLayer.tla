----------------------------- MODULE RecordLayer -----------------------------
(***************************************************************************)
(* core/source/record.c between two contexts that hold matching keys.  One *)
(* context has one sequence_number, and both axon_record_encrypt and       *)
(* axon_record_decrypt build their nonce from it and advance it.  The      *)
(* transport (TCP, external) delivers records reliably and in order.       *)
(*                                                                         *)
(* A record on the wire has a kind, the nonce it was sealed with and the   *)
(* number of its payload: how many application records its sender had      *)
(* sealed before it.  An AEAD record opens exactly when the receiver's     *)
(* counter is the nonce it was sealed with.                                *)
(***************************************************************************)
EXTENDS Integers, Sequences

CONSTANTS
  HalfDuplex,    \* whether the application sends only with nothing inbound
  AllocMayFail,  \* whether secure_alloc may return NULL for a fragment
  MaxRecords,    \* bound: application records each side seals
  MaxOthers      \* bound: other records each side writes

ASSUME ModesAssumption  == HalfDuplex \in BOOLEAN /\ AllocMayFail \in BOOLEAN
ASSUME BoundsAssumption == MaxRecords \in Nat /\ MaxOthers \in Nat

Endpoints == {"A", "B"}
Peer(p) == IF p = "A" THEN "B" ELSE "A"

VARIABLES
  sequence_number,  \* of each endpoint's context
  wire,             \* wire[p]: records sent by p and not yet read by its peer
  fragments,        \* fragments each endpoint has allocated and not freed
  sealed,           \* nonces each endpoint has sealed with, in order
  others,           \* records written by axon_record_write
  tried,            \* application records each endpoint has tried to open
  unread,           \* application records each endpoint failed to read
  opened            \* payload numbers each endpoint has opened, in order

vars == <<sequence_number, wire, fragments, sealed, others, tried, unread, opened>>

\* application: at least a tag long.  short: application data of less than 16
\* bytes.  plain: any other content the reader passes on.
OtherKinds == {"short", "plain", "alert"}

Init ==
  /\ sequence_number = [p \in Endpoints |-> 0]
  /\ wire = [p \in Endpoints |-> <<>>]
  /\ fragments = [p \in Endpoints |-> 0]
  /\ sealed = [p \in Endpoints |-> <<>>]
  /\ others = [p \in Endpoints |-> 0]
  /\ tried = [p \in Endpoints |-> 0]
  /\ unread = [p \in Endpoints |-> 0]
  /\ opened = [p \in Endpoints |-> <<>>]

\* Under the half-duplex discipline an endpoint writes only when nothing its
\* peer sent is still under way.
MayWrite(p) == HalfDuplex => wire[Peer(p)] = <<>>

\* The counter is read for the nonce and advanced at once.  A plaintext of
\* more than 16384 bytes is refused before that and changes nothing.
own_records_only(p) == Len(sealed[p])            \* variant: a counter per direction
off_by_one(p)       == sequence_number[p] - 1    \* variant
lowest_bit_only(p)  == sequence_number[p] % 2    \* variant: a nonce too narrow

NextNonce(p) == sequence_number[p]
Advance(p)   == sequence_number' = [sequence_number EXCEPT ![p] = @ + 1]

axon_record_encrypt(p) ==
  /\ MayWrite(p)
  /\ Len(sealed[p]) < MaxRecords
  /\ wire' = [wire EXCEPT ![p] = Append(@, [kind   |-> "application",
                                            nonce  |-> NextNonce(p),
                                            number |-> Len(sealed[p])])]
  /\ sealed' = [sealed EXCEPT ![p] = Append(@, NextNonce(p))]
  /\ Advance(p)
  /\ UNCHANGED <<fragments, others, tried, unread, opened>>

\* A record that is not encrypted uses no nonce.
axon_record_write(p) ==
  /\ MayWrite(p)
  /\ others[p] < MaxOthers
  /\ \E kind \in OtherKinds :
       wire' = [wire EXCEPT ![p] = Append(@, [kind   |-> kind, nonce  |-> 0,
                                              number |-> Len(sealed[p])])]
  /\ others' = [others EXCEPT ![p] = @ + 1]
  /\ UNCHANGED <<sequence_number, fragments, sealed, tried, unread, opened>>

Arrives(p) == wire[Peer(p)] # <<>>
Arrived(p) == Head(wire[Peer(p)])
Consume(p) == wire' = [wire EXCEPT ![Peer(p)] = Tail(@)]

\* Variant: the counter has moved before the nonce is built from it.
advanced_too_early(p, r) == r.nonce = sequence_number[p] + 1

Opens(p, r) == r.nonce = sequence_number[p]

\* Variants of the decryption: only a record that opens moves the counter; one
\* that does not open leaves its fragment.
only_opened_count(p) ==
  /\ Arrives(p) /\ Arrived(p).kind = "application"
  /\ opened' = IF Opens(p, Arrived(p))
               THEN [opened EXCEPT ![p] = Append(@, Arrived(p).number)] ELSE opened
  /\ IF Opens(p, Arrived(p)) THEN Advance(p) ELSE UNCHANGED sequence_number
  /\ tried' = [tried EXCEPT ![p] = @ + 1]
  /\ Consume(p)
  /\ UNCHANGED <<fragments, sealed, others, unread>>

bad_tag_leaks(p) ==
  /\ Arrives(p) /\ Arrived(p).kind = "application"
  /\ IF Opens(p, Arrived(p))
     THEN opened' = [opened EXCEPT ![p] = Append(@, Arrived(p).number)] /\ fragments' = fragments
     ELSE opened' = opened /\ fragments' = [fragments EXCEPT ![p] = @ + 1]
  /\ Advance(p)
  /\ tried' = [tried EXCEPT ![p] = @ + 1]
  /\ Consume(p)
  /\ UNCHANGED <<sealed, others, unread>>

\* Read into a fragment and opened: the counter moves on whether or not the
\* tag verifies, and the fragment is freed.
axon_record_decrypt(p) ==
  /\ Arrives(p) /\ Arrived(p).kind = "application"
  /\ opened' = IF Opens(p, Arrived(p))
               THEN [opened EXCEPT ![p] = Append(@, Arrived(p).number)] ELSE opened
  /\ Advance(p)
  /\ tried' = [tried EXCEPT ![p] = @ + 1]
  /\ Consume(p)
  /\ UNCHANGED <<fragments, sealed, others, unread>>

\* Read into a fragment and turned away, without a nonce and without a free.
decrypt_refuses(p) ==
  /\ Arrives(p) /\ Arrived(p).kind \in {"short", "plain"}
  /\ fragments' = [fragments EXCEPT ![p] = @ + 1]
  /\ Consume(p)
  /\ UNCHANGED <<sequence_number, sealed, others, tried, unread, opened>>

\* axon_record_read turns an alert away before it allocates, as it does a
\* record of no bytes.
read_refuses(p) ==
  /\ Arrives(p) /\ Arrived(p).kind = "alert"
  /\ Consume(p)
  /\ UNCHANGED <<sequence_number, fragments, sealed, others, tried, unread, opened>>

\* Variant: a record that could not be read costs a sequence number.
unread_counts(p) ==
  /\ AllocMayFail
  /\ Arrives(p) /\ Arrived(p).kind = "application"
  /\ unread' = [unread EXCEPT ![p] = @ + 1]
  /\ Advance(p)
  /\ Consume(p)
  /\ UNCHANGED <<fragments, sealed, others, tried, opened>>

\* axon_record_read finds no memory for the fragment; the caller, which sees
\* the same -1 as for a bad record, drops the bytes.
read_runs_out_of_memory(p) ==
  /\ AllocMayFail
  /\ Arrives(p) /\ Arrived(p).kind # "alert"
  /\ unread' = IF Arrived(p).kind = "application"
               THEN [unread EXCEPT ![p] = @ + 1] ELSE unread
  /\ Consume(p)
  /\ UNCHANGED <<sequence_number, fragments, sealed, others, tried, opened>>

Next == \E p \in Endpoints :
  \/ axon_record_encrypt(p)
  \/ axon_record_write(p)
  \/ axon_record_decrypt(p)
  \/ decrypt_refuses(p)
  \/ read_refuses(p)
  \/ read_runs_out_of_memory(p)

Spec == Init /\ [][Next]_vars

===============================================================================

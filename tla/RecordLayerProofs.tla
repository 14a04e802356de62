-------------------------- MODULE RecordLayerProofs --------------------------
(***************************************************************************)
(* For every bound on the traffic: when a genuine record opens, that a     *)
(* context never repeats a nonce, that half duplex is enough for every     *)
(* record to open and for no nonce to be used by both sides, and that in   *)
(* half duplex the two contexts implement DuplexChannel.                   *)
(***************************************************************************)
EXTENDS RecordLayerProperties, FiniteSetTheorems, TLAPS

\* Every step keeps the shape of the variables.
LEMMA TypeStep == TypeOK /\ [Next]_vars => TypeOK'
<1> SUFFICES ASSUME TypeOK, [Next]_vars PROVE TypeOK'
  OBVIOUS
<1> USE DEF TypeOK
<1>1. CASE UNCHANGED vars
  BY <1>1 DEF vars
<1>2. ASSUME NEW p \in Endpoints, axon_record_encrypt(p) PROVE TypeOK'
  <2>1. [kind |-> "application", nonce |-> NextNonce(p), number |-> Len(sealed[p])]
          \in WireRecord
    BY DEF WireRecord, NextNonce
  <2>2. sequence_number[p] + 1 \in Nat
    OBVIOUS
  <2> QED
    BY <1>2, <2>1, <2>2 DEF axon_record_encrypt, Advance, NextNonce
<1>3. ASSUME NEW p \in Endpoints, axon_record_write(p) PROVE TypeOK'
  <2>1. \A kind \in OtherKinds :
          [kind |-> kind, nonce |-> 0, number |-> Len(sealed[p])] \in WireRecord
    BY DEF WireRecord
  <2>2. others[p] + 1 \in Nat
    OBVIOUS
  <2> QED
    BY <1>3, <2>1, <2>2 DEF axon_record_write
<1>4. ASSUME NEW p \in Endpoints, Arrives(p)
      PROVE  /\ Peer(p) \in Endpoints
             /\ Tail(wire[Peer(p)]) \in Seq(WireRecord)
             /\ Arrived(p) \in WireRecord
  BY <1>4 DEF Arrives, Arrived, Peer, Endpoints
<1>5. ASSUME NEW p \in Endpoints, Arrives(p), Consume(p)
      PROVE  wire' \in [Endpoints -> Seq(WireRecord)]
  BY <1>4, <1>5 DEF Consume
<1>6. ASSUME NEW p \in Endpoints, axon_record_decrypt(p) PROVE TypeOK'
  <2>1. Arrives(p) /\ Consume(p)
    BY <1>6 DEF axon_record_decrypt
  <2>2. Arrived(p).number \in Nat
    BY <1>4, <2>1 DEF WireRecord
  <2>3. wire' \in [Endpoints -> Seq(WireRecord)]
    BY <1>5, <2>1
  <2>4. opened' \in [Endpoints -> Seq(Nat)]
    <3>1. Append(opened[p], Arrived(p).number) \in Seq(Nat)
      BY <2>2
    <3> QED
      BY <1>6, <3>1 DEF axon_record_decrypt
  <2>5. /\ sequence_number' \in [Endpoints -> Nat]
        /\ tried' \in [Endpoints -> Nat]
    BY <1>6 DEF axon_record_decrypt, Advance
  <2> QED
    BY <1>6, <2>3, <2>4, <2>5 DEF axon_record_decrypt
<1>7. ASSUME NEW p \in Endpoints, decrypt_refuses(p) PROVE TypeOK'
  <2>1. Arrives(p) /\ Consume(p)
    BY <1>7 DEF decrypt_refuses
  <2>2. wire' \in [Endpoints -> Seq(WireRecord)]
    BY <1>5, <2>1
  <2>3. fragments' \in [Endpoints -> Nat]
    BY <1>7 DEF decrypt_refuses
  <2> QED
    BY <1>7, <2>2, <2>3 DEF decrypt_refuses
<1>8. ASSUME NEW p \in Endpoints, read_refuses(p) PROVE TypeOK'
  <2>1. wire' \in [Endpoints -> Seq(WireRecord)]
    BY <1>5, <1>8 DEF read_refuses
  <2> QED
    BY <1>8, <2>1 DEF read_refuses
<1>9. ASSUME NEW p \in Endpoints, read_runs_out_of_memory(p) PROVE TypeOK'
  <2>1. wire' \in [Endpoints -> Seq(WireRecord)]
    BY <1>5, <1>9 DEF read_runs_out_of_memory
  <2>2. unread' \in [Endpoints -> Nat]
    BY <1>9 DEF read_runs_out_of_memory
  <2> QED
    BY <1>9, <2>1, <2>2 DEF read_runs_out_of_memory
<1> QED
  BY <1>1, <1>2, <1>3, <1>6, <1>7, <1>8, <1>9 DEF Next

\* The shape of the variables is an invariant.
THEOREM TypeCorrect == Spec => []TypeOK
<1>1. Init => TypeOK
  BY DEF Init, TypeOK, Endpoints
<1> QED
  BY <1>1, TypeStep, PTL DEF Spec

-------------------------------------------------------------------------------

\* 1 for a record that carries a payload, else 0.
Payload(r) == IF r.kind = "application" THEN 1 ELSE 0

\* Application records read from p's direction, opened or not.
Taken(p) == tried[Peer(p)] + unread[Peer(p)]

\* The counter of a context counts what it sealed and what it tried to open.
CountersCount ==
  \A p \in Endpoints : sequence_number[p] = Len(sealed[p]) + tried[p]

\* The payload numbers on a wire run from lo, the first one not read yet, to
\* n, the next one to be sealed, moving on after each application record.
Consecutive(w, lo, n) ==
  /\ w = <<>> => n = lo
  /\ w # <<>> =>
       /\ w[1].number = lo
       /\ w[Len(w)].number + Payload(w[Len(w)]) = n
       /\ \A i \in 1..(Len(w) - 1) : w[i + 1].number = w[i].number + Payload(w[i])

WireConsecutive(p) == Consecutive(wire[p], Taken(p), Len(sealed[p]))

NoncesBelowCounter ==
  \A p \in Endpoints : \A i \in 1..Len(sealed[p]) : sealed[p][i] < sequence_number[p]

IInv ==
  /\ TypeOK
  /\ CountersCount
  /\ \A p \in Endpoints : WireConsecutive(p)
  /\ NoncesBelowCounter
  /\ NonceOncePerSender

\* Writing a record behind the others keeps the numbers consecutive.
LEMMA AppendConsecutive ==
  ASSUME NEW w \in Seq(WireRecord), NEW r \in WireRecord, NEW lo \in Nat,
         NEW n \in Nat, Consecutive(w, lo, n), r.number = n
  PROVE  Consecutive(Append(w, r), lo, n + Payload(r))
<1> DEFINE v == Append(w, r)
<1>1. v \in Seq(WireRecord) /\ Len(v) = Len(w) + 1 /\ v[Len(w) + 1] = r
  OBVIOUS
<1>2. \A i \in 1..Len(w) : v[i] = w[i]
  OBVIOUS
<1> HIDE DEF v
<1>3. v # <<>> /\ v[Len(v)].number + Payload(v[Len(v)]) = n + Payload(r)
  BY <1>1 DEF Payload
<1>4. v[1].number = lo /\ \A i \in 1..(Len(v) - 1) :
                            v[i + 1].number = v[i].number + Payload(v[i])
  <2>1. CASE w = <<>>
    BY <1>1, <2>1 DEF Consecutive
  <2>2. CASE w # <<>>
    <3>1. Len(w) \in Nat /\ Len(w) >= 1
      BY <2>2
    <3>2. v[1].number = lo
      BY <1>2, <2>2, <3>1 DEF Consecutive
    <3>3. ASSUME NEW i \in 1..(Len(v) - 1)
          PROVE  v[i + 1].number = v[i].number + Payload(v[i])
      <4>1. CASE i = Len(w)
        BY <1>1, <1>2, <2>2, <3>1, <4>1 DEF Consecutive
      <4>2. CASE i # Len(w)
        <5>1. i \in 1..(Len(w) - 1) /\ i \in 1..Len(w) /\ i + 1 \in 1..Len(w)
          BY <1>1, <3>1, <4>2
        <5> QED
          BY <1>2, <2>2, <5>1 DEF Consecutive
      <4> QED
        BY <4>1, <4>2
    <3> QED
      BY <3>2, <3>3
  <2> QED
    BY <2>1, <2>2
<1> QED
  BY <1>3, <1>4 DEF Consecutive, v

\* Taking the first record off moves the first number on past its payload.
LEMMA TailConsecutive ==
  ASSUME NEW w \in Seq(WireRecord), w # <<>>, NEW lo \in Nat, NEW n \in Nat,
         Consecutive(w, lo, n)
  PROVE  Consecutive(Tail(w), lo + Payload(w[1]), n)
<1> DEFINE v == Tail(w)
<1>1. v \in Seq(WireRecord) /\ Len(v) = Len(w) - 1 /\ Len(w) \in Nat /\ Len(w) >= 1
  OBVIOUS
<1>2. \A i \in 1..Len(v) : v[i] = w[i + 1]
  OBVIOUS
<1> HIDE DEF v
<1>3. CASE v = <<>>
  <2>1. Len(v) = 0
    BY <1>3
  <2>2. Len(w) = 1
    BY <1>1, <2>1
  <2> QED
    BY <1>3, <2>2 DEF Consecutive, v
<1>4. CASE v # <<>>
  <2>1. Len(v) >= 1
    BY <1>1, <1>4
  <2>2. v[1].number = lo + Payload(w[1])
    BY <1>1, <1>2, <2>1 DEF Consecutive
  <2>3. v[Len(v)] = w[Len(w)]
    BY <1>1, <1>2, <2>1
  <2>4. \A i \in 1..(Len(v) - 1) : v[i + 1].number = v[i].number + Payload(v[i])
    BY <1>1, <1>2 DEF Consecutive
  <2> QED
    BY <1>4, <2>2, <2>3, <2>4 DEF Consecutive, v
<1> QED
  BY <1>3, <1>4

LEMMA PeerFacts ==
  ASSUME NEW p \in Endpoints
  PROVE  /\ Peer(p) \in Endpoints /\ Peer(p) # p /\ Peer(Peer(p)) = p
         /\ \A r \in Endpoints : r = p \/ r = Peer(p)
BY DEF Peer, Endpoints

\* Whoever reads a record, and however it ends, the numbers stay consecutive
\* as long as an application record is counted as tried or unread.
LEMMA ReadingKeepsNumbers ==
  ASSUME TypeOK, \A r \in Endpoints : WireConsecutive(r),
         NEW p \in Endpoints, Arrives(p), Consume(p), TypeOK',
         sealed' = sealed,
         tried'[p] + unread'[p] = tried[p] + unread[p] + Payload(Arrived(p)),
         tried'[Peer(p)] = tried[Peer(p)], unread'[Peer(p)] = unread[Peer(p)]
  PROVE  \A r \in Endpoints : WireConsecutive(r)'
<1> DEFINE q == Peer(p)
           w == wire[q]
<1>1. q \in Endpoints /\ q # p /\ Peer(q) = p /\ \A r \in Endpoints : r = p \/ r = q
  BY PeerFacts
<1>2. w \in Seq(WireRecord) /\ w # <<>> /\ Arrived(p) = w[1]
  BY <1>1 DEF TypeOK, Arrives, Arrived
<1>3. wire'[q] = Tail(w) /\ wire'[p] = wire[p]
  BY <1>1 DEF Consume, TypeOK
<1>4. Len(sealed[q]) \in Nat
  BY <1>1 DEF TypeOK
<1>5. Taken(q) \in Nat /\ Taken(q)' = Taken(q) + Payload(w[1])
  <2>1. Taken(q) = tried[p] + unread[p] /\ Taken(q)' = tried'[p] + unread'[p]
    BY <1>1 DEF Taken
  <2>2. tried[p] \in Nat /\ unread[p] \in Nat
    BY DEF TypeOK
  <2> QED
    BY <1>2, <2>1, <2>2
<1>6. Consecutive(w, Taken(q), Len(sealed[q]))
  BY <1>1 DEF WireConsecutive
<1>7. WireConsecutive(q)'
  <2>1. Consecutive(Tail(w), Taken(q) + Payload(w[1]), Len(sealed[q]))
    BY <1>2, <1>4, <1>5, <1>6, TailConsecutive
  <2> QED
    BY <1>3, <1>5, <2>1 DEF WireConsecutive
<1>8. WireConsecutive(p)'
  <2>1. Taken(p)' = Taken(p)
    BY DEF Taken
  <2> QED
    BY <1>3, <2>1 DEF WireConsecutive
<1> QED
  BY <1>1, <1>7, <1>8

\* Writing a record, application or not, keeps them consecutive too.
LEMMA WritingKeepsNumbers ==
  ASSUME TypeOK, TypeOK', \A r \in Endpoints : WireConsecutive(r),
         NEW p \in Endpoints, NEW r0 \in WireRecord,
         r0.number = Len(sealed[p]),
         wire' = [wire EXCEPT ![p] = Append(@, r0)],
         Len(sealed'[p]) = Len(sealed[p]) + Payload(r0),
         sealed'[Peer(p)] = sealed[Peer(p)],
         tried' = tried, unread' = unread
  PROVE  \A r \in Endpoints : WireConsecutive(r)'
<1> DEFINE q == Peer(p)
<1>1. q \in Endpoints /\ q # p /\ Peer(q) = p /\ \A r \in Endpoints : r = p \/ r = q
  BY PeerFacts
<1>2. wire'[p] = Append(wire[p], r0) /\ wire'[q] = wire[q]
  BY <1>1 DEF TypeOK
<1>3. wire[p] \in Seq(WireRecord) /\ Len(sealed[p]) \in Nat
  BY DEF TypeOK
<1>4. Taken(p) \in Nat /\ Taken(p)' = Taken(p) /\ Taken(q)' = Taken(q)
  <2>1. tried[q] \in Nat /\ unread[q] \in Nat
    BY <1>1 DEF TypeOK
  <2> QED
    BY <1>1, <2>1 DEF Taken
<1>5. WireConsecutive(p)'
  <2>1. Consecutive(Append(wire[p], r0), Taken(p), Len(sealed[p]) + Payload(r0))
    BY <1>3, <1>4, AppendConsecutive DEF WireConsecutive
  <2> QED
    BY <1>2, <1>4, <2>1 DEF WireConsecutive
<1>6. WireConsecutive(q)'
  BY <1>1, <1>2, <1>4 DEF WireConsecutive
<1> QED
  BY <1>1, <1>5, <1>6

-------------------------------------------------------------------------------

\* What every step but the sealing of a record leaves alone.
LEMMA NotSealing ==
  ASSUME IInv, TypeOK', UNCHANGED sealed, CountersCount',
         \A r \in Endpoints : sequence_number'[r] >= sequence_number[r]
  PROVE  NoncesBelowCounter' /\ NonceOncePerSender'
<1> USE DEF IInv
<1>1. ASSUME NEW r \in Endpoints, NEW i \in 1..Len(sealed[r])
      PROVE  sealed[r][i] < sequence_number'[r]
  <2>1. sealed[r][i] < sequence_number[r] /\ sequence_number'[r] >= sequence_number[r]
    BY DEF NoncesBelowCounter
  <2>2. /\ sealed[r][i] \in Nat /\ sequence_number[r] \in Nat
        /\ sequence_number'[r] \in Nat
    <3>1. sealed \in [Endpoints -> Seq(Nat)] /\ sequence_number \in [Endpoints -> Nat]
      BY DEF TypeOK
    <3>2. sequence_number' \in [Endpoints -> Nat]
      BY DEF TypeOK
    <3> QED
      BY <3>1, <3>2
  <2> QED
    BY <2>1, <2>2
<1> QED
  BY <1>1 DEF NoncesBelowCounter, NonceOncePerSender

\* Sealing takes a nonce above all of that context's and moves the counter on.
LEMMA SealingStep ==
  ASSUME IInv, TypeOK', NEW p \in Endpoints, axon_record_encrypt(p)
  PROVE  CountersCount' /\ NoncesBelowCounter' /\ NonceOncePerSender'
<1> USE DEF IInv
<1>1. /\ sealed'[p] = Append(sealed[p], sequence_number[p])
      /\ sequence_number'[p] = sequence_number[p] + 1
      /\ sequence_number[p] \in Nat /\ sealed[p] \in Seq(Nat)
  BY DEF axon_record_encrypt, Advance, NextNonce, TypeOK
<1>2. \A r \in Endpoints : r # p => /\ sealed'[r] = sealed[r]
                                   /\ sequence_number'[r] = sequence_number[r]
  BY DEF axon_record_encrypt, Advance, TypeOK
<1>3. tried' = tried /\ \A r \in Endpoints : tried[r] \in Nat /\ Len(sealed[r]) \in Nat
  BY DEF axon_record_encrypt, TypeOK
<1>4. /\ Len(sealed'[p]) = Len(sealed[p]) + 1
      /\ \A i \in 1..Len(sealed[p]) : sealed'[p][i] = sealed[p][i] /\ sealed[p][i] \in Nat
      /\ sealed'[p][Len(sealed[p]) + 1] = sequence_number[p]
  BY <1>1
<1>5. CountersCount'
  <2>1. sequence_number'[p] = Len(sealed'[p]) + tried'[p]
    <3>1. sequence_number[p] = Len(sealed[p]) + tried[p]
      BY DEF CountersCount
    <3>2. tried'[p] = tried[p] /\ tried[p] \in Nat /\ Len(sealed[p]) \in Nat
      BY <1>3
    <3>3. /\ sequence_number'[p] = sequence_number[p] + 1
          /\ Len(sealed'[p]) = Len(sealed[p]) + 1
      BY <1>1, <1>4
    <3> QED
      BY <3>1, <3>2, <3>3
  <2> QED
    BY <1>2, <1>3, <2>1 DEF CountersCount
<1>6. NoncesBelowCounter'
  <2>1. \A i \in 1..Len(sealed'[p]) : sealed'[p][i] < sequence_number'[p]
    <3> SUFFICES ASSUME NEW i \in 1..Len(sealed'[p])
                 PROVE  sealed'[p][i] < sequence_number'[p]
      OBVIOUS
    <3>1. CASE i = Len(sealed[p]) + 1
      BY <1>1, <1>4, <3>1
    <3>2. CASE i # Len(sealed[p]) + 1
      <4>1. i \in 1..Len(sealed[p])
        BY <1>3, <1>4, <3>2
      <4>2. sealed[p][i] < sequence_number[p]
        BY <4>1 DEF NoncesBelowCounter
      <4> QED
        BY <1>1, <1>4, <4>1, <4>2
    <3> QED
      BY <3>1, <3>2
  <2> QED
    BY <1>2, <2>1 DEF NoncesBelowCounter
<1>7. NonceOncePerSender'
  <2>1. ASSUME NEW i \in 1..Len(sealed'[p]), NEW j \in 1..Len(sealed'[p]), i < j
        PROVE  sealed'[p][i] < sealed'[p][j]
    <3>1. i \in 1..Len(sealed[p])
      BY <1>3, <1>4, <2>1
    <3>2. CASE j = Len(sealed[p]) + 1
      BY <1>4, <3>1, <3>2 DEF NoncesBelowCounter
    <3>3. CASE j # Len(sealed[p]) + 1
      <4>1. j \in 1..Len(sealed[p])
        BY <1>3, <1>4, <3>3
      <4> QED
        BY <1>4, <2>1, <3>1, <4>1 DEF NonceOncePerSender
    <3> QED
      BY <3>2, <3>3
  <2> QED
    BY <1>2, <2>1 DEF NonceOncePerSender
<1> QED
  BY <1>5, <1>6, <1>7

\* Reading a record, whichever way it ends.
LEMMA ReadingStep ==
  ASSUME IInv, TypeOK', NEW p \in Endpoints, Arrives(p), Consume(p),
         UNCHANGED sealed, \A r \in Endpoints : r # p =>
           /\ sequence_number'[r] = sequence_number[r]
           /\ tried'[r] = tried[r] /\ unread'[r] = unread[r],
         sequence_number'[p] - sequence_number[p] = tried'[p] - tried[p],
         tried'[p] >= tried[p],
         tried'[p] + unread'[p] = tried[p] + unread[p] + Payload(Arrived(p))
  PROVE  IInv'
<1> USE DEF IInv
<1>1. \A r \in Endpoints : WireConsecutive(r)'
  BY PeerFacts, ReadingKeepsNumbers
<1>2. \A r \in Endpoints :
        /\ sequence_number[r] \in Nat /\ sequence_number'[r] \in Nat
        /\ tried[r] \in Nat /\ tried'[r] \in Nat /\ Len(sealed[r]) \in Nat
  BY DEF TypeOK
<1>3. CountersCount'
  <2> SUFFICES ASSUME NEW r \in Endpoints
               PROVE  sequence_number'[r] = Len(sealed'[r]) + tried'[r]
    BY DEF CountersCount
  <2>1. sequence_number[r] = Len(sealed[r]) + tried[r]
    BY DEF CountersCount
  <2>2. CASE r = p
    <3>1. /\ sequence_number[p] \in Nat /\ sequence_number'[p] \in Nat
          /\ tried[p] \in Nat /\ tried'[p] \in Nat /\ Len(sealed[p]) \in Nat
      BY <1>2
    <3>2. sequence_number'[p] = Len(sealed[p]) + tried'[p]
      BY <2>1, <2>2, <3>1
    <3> QED
      BY <2>2, <3>2
  <2>3. CASE r # p
    BY <1>2, <2>1, <2>3
  <2> QED
    BY <2>2, <2>3
<1>4. \A r \in Endpoints : sequence_number'[r] >= sequence_number[r]
  <2> SUFFICES ASSUME NEW r \in Endpoints
               PROVE  sequence_number'[r] >= sequence_number[r]
    OBVIOUS
  <2> QED
    BY <1>2
<1> QED
  BY <1>1, <1>3, <1>4, NotSealing

LEMMA InductiveStep == IInv /\ [Next]_vars => IInv'
<1> SUFFICES ASSUME IInv, [Next]_vars PROVE IInv'
  OBVIOUS
<1> USE DEF IInv
<1>1. TypeOK'
  BY TypeStep
<1>2. CASE UNCHANGED vars
  BY <1>1, <1>2 DEF vars, CountersCount, WireConsecutive, Taken, NoncesBelowCounter,
                    NonceOncePerSender
<1>3. ASSUME NEW p \in Endpoints, axon_record_encrypt(p) PROVE IInv'
  <2> DEFINE r0 == [kind |-> "application", nonce |-> NextNonce(p),
                    number |-> Len(sealed[p])]
  <2>1. r0 \in WireRecord /\ r0.number = Len(sealed[p]) /\ Payload(r0) = 1
    BY DEF WireRecord, NextNonce, TypeOK, Payload
  <2>2. /\ Len(sealed'[p]) = Len(sealed[p]) + Payload(r0)
        /\ sealed'[Peer(p)] = sealed[Peer(p)]
    <3>1. sealed'[p] = Append(sealed[p], NextNonce(p)) /\ sealed[p] \in Seq(Nat)
      BY <1>3 DEF axon_record_encrypt, TypeOK
    <3>2. sealed'[Peer(p)] = sealed[Peer(p)]
      BY <1>3, PeerFacts DEF axon_record_encrypt, TypeOK
    <3> QED
      BY <2>1, <3>1, <3>2
  <2>3. /\ wire' = [wire EXCEPT ![p] = Append(@, r0)]
        /\ tried' = tried /\ unread' = unread
    BY <1>3 DEF axon_record_encrypt
  <2> HIDE DEF r0
  <2>4. \A r \in Endpoints : WireConsecutive(r)'
    BY <1>1, <2>1, <2>2, <2>3, WritingKeepsNumbers
  <2> QED
    BY <1>1, <1>3, <2>4, SealingStep
<1>4. ASSUME NEW p \in Endpoints, axon_record_write(p) PROVE IInv'
  <2>1. PICK kind \in OtherKinds :
          wire' = [wire EXCEPT ![p] = Append(@, [kind |-> kind, nonce |-> 0,
                                                 number |-> Len(sealed[p])])]
    BY <1>4 DEF axon_record_write
  <2> DEFINE r0 == [kind |-> kind, nonce |-> 0, number |-> Len(sealed[p])]
  <2>2. r0 \in WireRecord /\ r0.number = Len(sealed[p]) /\ Payload(r0) = 0
    BY DEF WireRecord, TypeOK, Payload, OtherKinds
  <2>3. wire' = [wire EXCEPT ![p] = Append(@, r0)]
    BY <2>1
  <2>4. UNCHANGED <<sealed, tried, unread, sequence_number>>
    BY <1>4 DEF axon_record_write
  <2> HIDE DEF r0
  <2>5. Len(sealed'[p]) = Len(sealed[p]) + Payload(r0)
    BY <2>2, <2>4 DEF TypeOK
  <2>6. \A r \in Endpoints : WireConsecutive(r)'
    BY <1>1, <2>2, <2>3, <2>4, <2>5, WritingKeepsNumbers
  <2>7. CountersCount'
    BY <2>4 DEF CountersCount
  <2> QED
    BY <1>1, <2>4, <2>6, <2>7 DEF NoncesBelowCounter, NonceOncePerSender
<1>5. ASSUME NEW p \in Endpoints, axon_record_decrypt(p) PROVE IInv'
  <2>1. /\ Arrives(p) /\ Consume(p) /\ UNCHANGED <<sealed, unread>>
        /\ Payload(Arrived(p)) = 1
    BY <1>5 DEF axon_record_decrypt, Payload
  <2>2. /\ tried'[p] = tried[p] + 1 /\ tried[p] \in Nat /\ unread[p] \in Nat
        /\ sequence_number'[p] = sequence_number[p] + 1 /\ sequence_number[p] \in Nat
    BY <1>5 DEF axon_record_decrypt, Advance, TypeOK
  <2>3. \A r \in Endpoints : r # p => /\ sequence_number'[r] = sequence_number[r]
                                     /\ tried'[r] = tried[r]
    BY <1>5 DEF axon_record_decrypt, Advance, TypeOK
  <2>4. /\ sequence_number'[p] - sequence_number[p] = tried'[p] - tried[p]
        /\ tried'[p] >= tried[p]
        /\ tried'[p] + unread'[p] = tried[p] + unread[p] + Payload(Arrived(p))
    BY <2>1, <2>2
  <2> QED
    BY <1>1, <2>1, <2>3, <2>4, ReadingStep
<1>6. ASSUME NEW p \in Endpoints, decrypt_refuses(p) \/ read_refuses(p) PROVE IInv'
  <2>1. /\ Arrives(p) /\ Consume(p) /\ UNCHANGED <<sealed, unread, tried, sequence_number>>
        /\ Payload(Arrived(p)) = 0
    BY <1>6 DEF decrypt_refuses, read_refuses, Payload
  <2>2. tried[p] \in Nat /\ unread[p] \in Nat /\ sequence_number[p] \in Nat
    BY DEF TypeOK
  <2>3. /\ sequence_number'[p] - sequence_number[p] = tried'[p] - tried[p]
        /\ tried'[p] >= tried[p]
        /\ tried'[p] + unread'[p] = tried[p] + unread[p] + Payload(Arrived(p))
    BY <2>1, <2>2
  <2> QED
    BY <1>1, <2>1, <2>3, ReadingStep
<1>7. ASSUME NEW p \in Endpoints, read_runs_out_of_memory(p) PROVE IInv'
  <2>1. /\ Arrives(p) /\ Consume(p) /\ UNCHANGED <<sealed, tried, sequence_number>>
    BY <1>7 DEF read_runs_out_of_memory
  <2>2. tried[p] \in Nat /\ unread[p] \in Nat /\ sequence_number[p] \in Nat
    BY DEF TypeOK
  <2>3. unread'[p] = unread[p] + Payload(Arrived(p))
    BY <1>7, <2>2 DEF read_runs_out_of_memory, Payload, TypeOK
  <2>4. \A r \in Endpoints : r # p => unread'[r] = unread[r]
    BY <1>7 DEF read_runs_out_of_memory, TypeOK
  <2>5. /\ sequence_number'[p] - sequence_number[p] = tried'[p] - tried[p]
        /\ tried'[p] >= tried[p]
        /\ tried'[p] + unread'[p] = tried[p] + unread[p] + Payload(Arrived(p))
    BY <2>1, <2>2, <2>3 DEF Payload
  <2> QED
    BY <1>1, <2>1, <2>4, <2>5, ReadingStep
<1> QED
  BY <1>2, <1>3, <1>4, <1>5, <1>6, <1>7 DEF Next

LEMMA Invariance == Spec => []IInv
<1>1. Init => IInv
  <2> SUFFICES ASSUME Init PROVE IInv
    OBVIOUS
  <2>1. TypeOK
    BY DEF Init, TypeOK, Endpoints
  <2>2. \A p \in Endpoints : /\ sequence_number[p] = 0 /\ tried[p] = 0 /\ unread[p] = 0
                            /\ sealed[p] = <<>> /\ Len(sealed[p]) = 0 /\ wire[p] = <<>>
    BY DEF Init
  <2>3. CountersCount /\ NoncesBelowCounter /\ NonceOncePerSender
    BY <2>2 DEF CountersCount, NoncesBelowCounter, NonceOncePerSender
  <2>4. \A p \in Endpoints : WireConsecutive(p)
    <3> SUFFICES ASSUME NEW p \in Endpoints PROVE WireConsecutive(p)
      OBVIOUS
    <3>1. Taken(p) = 0
      BY <2>2, PeerFacts DEF Taken
    <3> QED
      BY <2>2, <3>1 DEF WireConsecutive, Consecutive
  <2> QED
    BY <2>1, <2>3, <2>4 DEF IInv
<1> QED
  BY <1>1, InductiveStep, PTL DEF Spec

\* A context never seals twice with the same nonce: receiving moves the counter
\* too, but never back (record.c:84-85, 112-113).
THEOREM NoncesNeverRepeat == Spec => []NonceOncePerSender
<1>1. IInv => NonceOncePerSender
  BY DEF IInv
<1> QED
  BY <1>1, Invariance, PTL

\* What arrives first carries the number of records its receiver has read.
LEMMA HeadNumber ==
  ASSUME IInv, NEW p \in Endpoints, Arrives(p)
  PROVE  /\ Arrived(p) \in WireRecord
         /\ Arrived(p).number = tried[p] + unread[p]
         /\ sequence_number[p] = Len(sealed[p]) + tried[p]
<1>1. Peer(p) \in Endpoints /\ Peer(Peer(p)) = p
  BY PeerFacts
<1>2. wire[Peer(p)] \in Seq(WireRecord) /\ wire[Peer(p)] # <<>>
  BY <1>1 DEF IInv, TypeOK, Arrives
<1>3. WireConsecutive(Peer(p))
  BY <1>1 DEF IInv
<1>4. wire[Peer(p)][1].number = tried[p] + unread[p]
  BY <1>1, <1>2, <1>3 DEF WireConsecutive, Consecutive, Taken
<1>5. Arrived(p) = wire[Peer(p)][1] /\ Arrived(p) \in WireRecord
  BY <1>2 DEF Arrived
<1> QED
  BY <1>4, <1>5 DEF IInv, CountersCount

\* Exactly when a genuine record opens in full duplex, for all traffic.
THEOREM OpeningExplained == Spec => []OpensUnlessCrossed
<1>1. IInv => OpensUnlessCrossed
  <2> SUFFICES ASSUME IInv, NEW p \in Endpoints, Arrives(p)
               PROVE  Opens(p, Arrived(p)) <=>
                        Arrived(p).nonce - Arrived(p).number + unread[p] = Len(sealed[p])
    BY DEF OpensUnlessCrossed
  <2>1. Arrived(p).nonce \in Nat /\ Arrived(p).number \in Nat
    BY HeadNumber DEF WireRecord
  <2>3. tried[p] \in Nat /\ unread[p] \in Nat /\ Len(sealed[p]) \in Nat
    BY DEF IInv, TypeOK
  <2>2. /\ Arrived(p).number = tried[p] + unread[p]
        /\ sequence_number[p] = Len(sealed[p]) + tried[p]
    BY HeadNumber
  <2> QED
    BY <2>1, <2>2, <2>3 DEF Opens
<1> QED
  BY <1>1, Invariance, PTL

-------------------------------------------------------------------------------
(* Half duplex with memory to be had. *)

\* Only one direction is in use at a time, a record under way was sealed with
\* the number of all records sealed before it on either side, and so no nonce
\* is used on both sides.
TotalSealed == Len(sealed["A"]) + Len(sealed["B"])

OneDirection == wire["A"] = <<>> \/ wire["B"] = <<>>

HInv ==
  /\ \A p \in Endpoints : unread[p] = 0
  /\ OneDirection
  /\ \A p \in Endpoints : \A i \in 1..Len(wire[p]) :
       wire[p][i].kind = "application"
         => wire[p][i].nonce = wire[p][i].number + Len(sealed[Peer(p)])
  /\ \A p \in Endpoints : \A i \in 1..Len(sealed[p]) : sealed[p][i] < TotalSealed
  /\ \A i \in 1..Len(sealed["A"]), j \in 1..Len(sealed["B"]) :
       sealed["A"][i] # sealed["B"][j]

\* Two numbers have the same sum in either order, before and after one grows.
LEMMA SumEitherWay ==
  ASSUME NEW a \in Nat, NEW b \in Nat, NEW u, NEW v, NEW u1, NEW v1,
         \/ u = a /\ v = b /\ u1 = a + 1 /\ v1 = b
         \/ u = b /\ v = a /\ u1 = b /\ v1 = a + 1
  PROVE  u + v = a + b /\ u1 + v1 = a + b + 1
  OBVIOUS

\* Half duplex keeps HInv.
LEMMA HalfDuplexStep ==
  ASSUME HalfDuplex, ~AllocMayFail, IInv, IInv', HInv, [Next]_vars
  PROVE  HInv'
<1> USE DEF HInv
<1>1. CASE UNCHANGED vars
  BY <1>1 DEF vars, OneDirection, TotalSealed
<1>2. ASSUME NEW p \in Endpoints, axon_record_encrypt(p) PROVE HInv'
  <2> DEFINE q == Peer(p)
             n == sequence_number[p]
             r0 == [kind |-> "application", nonce |-> n, number |-> Len(sealed[p])]
  <2>1. q \in Endpoints /\ q # p /\ Peer(q) = p /\ \A r \in Endpoints : r = p \/ r = q
    BY PeerFacts
  <2>2. /\ wire[q] = <<>> /\ wire'[q] = <<>> /\ wire'[p] = Append(wire[p], r0)
        /\ wire[p] \in Seq(WireRecord)
    BY <1>2, <2>1 DEF axon_record_encrypt, MayWrite, NextNonce, IInv, TypeOK
  <2>3. /\ sealed'[p] = Append(sealed[p], n) /\ sealed'[q] = sealed[q]
        /\ sealed[p] \in Seq(Nat) /\ sealed[q] \in Seq(Nat) /\ n \in Nat
    BY <1>2, <2>1 DEF axon_record_encrypt, NextNonce, IInv, TypeOK
  <2>4. n = Len(sealed[p]) + Len(sealed[q])
    <3>1. WireConsecutive(q) /\ unread[p] = 0 /\ n = Len(sealed[p]) + tried[p]
      BY <2>1 DEF IInv, CountersCount
    <3>2. tried[p] \in Nat
      BY DEF IInv, TypeOK
    <3>3. Len(sealed[q]) = tried[p]
      BY <2>1, <2>2, <3>1, <3>2 DEF WireConsecutive, Consecutive, Taken
    <3> QED
      BY <3>1, <3>3
  <2>5. TotalSealed = n /\ TotalSealed' = n + 1
    <3>1. /\ Len(sealed'[p]) = Len(sealed[p]) + 1 /\ Len(sealed'[q]) = Len(sealed[q])
          /\ Len(sealed[p]) \in Nat /\ Len(sealed[q]) \in Nat
      BY <2>3
    <3>2. \/ p = "A" /\ q = "B"
          \/ p = "B" /\ q = "A"
      BY DEF Peer, Endpoints
    <3>3. /\ Len(sealed["A"]) + Len(sealed["B"]) = Len(sealed[p]) + Len(sealed[q])
          /\ Len(sealed'["A"]) + Len(sealed'["B"]) = Len(sealed[p]) + Len(sealed[q]) + 1
      <4> DEFINE a  == Len(sealed[p])    b  == Len(sealed[q])
                 u  == Len(sealed["A"])  v  == Len(sealed["B"])
                 u1 == Len(sealed'["A"]) v1 == Len(sealed'["B"])
      <4>1. a \in Nat /\ b \in Nat /\ Len(sealed'[p]) = a + 1 /\ Len(sealed'[q]) = b
        BY <3>1
      <4>2. \/ u = a /\ v = b /\ u1 = a + 1 /\ v1 = b
            \/ u = b /\ v = a /\ u1 = b /\ v1 = a + 1
        BY <3>2, <4>1, Zenon
      <4>3. u + v = a + b /\ u1 + v1 = a + b + 1
        <5> HIDE DEF a, b, u, v, u1, v1
        <5> QED
          BY <4>1, <4>2, SumEitherWay
      <4> QED
        BY <4>3
    <3> QED
      BY <2>4, <3>3 DEF TotalSealed
  <2>6. (\A r \in Endpoints : unread[r] = 0)'
    BY <1>2 DEF axon_record_encrypt
  <2>7. OneDirection'
    BY <2>1, <2>2 DEF OneDirection, Endpoints
  <2>8. ASSUME NEW r \in Endpoints, NEW i \in 1..Len(wire'[r]),
               wire'[r][i].kind = "application"
        PROVE  wire'[r][i].nonce = wire'[r][i].number + Len(sealed'[Peer(r)])
    <3>1. r = p
      BY <2>1, <2>2
    <3>2. CASE i = Len(wire[p]) + 1
      <4>1. wire'[r][i] = r0
        BY <2>2, <3>1, <3>2
      <4>2. Len(sealed'[Peer(r)]) = Len(sealed[q])
        BY <2>3, <3>1
      <4> QED
        BY <2>4, <4>1, <4>2
    <3>3. CASE i # Len(wire[p]) + 1
      <4>1. i \in 1..Len(wire[p]) /\ wire'[r][i] = wire[p][i]
        BY <2>2, <3>1, <3>3
      <4>2. Len(sealed'[Peer(r)]) = Len(sealed[Peer(p)])
        BY <2>3, <3>1
      <4> QED
        BY <2>8, <4>1, <4>2
    <3> QED
      BY <3>2, <3>3
  <2>9. ASSUME NEW r \in Endpoints, NEW i \in 1..Len(sealed'[r])
        PROVE  sealed'[r][i] < TotalSealed'
    <3>1. CASE r = p /\ i = Len(sealed[p]) + 1
      BY <2>3, <2>5, <3>1
    <3>2. CASE ~(r = p /\ i = Len(sealed[p]) + 1)
      <4>1. i \in 1..Len(sealed[r]) /\ sealed'[r][i] = sealed[r][i] /\ sealed[r][i] \in Nat
        <5>1. CASE r = p
          BY <2>3, <3>2, <5>1
        <5>2. CASE r # p
          BY <2>1, <2>3, <5>2
        <5> QED
          BY <5>1, <5>2
      <4>2. sealed[r][i] < TotalSealed
        BY <4>1
      <4>3. n \in Nat
        BY <2>3
      <4> QED
        BY <2>5, <4>1, <4>2, <4>3
    <3> QED
      BY <3>1, <3>2
  <2>10. ASSUME NEW i \in 1..Len(sealed'["A"]), NEW j \in 1..Len(sealed'["B"])
         PROVE  sealed'["A"][i] # sealed'["B"][j]
    <3>1. \A k \in 1..Len(sealed'[p]) : k \in 1..Len(sealed[p]) \/ k = Len(sealed[p]) + 1
      BY <2>3
    <3>2. /\ \A k \in 1..Len(sealed[p]) : sealed'[p][k] = sealed[p][k]
          /\ sealed'[p][Len(sealed[p]) + 1] = n
      BY <2>3
    <3>3. ASSUME NEW k \in 1..Len(sealed[q]) PROVE sealed[q][k] < n /\ sealed[q][k] \in Nat
      <4>1. sealed[q][k] < TotalSealed
        BY <2>1
      <4>2. sealed[q][k] \in Nat
        <5>1. sealed[q] \in Seq(Nat)
          BY <2>3
        <5> HIDE DEF q
        <5> QED
          BY <5>1
      <4> QED
        BY <2>5, <4>1, <4>2
    <3>4. \A k \in 1..Len(sealed'[p]), l \in 1..Len(sealed[q]) :
            k = Len(sealed[p]) + 1 => sealed'[p][k] # sealed[q][l]
      BY <2>3, <3>2, <3>3
    <3>5. \/ p = "A" /\ q = "B"
          \/ p = "B" /\ q = "A"
      BY DEF Peer, Endpoints
    <3>6. CASE p = "A" /\ q = "B"
      <4>1. CASE i \in 1..Len(sealed["A"])
        <5>1. sealed'["B"] = sealed["B"] /\ j \in 1..Len(sealed["B"])
          BY <2>3, <3>6
        <5>2. sealed'["A"][i] = sealed["A"][i]
          BY <3>2, <3>6, <4>1
        <5> QED
          BY <4>1, <5>1, <5>2
      <4>2. CASE i = Len(sealed["A"]) + 1
        BY <2>3, <3>4, <3>6, <4>2
      <4> QED
        BY <3>1, <3>6, <4>1, <4>2
    <3>7. CASE p = "B" /\ q = "A"
      <4>1. CASE j \in 1..Len(sealed["B"])
        <5>1. sealed'["A"] = sealed["A"] /\ i \in 1..Len(sealed["A"])
          BY <2>3, <3>7
        <5>2. sealed'["B"][j] = sealed["B"][j]
          BY <3>2, <3>7, <4>1
        <5> QED
          BY <4>1, <5>1, <5>2
      <4>2. CASE j = Len(sealed["B"]) + 1
        BY <2>3, <3>4, <3>7, <4>2
      <4> QED
        BY <3>1, <3>7, <4>1, <4>2
    <3> QED
      BY <3>5, <3>6, <3>7
  <2> QED
    BY <2>6, <2>7, <2>8, <2>9, <2>10
<1>3. ASSUME NEW p \in Endpoints, axon_record_write(p) PROVE HInv'
  <2> DEFINE q == Peer(p)
  <2>1. q \in Endpoints /\ q # p /\ Peer(q) = p /\ \A r \in Endpoints : r = p \/ r = q
    BY PeerFacts
  <2>2. PICK kind \in OtherKinds :
          wire' = [wire EXCEPT ![p] = Append(@, [kind |-> kind, nonce |-> 0,
                                                 number |-> Len(sealed[p])])]
    BY <1>3 DEF axon_record_write
  <2> DEFINE r0 == [kind |-> kind, nonce |-> 0, number |-> Len(sealed[p])]
  <2>3. /\ wire[q] = <<>> /\ wire'[q] = <<>> /\ wire'[p] = Append(wire[p], r0)
        /\ wire[p] \in Seq(WireRecord) /\ r0.kind # "application"
    BY <1>3, <2>1, <2>2 DEF axon_record_write, MayWrite, IInv, TypeOK, OtherKinds
  <2>4. UNCHANGED <<sealed, unread>>
    BY <1>3 DEF axon_record_write
  <2>5. OneDirection'
    BY <2>1, <2>3 DEF OneDirection, Endpoints
  <2>6. ASSUME NEW r \in Endpoints, NEW i \in 1..Len(wire'[r]),
               wire'[r][i].kind = "application"
        PROVE  wire'[r][i].nonce = wire'[r][i].number + Len(sealed'[Peer(r)])
    <3>1. r = p
      BY <2>1, <2>3, <2>6
    <3> HIDE DEF r0
    <3>2. i \in 1..Len(wire[p]) /\ wire'[r][i] = wire[p][i]
      BY <2>3, <2>6, <3>1
    <3> QED
      BY <2>4, <2>6, <3>1, <3>2
  <2> QED
    BY <2>4, <2>5, <2>6 DEF TotalSealed
<1>4. ASSUME NEW p \in Endpoints,
             axon_record_decrypt(p) \/ decrypt_refuses(p) \/ read_refuses(p)
      PROVE  HInv'
  <2> DEFINE q == Peer(p)
  <2>1. q \in Endpoints /\ q # p /\ Peer(q) = p /\ \A r \in Endpoints : r = p \/ r = q
    BY PeerFacts
  <2>2. /\ Arrives(p) /\ Consume(p) /\ UNCHANGED <<sealed, unread>>
    BY <1>4 DEF axon_record_decrypt, decrypt_refuses, read_refuses
  <2>3. /\ wire[q] # <<>> /\ wire[q] \in Seq(WireRecord) /\ wire[p] = <<>>
        /\ wire'[q] = Tail(wire[q]) /\ wire'[p] = <<>>
    BY <2>1, <2>2 DEF Arrives, Consume, IInv, TypeOK, OneDirection, Endpoints
  <2>4. OneDirection'
    BY <2>1, <2>3 DEF OneDirection, Endpoints
  <2>5. ASSUME NEW r \in Endpoints, NEW i \in 1..Len(wire'[r]),
               wire'[r][i].kind = "application"
        PROVE  wire'[r][i].nonce = wire'[r][i].number + Len(sealed'[Peer(r)])
    <3>1. r = q
      BY <2>1, <2>3, <2>5
    <3> HIDE DEF q
    <3>2. i \in 1..Len(Tail(wire[q])) /\ wire'[r][i] = Tail(wire[q])[i]
      BY <2>3, <2>5, <3>1
    <3>3. i + 1 \in 1..Len(wire[q]) /\ wire'[r][i] = wire[q][i + 1]
      BY <2>3, <3>2
    <3> QED
      BY <2>1, <2>2, <2>5, <3>1, <3>3
  <2> QED
    BY <2>2, <2>4, <2>5 DEF TotalSealed
<1>5. ASSUME NEW p \in Endpoints PROVE ~read_runs_out_of_memory(p)
  BY DEF read_runs_out_of_memory
<1> QED
  BY <1>1, <1>2, <1>3, <1>4, <1>5 DEF Next

LEMMA HalfDuplexInvariance ==
  ASSUME HalfDuplex, ~AllocMayFail
  PROVE  Spec => [](IInv /\ HInv)
<1>1. Init => HInv
  <2> SUFFICES ASSUME Init PROVE HInv
    OBVIOUS
  <2>1. \A p \in Endpoints : unread[p] = 0 /\ wire[p] = <<>> /\ Len(wire[p]) = 0
                            /\ sealed[p] = <<>> /\ Len(sealed[p]) = 0
    BY DEF Init
  <2> QED
    BY <2>1 DEF HInv, OneDirection, Endpoints
<1>2. IInv /\ IInv' /\ HInv /\ [Next]_vars => HInv'
  BY HalfDuplexStep
<1> QED
  BY <1>1, <1>2, Invariance, PTL DEF Spec

\* In that case the counter of the receiver is the nonce of what arrives.
LEMMA OpensInHalfDuplex ==
  ASSUME IInv, HInv, NEW p \in Endpoints, Arrives(p), Arrived(p).kind = "application"
  PROVE  Opens(p, Arrived(p))
<1> DEFINE q == Peer(p)
<1>1. q \in Endpoints /\ Peer(q) = p
  BY PeerFacts
<1>2. wire[q] \in Seq(WireRecord) /\ wire[q] # <<>> /\ Arrived(p) = wire[q][1]
  BY <1>1 DEF IInv, TypeOK, Arrives, Arrived
<1>3. Arrived(p).nonce = Arrived(p).number + Len(sealed[p])
  BY <1>1, <1>2 DEF HInv
<1>4. /\ Arrived(p).number = tried[p] + unread[p] /\ unread[p] = 0
      /\ sequence_number[p] = Len(sealed[p]) + tried[p]
  BY HeadNumber DEF HInv
<1>5. tried[p] \in Nat /\ Len(sealed[p]) \in Nat
  BY DEF IInv, TypeOK
<1> QED
  BY <1>3, <1>4, <1>5 DEF Opens

\* An application that waits for the wire to be empty before it answers loses
\* no record, however the sides take turns (README.md:163).
THEOREM HalfDuplexOpensAll ==
  ASSUME HalfDuplex, ~AllocMayFail
  PROVE  Spec => []GenuineRecordsOpen
<1>1. IInv /\ HInv => GenuineRecordsOpen
  BY OpensInHalfDuplex DEF GenuineRecordsOpen
<1> QED
  BY <1>1, HalfDuplexInvariance, PTL

\* ... and the two sides, whose keys are the same, share no nonce.
THEOREM HalfDuplexSharesNoNonce ==
  ASSUME HalfDuplex, ~AllocMayFail
  PROVE  Spec => []NonceOnceOverall
<1>1. IInv /\ HInv => NonceOnceOverall
  BY DEF IInv, HInv, NonceOnceOverall
<1> QED
  BY <1>1, HalfDuplexInvariance, PTL

\* Only records that axon_record_decrypt turns away leave a fragment behind.
THEOREM ApplicationRecordsAreFreed == Spec => ApplicationRecordsFreed
<1>1. TypeOK /\ [Next]_vars =>
        [\A p \in Endpoints :
           fragments'[p] # fragments[p] => Arrived(p).kind # "application"]_vars
  <2> SUFFICES ASSUME TypeOK, Next, NEW p \in Endpoints, fragments'[p] # fragments[p]
               PROVE  Arrived(p).kind # "application"
    OBVIOUS
  <2>1. PICK r \in Endpoints : decrypt_refuses(r)
    BY DEF Next, axon_record_encrypt, axon_record_write, axon_record_decrypt,
           read_refuses, read_runs_out_of_memory
  <2>2. r = p
    BY <2>1 DEF decrypt_refuses, TypeOK
  <2> QED
    BY <2>1, <2>2 DEF decrypt_refuses
<1> QED
  BY <1>1, TypeCorrect, PTL DEF Spec, ApplicationRecordsFreed

-------------------------------------------------------------------------------
(* What is under way *)

LEMMA FlyingFinite ==
  ASSUME NEW w \in Seq(WireRecord)
  PROVE  IsFiniteSet(Flying(w)) /\ Cardinality(Flying(w)) \in Nat
<1>1. IsFiniteSet(1..Len(w))
  BY FS_Interval
<1>2. Flying(w) \subseteq 1..Len(w)
  BY DEF Flying
<1> QED
  BY <1>1, <1>2, FS_Subset, FS_CardinalityType

\* A record written adds its own position, if it carries a payload.
LEMMA FlyingAppend ==
  ASSUME NEW w \in Seq(WireRecord), NEW r \in WireRecord
  PROVE  Cardinality(Flying(Append(w, r))) = Cardinality(Flying(w)) + Payload(r)
<1>1. Len(w) \in Nat /\ Len(Append(w, r)) = Len(w) + 1 /\ Append(w, r)[Len(w) + 1] = r
  OBVIOUS
<1>2. \A i \in 1..Len(w) : Append(w, r)[i] = w[i]
  OBVIOUS
<1>3. Len(w) + 1 \notin Flying(w)
  BY <1>1 DEF Flying
<1>4. CASE r.kind = "application"
  <2>1. Flying(Append(w, r)) = Flying(w) \cup {Len(w) + 1}
    BY <1>1, <1>2, <1>4 DEF Flying
  <2> QED
    BY <1>3, <1>4, <2>1, FlyingFinite, FS_AddElement DEF Payload
<1>5. CASE r.kind # "application"
  <2>1. Flying(Append(w, r)) = Flying(w)
    BY <1>1, <1>2, <1>5 DEF Flying
  <2> QED
    BY <1>5, <2>1, FlyingFinite DEF Payload
<1> QED
  BY <1>4, <1>5

\* A record read leaves the others one place further ahead.
LEMMA FlyingTailUpTo ==
  ASSUME NEW w \in Seq(WireRecord), w # <<>>, NEW n \in Nat, n < Len(w)
  PROVE  Cardinality(Flying(w) \cap 1..(n + 1))
           = Cardinality(Flying(Tail(w)) \cap 1..n) + Payload(w[1])
<1> DEFINE v == Tail(w)
           U == Flying(w) \cap 1..(n + 1)
           S == Flying(v) \cap 1..n
           T == U \ {1}
           f == [i \in S |-> i + 1]
<1>1. v \in Seq(WireRecord) /\ Len(v) = Len(w) - 1 /\ Len(w) \in Nat /\ Len(w) >= 1
  OBVIOUS
<1>2. \A i \in 1..Len(v) : v[i] = w[i + 1]
  OBVIOUS
<1> HIDE DEF v
<1>3. S \subseteq Nat /\ \A i \in S : i + 1 \in T
  BY <1>1, <1>2 DEF Flying
<1>4. ASSUME NEW j \in T PROVE j - 1 \in S /\ (j - 1) + 1 = j
  <2>1. j \in 2..(n + 1) /\ j \in 1..Len(w) /\ w[j].kind = "application"
    BY <1>1 DEF Flying
  <2>2. j - 1 \in 1..Len(v) /\ j - 1 \in 1..n /\ (j - 1) + 1 = j
    BY <1>1, <2>1
  <2>3. v[j - 1] = w[j]
    BY <1>2, <2>2
  <2> QED
    BY <2>1, <2>2, <2>3 DEF Flying
<1>5. f \in Bijection(S, T)
  <2> HIDE DEF S, T
  <2>1. f \in [S -> T]
    BY <1>3
  <2>2. \A a, b \in S : f[a] = f[b] => a = b
    BY <1>3
  <2>3. \A j \in T : \E i \in S : f[i] = j
    BY <1>4
  <2> QED
    BY <2>1, <2>2, <2>3 DEF Bijection, Injection, Surjection, IsInjective
<1>6. ExistsBijection(S, T)
  BY <1>5 DEF ExistsBijection
<1>7. IsFiniteSet(S) /\ Cardinality(S) \in Nat
  BY <1>1, FlyingFinite, FS_Subset, FS_CardinalityType
<1>8. IsFiniteSet(U) /\ Cardinality(U) \in Nat
  BY FlyingFinite, FS_Subset, FS_CardinalityType
<1>9. Cardinality(T) = Cardinality(S)
  BY <1>6, <1>7, FS_Bijection
<1>10. Cardinality(T) = IF 1 \in U THEN Cardinality(U) - 1 ELSE Cardinality(U)
  BY <1>8, FS_RemoveElement
<1>11. 1 \in U <=> w[1].kind = "application"
  BY <1>1 DEF Flying
<1> QED
  BY <1>7, <1>8, <1>9, <1>10, <1>11 DEF Payload, v

LEMMA FlyingTail ==
  ASSUME NEW w \in Seq(WireRecord), w # <<>>
  PROVE  Cardinality(Flying(w)) = Cardinality(Flying(Tail(w))) + Payload(w[1])
<1> DEFINE n == Len(w) - 1
<1>1. Tail(w) \in Seq(WireRecord) /\ n \in Nat /\ n < Len(w) /\ Len(Tail(w)) = n
  OBVIOUS
<1>2. Flying(w) \cap 1..(n + 1) = Flying(w) /\ Flying(Tail(w)) \cap 1..n = Flying(Tail(w))
  BY <1>1 DEF Flying
<1> HIDE DEF n
<1> QED
  BY <1>1, <1>2, FlyingTailUpTo

\* Every application record sealed is tried, unread or still under way.
Accounted(p) == InFlight(p) + Taken(p) = Len(sealed[p])
AllAccounted == \A p \in Endpoints : Accounted(p)

LEMMA AccountedWriting ==
  ASSUME TypeOK, TypeOK', \A r \in Endpoints : Accounted(r),
         NEW p \in Endpoints, NEW r0 \in WireRecord,
         wire' = [wire EXCEPT ![p] = Append(@, r0)],
         Len(sealed'[p]) = Len(sealed[p]) + Payload(r0),
         sealed'[Peer(p)] = sealed[Peer(p)],
         tried' = tried, unread' = unread
  PROVE  \A r \in Endpoints : Accounted(r)'
<1> DEFINE q == Peer(p)
<1>1. q \in Endpoints /\ q # p /\ Peer(q) = p /\ \A r \in Endpoints : r = p \/ r = q
  BY PeerFacts
<1>2. wire'[p] = Append(wire[p], r0) /\ wire'[q] = wire[q] /\ wire[p] \in Seq(WireRecord)
  BY <1>1 DEF TypeOK
<1>3. Taken(p)' = Taken(p) /\ Taken(q)' = Taken(q)
  BY DEF Taken
<1>4. Taken(p) \in Nat /\ InFlight(p) \in Nat /\ Payload(r0) \in Nat
  <2>1. tried[q] \in Nat /\ unread[q] \in Nat
    BY <1>1 DEF TypeOK
  <2> QED
    BY <1>2, <2>1, FlyingFinite DEF Taken, InFlight, Payload
<1>5. InFlight(p)' = InFlight(p) + Payload(r0) /\ InFlight(q)' = InFlight(q)
  BY <1>2, FlyingAppend DEF InFlight
<1>6. Accounted(p)'
  BY <1>3, <1>4, <1>5 DEF Accounted
<1>7. Accounted(q)'
  BY <1>1, <1>3, <1>5 DEF Accounted
<1> QED
  BY <1>1, <1>6, <1>7

LEMMA AccountedReading ==
  ASSUME TypeOK, \A r \in Endpoints : Accounted(r),
         NEW p \in Endpoints, Arrives(p), Consume(p), TypeOK',
         sealed' = sealed,
         tried'[p] + unread'[p] = tried[p] + unread[p] + Payload(Arrived(p)),
         tried'[Peer(p)] = tried[Peer(p)], unread'[Peer(p)] = unread[Peer(p)]
  PROVE  \A r \in Endpoints : Accounted(r)'
<1> DEFINE q == Peer(p)
           w == wire[q]
<1>1. q \in Endpoints /\ q # p /\ Peer(q) = p /\ \A r \in Endpoints : r = p \/ r = q
  BY PeerFacts
<1>2. w \in Seq(WireRecord) /\ w # <<>> /\ Arrived(p) = w[1]
  BY <1>1 DEF TypeOK, Arrives, Arrived
<1>3. wire'[q] = Tail(w) /\ wire'[p] = wire[p] /\ Tail(w) \in Seq(WireRecord)
  BY <1>1, <1>2 DEF Consume, TypeOK
<1>4. Taken(q) \in Nat /\ Taken(q)' = Taken(q) + Payload(w[1]) /\ Taken(p)' = Taken(p)
  <2>1. Taken(q) = tried[p] + unread[p] /\ Taken(q)' = tried'[p] + unread'[p]
    BY <1>1 DEF Taken
  <2>2. tried[p] \in Nat /\ unread[p] \in Nat
    BY DEF TypeOK
  <2> QED
    BY <1>2, <2>1, <2>2 DEF Taken
<1>5. /\ InFlight(q) = InFlight(q)' + Payload(w[1]) /\ InFlight(q)' \in Nat
      /\ InFlight(p)' = InFlight(p) /\ Payload(w[1]) \in Nat
  BY <1>2, <1>3, FlyingTail, FlyingFinite DEF InFlight, Payload
<1>6. Accounted(q)'
  BY <1>1, <1>4, <1>5 DEF Accounted
<1>7. Accounted(p)'
  BY <1>4, <1>5 DEF Accounted
<1> QED
  BY <1>1, <1>6, <1>7

LEMMA AccountedStep ==
  TypeOK /\ AllAccounted /\ [Next]_vars => AllAccounted'
<1> SUFFICES ASSUME TypeOK, \A r \in Endpoints : Accounted(r), [Next]_vars
             PROVE  \A r \in Endpoints : Accounted(r)'
  BY DEF AllAccounted
<1>1. TypeOK'
  BY TypeStep
<1>2. CASE UNCHANGED vars
  BY <1>2 DEF vars, Accounted, InFlight, Taken
<1>3. ASSUME NEW p \in Endpoints, axon_record_encrypt(p)
      PROVE  \A r \in Endpoints : Accounted(r)'
  <2> DEFINE r0 == [kind |-> "application", nonce |-> NextNonce(p),
                    number |-> Len(sealed[p])]
  <2>1. r0 \in WireRecord /\ Payload(r0) = 1
    BY DEF WireRecord, NextNonce, TypeOK, Payload
  <2>2. /\ Len(sealed'[p]) = Len(sealed[p]) + 1
        /\ sealed'[Peer(p)] = sealed[Peer(p)]
        /\ wire' = [wire EXCEPT ![p] = Append(@, r0)]
        /\ tried' = tried /\ unread' = unread
    BY <1>3, PeerFacts DEF axon_record_encrypt, TypeOK
  <2> QED
    BY <1>1, <2>1, <2>2, AccountedWriting
<1>4. ASSUME NEW p \in Endpoints, axon_record_write(p)
      PROVE  \A r \in Endpoints : Accounted(r)'
  <2>1. PICK kind \in OtherKinds :
          wire' = [wire EXCEPT ![p] = Append(@, [kind |-> kind, nonce |-> 0,
                                                 number |-> Len(sealed[p])])]
    BY <1>4 DEF axon_record_write
  <2> DEFINE r0 == [kind |-> kind, nonce |-> 0, number |-> Len(sealed[p])]
  <2>2. r0 \in WireRecord /\ Payload(r0) = 0
    BY DEF WireRecord, TypeOK, Payload, OtherKinds
  <2>3. sealed' = sealed /\ tried' = tried /\ unread' = unread
    BY <1>4 DEF axon_record_write
  <2>4. Len(sealed'[p]) = Len(sealed[p]) + Payload(r0)
    BY <2>2, <2>3 DEF TypeOK
  <2>5. wire' = [wire EXCEPT ![p] = Append(@, r0)] /\ r0.number = Len(sealed[p])
    BY <2>1
  <2> HIDE DEF r0
  <2> QED
    BY <1>1, <2>2, <2>3, <2>4, <2>5, AccountedWriting
<1>5. ASSUME NEW p \in Endpoints,
             axon_record_decrypt(p) \/ decrypt_refuses(p) \/ read_refuses(p)
               \/ read_runs_out_of_memory(p)
      PROVE  \A r \in Endpoints : Accounted(r)'
  <2>1. Arrives(p) /\ Consume(p) /\ sealed' = sealed
    BY <1>5 DEF axon_record_decrypt, decrypt_refuses, read_refuses,
                read_runs_out_of_memory
  <2>2. tried'[Peer(p)] = tried[Peer(p)] /\ unread'[Peer(p)] = unread[Peer(p)]
    BY <1>5, PeerFacts DEF axon_record_decrypt, decrypt_refuses, read_refuses,
                read_runs_out_of_memory, TypeOK
  <2>3. tried'[p] + unread'[p] = tried[p] + unread[p] + Payload(Arrived(p))
    <3>1. tried[p] \in Nat /\ unread[p] \in Nat
      BY DEF TypeOK
    <3>2. CASE axon_record_decrypt(p)
      BY <3>1, <3>2 DEF axon_record_decrypt, Payload, TypeOK
    <3>3. CASE decrypt_refuses(p) \/ read_refuses(p)
      BY <3>1, <3>3 DEF decrypt_refuses, read_refuses, Payload
    <3>4. CASE read_runs_out_of_memory(p)
      BY <3>1, <3>4 DEF read_runs_out_of_memory, Payload, TypeOK
    <3> QED
      BY <1>5, <3>2, <3>3, <3>4
  <2> QED
    BY <1>1, <2>1, <2>2, <2>3, AccountedReading
<1> QED
  BY <1>2, <1>3, <1>4, <1>5 DEF Next

LEMMA AccountedInit == Init => AllAccounted
<1> SUFFICES ASSUME Init, NEW r \in Endpoints PROVE Accounted(r)
  BY DEF AllAccounted
<1>1. Flying(wire[r]) = {} /\ Taken(r) = 0 /\ Len(sealed[r]) = 0
  BY PeerFacts DEF Init, Flying, Taken
<1> QED
  BY <1>1, FS_EmptySet DEF Accounted, InFlight

\* The two counters differ by what is under way and what was never read, in
\* either discipline and for all traffic (record.c:84-85, 112-113): each of the
\* two sums is the number of records both sides have sealed.
THEOREM SkewExplained == Spec => []CounterSkew
<1>1. Init => AllAccounted
  BY AccountedInit
<1>2. IInv /\ AllAccounted => CounterSkew
  <2> SUFFICES ASSUME IInv, \A r \in Endpoints : Accounted(r) PROVE CounterSkew
    BY DEF AllAccounted
  <2>1. "A" \in Endpoints /\ "B" \in Endpoints /\ Peer("A") = "B" /\ Peer("B") = "A"
    BY DEF Endpoints, Peer
  <2> DEFINE sA == Len(sealed["A"])  tA == tried["A"]  uA == unread["A"]  fA == InFlight("A")
             sB == Len(sealed["B"])  tB == tried["B"]  uB == unread["B"]  fB == InFlight("B")
  <2>2. /\ sA \in Nat /\ tA \in Nat /\ uA \in Nat /\ fA \in Nat
        /\ sB \in Nat /\ tB \in Nat /\ uB \in Nat /\ fB \in Nat
    <3>1. sA \in Nat /\ sB \in Nat /\ tA \in Nat /\ tB \in Nat /\ uA \in Nat /\ uB \in Nat
      BY <2>1 DEF IInv, TypeOK
    <3>2. wire["A"] \in Seq(WireRecord) /\ wire["B"] \in Seq(WireRecord)
      BY <2>1 DEF IInv, TypeOK
    <3>3. fA \in Nat /\ fB \in Nat
      BY <3>2, FlyingFinite DEF InFlight
    <3> QED
      BY <3>1, <3>3
  <2>3. sequence_number["A"] = sA + tA /\ sequence_number["B"] = sB + tB
    BY <2>1 DEF IInv, CountersCount
  <2>4. fA + (tB + uB) = sA /\ fB + (tA + uA) = sB
    BY <2>1 DEF Accounted, Taken
  <2> HIDE DEF sA, sB, tA, tB, uA, uB, fA, fB
  <2>5. (sA + tA) + fB + uA = (sB + tB) + fA + uB
    <3>1. (sA + tA) + fB + uA = sA + sB
      BY <2>2, <2>4
    <3>2. (sB + tB) + fA + uB = sA + sB
      BY <2>2, <2>4
    <3> QED
      BY <3>1, <3>2
  <2> QED
    BY <2>3, <2>5 DEF CounterSkew, uA, uB, fA, fB
<1>3. IInv => TypeOK
  BY DEF IInv
<1> QED
  BY <1>1, <1>2, <1>3, AccountedStep, Invariance, PTL DEF Spec

-------------------------------------------------------------------------------
(* Places and payload numbers *)

LEMMA PlaceFacts ==
  ASSUME NEW w \in Seq(WireRecord), NEW j \in Flying(w)
  PROVE  /\ j \in 1..Len(w) /\ Len(w) \in Nat
         /\ IsFiniteSet(Flying(w) \cap 1..j)
         /\ Place(w, j) \in 1..Cardinality(Flying(w))
         /\ Cardinality(Flying(w)) \in Nat
<1> DEFINE S == Flying(w) \cap 1..j
<1>1. j \in 1..Len(w) /\ Len(w) \in Nat
  BY DEF Flying
<1>2. IsFiniteSet(Flying(w)) /\ Cardinality(Flying(w)) \in Nat
  BY FlyingFinite
<1>3. S \in SUBSET Flying(w) /\ j \in S
  BY <1>1
<1>4. IsFiniteSet(S) /\ Cardinality(S) <= Cardinality(Flying(w)) /\ Cardinality(S) \in Nat
  BY <1>2, <1>3, FS_Subset, FS_CardinalityType
<1>5. Cardinality(S) # 0
  BY <1>3, <1>4, FS_EmptySet
<1> QED
  BY <1>1, <1>2, <1>4, <1>5 DEF Place

\* Of two application records the later one has the greater place.
LEMMA PlaceGrows ==
  ASSUME NEW w \in Seq(WireRecord), NEW i \in Flying(w), NEW j \in Flying(w), i < j
  PROVE  Place(w, i) < Place(w, j)
<1> DEFINE S == Flying(w) \cap 1..i
           T == Flying(w) \cap 1..j
<1>1. i \in 1..Len(w) /\ j \in 1..Len(w) /\ Len(w) \in Nat
  BY PlaceFacts
<1>2. S \in SUBSET T /\ j \in T /\ j \notin S
  BY <1>1
<1>3. IsFiniteSet(S) /\ IsFiniteSet(T)
  BY PlaceFacts
<1>4. Cardinality(S) \in Nat /\ Cardinality(T) \in Nat
  BY <1>3, FS_CardinalityType
<1>5. Cardinality(S) <= Cardinality(T) /\ (Cardinality(T) = Cardinality(S) => T = S)
  BY <1>2, <1>3, FS_Subset
<1> QED
  BY <1>2, <1>4, <1>5 DEF Place

LEMMA PlaceIsUnique ==
  ASSUME NEW w \in Seq(WireRecord), NEW i \in Flying(w), NEW j \in Flying(w),
         Place(w, i) = Place(w, j)
  PROVE  i = j
<1>1. /\ i \in 1..Len(w) /\ j \in 1..Len(w) /\ Len(w) \in Nat
      /\ Place(w, i) \in 1..Cardinality(Flying(w)) /\ Cardinality(Flying(w)) \in Nat
  BY PlaceFacts
<1>2. ~(i < j) /\ ~(j < i)
  BY <1>1, PlaceGrows
<1> QED
  BY <1>1, <1>2

\* Every number up to the count of application records is the place of one.
LEMMA PlacesFill ==
  ASSUME NEW w \in Seq(WireRecord), NEW i \in 1..Cardinality(Flying(w))
  PROVE  \E j \in Flying(w) : Place(w, j) = i
<1> DEFINE n == Cardinality(Flying(w))
           F == Flying(w)
           f == [j \in F |-> Place(w, j)]
<1>1. IsFiniteSet(F) /\ n \in Nat
  BY FlyingFinite
<1>2. IsFiniteSet(1..n) /\ Cardinality(1..n) = n
  BY <1>1, FS_Interval
<1>3. \A j \in F : Place(w, j) \in 1..n
  BY PlaceFacts
<1>4. \A j, k \in F : Place(w, j) = Place(w, k) => j = k
  BY PlaceIsUnique
<1>5. f \in Injection(F, 1..n)
  <2> HIDE DEF F, n
  <2> QED
    BY <1>3, <1>4 DEF Injection, IsInjective
<1>6. Cardinality(F) = Cardinality(1..n)
  BY <1>2
<1>7. f \in Surjection(F, 1..n)
  <2> HIDE DEF f, F, n
  <2> QED
    BY <1>2, <1>5, <1>6, FS_Injection
<1> QED
  BY <1>7 DEF Surjection

\* Whatever lists the numbers at their places is the list of payload numbers.
LEMMA ListedByPlace ==
  ASSUME NEW w \in Seq(WireRecord), NEW g,
         g = [i \in 1..Cardinality(Flying(w)) |-> g[i]],
         \A j \in Flying(w) : g[Place(w, j)] = w[j].number
  PROVE  PayloadNumbers(w) = g
<1>1. ASSUME NEW i \in 1..Cardinality(Flying(w))
      PROVE  w[CHOOSE j \in Flying(w) : Place(w, j) = i].number = g[i]
  <2> DEFINE c == CHOOSE j \in Flying(w) : Place(w, j) = i
  <2>1. c \in Flying(w) /\ Place(w, c) = i
    BY PlacesFill
  <2> HIDE DEF c
  <2>2. w[c].number = g[i]
    BY <2>1
  <2> QED
    BY <2>2 DEF c
<1> QED
  BY <1>1 DEF PayloadNumbers

LEMMA NumberAtPlace ==
  ASSUME NEW w \in Seq(WireRecord), NEW j \in Flying(w)
  PROVE  PayloadNumbers(w)[Place(w, j)] = w[j].number
<1> DEFINE c == CHOOSE k \in Flying(w) : Place(w, k) = Place(w, j)
<1>1. c \in Flying(w) /\ Place(w, c) = Place(w, j)
  OBVIOUS
<1>2. c = j
  BY <1>1, PlaceIsUnique
<1>3. PayloadNumbers(w)[Place(w, j)] = w[c].number
  BY PlaceFacts DEF PayloadNumbers
<1> HIDE DEF c
<1> QED
  BY <1>2, <1>3

LEMMA NumbersType ==
  ASSUME NEW w \in Seq(WireRecord)
  PROVE  /\ PayloadNumbers(w) \in Seq(Nat)
         /\ Len(PayloadNumbers(w)) = Cardinality(Flying(w))
         /\ Cardinality(Flying(w)) \in Nat
<1>1. Cardinality(Flying(w)) \in Nat
  BY FlyingFinite
<1>2. \A r \in WireRecord : r.number \in Nat
  BY DEF WireRecord
<1>3. ASSUME NEW i \in 1..Cardinality(Flying(w))
      PROVE  w[CHOOSE j \in Flying(w) : Place(w, j) = i].number \in Nat
  <2> DEFINE c == CHOOSE j \in Flying(w) : Place(w, j) = i
  <2>1. c \in Flying(w)
    BY PlacesFill
  <2> HIDE DEF c
  <2>2. c \in 1..Len(w)
    BY <2>1 DEF Flying
  <2>3. w[c] \in WireRecord
    BY <2>2
  <2>4. w[c].number \in Nat
    BY <1>2, <2>3
  <2> QED
    BY <2>4 DEF c
<1> DEFINE n == Cardinality(Flying(w))
           h == [i \in 1..n |-> w[CHOOSE j \in Flying(w) : Place(w, j) = i].number]
<1>4. PayloadNumbers(w) = h
  BY DEF PayloadNumbers
<1>5. h \in [1..n -> Nat]
  BY <1>3
<1>6. DOMAIN h = 1..n
  OBVIOUS
<1> HIDE DEF h, n
<1>7. h \in Seq(Nat) /\ Len(h) = n
  BY <1>1, <1>5, <1>6 DEF n
<1> QED
  BY <1>1, <1>4, <1>7 DEF n

\* A record with a payload goes to the end of the list, another changes nothing.
LEMMA NumbersAppend ==
  ASSUME NEW w \in Seq(WireRecord), NEW r \in WireRecord
  PROVE  PayloadNumbers(Append(w, r)) =
           IF r.kind = "application" THEN Append(PayloadNumbers(w), r.number)
                                     ELSE PayloadNumbers(w)
<1> DEFINE v == Append(w, r)
           m == Len(w) + 1
           n == Cardinality(Flying(w))
<1>1. v \in Seq(WireRecord) /\ Len(w) \in Nat /\ Len(v) = m /\ v[m] = r
  OBVIOUS
<1>2. \A j \in 1..Len(w) : v[j] = w[j]
  OBVIOUS
<1>3. Cardinality(Flying(v)) = n + Payload(r) /\ n \in Nat
  BY FlyingAppend, FlyingFinite
<1>4. /\ PayloadNumbers(w) \in Seq(Nat) /\ Len(PayloadNumbers(w)) = n
  BY NumbersType
<1> HIDE DEF v
<1>5. ASSUME NEW j \in Flying(w)
      PROVE  Place(v, j) = Place(w, j) /\ v[j] = w[j] /\ Place(w, j) \in 1..n
  <2>1. j \in 1..Len(w)
    BY PlaceFacts
  <2>2. Flying(v) \cap 1..j = Flying(w) \cap 1..j
    BY <1>1, <1>2, <2>1 DEF Flying
  <2> QED
    BY <1>2, <2>1, <2>2, PlaceFacts DEF Place
<1>6. CASE r.kind = "application"
  <2> DEFINE g == Append(PayloadNumbers(w), r.number)
  <2>1. r.number \in Nat
    BY DEF WireRecord
  <2>2. /\ g \in Seq(Nat) /\ Len(g) = n + 1 /\ g[n + 1] = r.number
        /\ \A i \in 1..n : g[i] = PayloadNumbers(w)[i]
    BY <1>4, <2>1
  <2> HIDE DEF g
  <2>3. Cardinality(Flying(v)) = n + 1
    BY <1>3, <1>6 DEF Payload
  <2>4. g = [i \in 1..Cardinality(Flying(v)) |-> g[i]]
    BY <2>2, <2>3
  <2>5. ASSUME NEW j \in Flying(v) PROVE g[Place(v, j)] = v[j].number
    <3>1. CASE j = m
      <4>1. Flying(v) \cap 1..m = Flying(v)
        BY <1>1 DEF Flying
      <4> QED
        BY <1>1, <2>2, <2>3, <3>1, <4>1 DEF Place
    <3>2. CASE j # m
      <4>1. j \in Flying(w)
        BY <1>1, <1>2, <3>2 DEF Flying
      <4> QED
        BY <1>5, <2>2, <4>1, NumberAtPlace
    <3> QED
      BY <3>1, <3>2
  <2>6. PayloadNumbers(v) = g
    BY <1>1, <2>4, <2>5, ListedByPlace
  <2> QED
    BY <1>6, <2>6 DEF g, v
<1>7. CASE r.kind # "application"
  <2>1. Flying(v) = Flying(w)
    BY <1>1, <1>2, <1>7 DEF Flying
  <2> DEFINE g == PayloadNumbers(w)
  <2>2. g = [i \in 1..Cardinality(Flying(v)) |-> g[i]]
    BY <2>1 DEF PayloadNumbers
  <2>3. \A j \in Flying(v) : g[Place(v, j)] = v[j].number
    BY <1>5, <2>1, NumberAtPlace
  <2>4. PayloadNumbers(v) = g
    <3> HIDE DEF g
    <3> QED
      BY <1>1, <2>2, <2>3, ListedByPlace
  <2> QED
    BY <1>7, <2>4 DEF v
<1> QED
  BY <1>6, <1>7

\* The first record, if it has a payload, is the head of the list.
LEMMA NumbersTail ==
  ASSUME NEW w \in Seq(WireRecord), w # <<>>
  PROVE  IF w[1].kind = "application"
         THEN /\ PayloadNumbers(w) # <<>>
              /\ Head(PayloadNumbers(w)) = w[1].number
              /\ PayloadNumbers(Tail(w)) = Tail(PayloadNumbers(w))
         ELSE PayloadNumbers(Tail(w)) = PayloadNumbers(w)
<1> DEFINE v == Tail(w)
           n == Cardinality(Flying(v))
           h == PayloadNumbers(w)
<1>1. v \in Seq(WireRecord) /\ Len(v) = Len(w) - 1 /\ Len(w) \in Nat /\ Len(w) >= 1
  OBVIOUS
<1>2. \A i \in 1..Len(v) : v[i] = w[i + 1]
  OBVIOUS
<1>3. Cardinality(Flying(w)) = n + Payload(w[1]) /\ n \in Nat
  BY <1>1, FlyingTail, FlyingFinite
<1>4. h \in Seq(Nat) /\ Len(h) = n + Payload(w[1])
  BY <1>3, NumbersType
<1>5. ASSUME NEW j \in Flying(v)
      PROVE  h[Place(v, j) + Payload(w[1])] = v[j].number /\ Place(v, j) \in 1..n
  <2>1. j \in 1..Len(v) /\ Place(v, j) \in 1..n
    BY <1>1, PlaceFacts
  <2>2. j + 1 \in Flying(w) /\ v[j] = w[j + 1]
    BY <1>1, <1>2, <2>1 DEF Flying
  <2>3. Place(w, j + 1) = Place(v, j) + Payload(w[1])
    BY <1>1, <2>1, FlyingTailUpTo DEF Place
  <2> QED
    BY <2>1, <2>2, <2>3, NumberAtPlace
<1> HIDE DEF v, h
<1>6. CASE w[1].kind = "application"
  <2> DEFINE g == Tail(h)
  <2>1. Payload(w[1]) = 1
    BY <1>6 DEF Payload
  <2>2. h # <<>> /\ Len(g) = n /\ g \in Seq(Nat) /\ \A i \in 1..n : g[i] = h[i + 1]
    BY <1>3, <1>4, <2>1
  <2> HIDE DEF g
  <2>3. g = [i \in 1..n |-> g[i]]
    BY <2>2
  <2>4. \A j \in Flying(v) : g[Place(v, j)] = v[j].number
    BY <1>5, <2>1, <2>2
  <2>5. PayloadNumbers(v) = g
    BY <1>1, <2>3, <2>4, ListedByPlace
  <2>6. 1 \in Flying(w)
    BY <1>1, <1>6 DEF Flying
  <2>7. Place(w, 1) = 1
    <3>1. Flying(w) \cap 1..1 = {1}
      BY <2>6
    <3> QED
      BY <3>1, FS_Singleton DEF Place
  <2>8. h[1] = w[1].number
    BY <2>6, <2>7, NumberAtPlace DEF h
  <2>9. Head(h) = w[1].number
    BY <1>4, <2>2, <2>8
  <2> QED
    BY <1>6, <2>2, <2>5, <2>9 DEF g, h, v
<1>7. CASE w[1].kind # "application"
  <2>1. Payload(w[1]) = 0
    BY <1>7 DEF Payload
  <2>2. Len(h) = n /\ h = [i \in 1..n |-> h[i]]
    BY <1>3, <1>4, <2>1
  <2>3. \A j \in Flying(v) : h[Place(v, j)] = v[j].number
    BY <1>5, <2>1
  <2>4. PayloadNumbers(v) = h
    BY <1>1, <2>2, <2>3, ListedByPlace
  <2> QED
    BY <1>7, <2>4 DEF h, v
<1> QED
  BY <1>6, <1>7

-------------------------------------------------------------------------------
(* The refinement *)

\* Nothing that was tried has failed to open.
AllOpened == \A p \in Endpoints : Len(opened[p]) = tried[p]

ChannelInv == IInv /\ HInv /\ AllAccounted /\ AllOpened

Queue == [p \in Endpoints |-> PayloadNumbers(wire[p])]

ChannelNext == Channel!Next \/ UNCHANGED <<Queue, opened>>

\* Sealing a record sends the next number.
LEMMA EncryptSends ==
  ASSUME ChannelInv, NEW p \in Endpoints, axon_record_encrypt(p)
  PROVE  Channel!Send(p) /\ AllOpened'
<1> DEFINE r0 == [kind |-> "application", nonce |-> NextNonce(p), number |-> Len(sealed[p])]
           q == Peer(p)
<1> USE DEF ChannelInv
<1>1. q \in Endpoints /\ q # p
  BY PeerFacts
<1>2. /\ wire \in [Endpoints -> Seq(WireRecord)]
      /\ sequence_number[p] \in Nat /\ Len(sealed[p]) \in Nat /\ tried[q] \in Nat
  BY <1>1 DEF IInv, TypeOK
<1>3. r0 \in WireRecord /\ r0.kind = "application" /\ r0.number = Len(sealed[p])
  BY <1>2 DEF WireRecord, NextNonce
<1>4. wire' = [wire EXCEPT ![p] = Append(@, r0)] /\ opened' = opened /\ tried' = tried
  BY DEF axon_record_encrypt
<1> HIDE DEF r0
<1>5. PayloadNumbers(wire'[p]) = Append(PayloadNumbers(wire[p]), Len(sealed[p]))
  BY <1>2, <1>3, <1>4, NumbersAppend
<1>6. Channel!Total(p) = Len(sealed[p])
  <2>1. Len(PayloadNumbers(wire[p])) = InFlight(p)
    BY <1>2, NumbersType DEF InFlight
  <2>2. Taken(p) = Len(opened[q])
    BY <1>1, <1>2 DEF HInv, AllOpened, Taken
  <2>3. Channel!Other(p) = q
    BY DEF Channel!Other, Peer
  <2>4. InFlight(p) + Taken(p) = Len(sealed[p])
    BY DEF AllAccounted, Accounted
  <2> QED
    BY <2>1, <2>2, <2>3, <2>4 DEF Channel!Total
<1>7. Queue' = [Queue EXCEPT ![p] = Append(@, Channel!Total(p))]
  BY <1>2, <1>4, <1>5, <1>6 DEF Queue
<1> QED
  BY <1>4, <1>7 DEF Channel!Send, Queue, AllOpened

\* Any other record leaves the queues alone.
LEMMA WriteSendsNothing ==
  ASSUME ChannelInv, NEW p \in Endpoints, axon_record_write(p)
  PROVE  UNCHANGED <<Queue, opened>> /\ AllOpened'
<1> USE DEF ChannelInv
<1>1. PICK kind \in OtherKinds :
        wire' = [wire EXCEPT ![p] = Append(@, [kind |-> kind, nonce |-> 0,
                                               number |-> Len(sealed[p])])]
  BY DEF axon_record_write
<1> DEFINE r0 == [kind |-> kind, nonce |-> 0, number |-> Len(sealed[p])]
<1>2. wire \in [Endpoints -> Seq(WireRecord)] /\ Len(sealed[p]) \in Nat
  BY DEF IInv, TypeOK
<1>3. r0 \in WireRecord /\ r0.kind # "application"
  BY <1>2 DEF WireRecord, OtherKinds
<1>4. wire' = [wire EXCEPT ![p] = Append(@, r0)] /\ opened' = opened /\ tried' = tried
  BY <1>1 DEF axon_record_write
<1> HIDE DEF r0
<1>5. PayloadNumbers(wire'[p]) = PayloadNumbers(wire[p])
  BY <1>2, <1>3, <1>4, NumbersAppend
<1>6. Queue' = Queue
  BY <1>2, <1>4, <1>5 DEF Queue
<1> QED
  BY <1>4, <1>6 DEF AllOpened

\* What p reads leaves the front of its peer's wire.
LEMMA ReadNumbers ==
  ASSUME TypeOK, NEW p \in Endpoints, Arrives(p), Consume(p)
  PROVE  IF Arrived(p).kind = "application"
         THEN /\ Queue[Peer(p)] # <<>> /\ Head(Queue[Peer(p)]) = Arrived(p).number
              /\ Queue' = [Queue EXCEPT ![Peer(p)] = Tail(@)]
         ELSE Queue' = Queue
<1> DEFINE q == Peer(p)
           w == wire[q]
<1>1. q \in Endpoints
  BY PeerFacts
<1>2. wire \in [Endpoints -> Seq(WireRecord)] /\ w \in Seq(WireRecord) /\ w # <<>>
  BY <1>1 DEF TypeOK, Arrives
<1>3. Arrived(p) = w[1] /\ wire' = [wire EXCEPT ![q] = Tail(@)]
  BY <1>2 DEF Arrived, Consume
<1>4. wire'[q] = Tail(w)
  BY <1>1, <1>2, <1>3
<1>5. CASE w[1].kind = "application"
  <2>1. /\ PayloadNumbers(w) # <<>> /\ Head(PayloadNumbers(w)) = w[1].number
        /\ PayloadNumbers(wire'[q]) = Tail(PayloadNumbers(w))
    BY <1>2, <1>4, <1>5, NumbersTail
  <2> QED
    BY <1>1, <1>2, <1>3, <1>5, <2>1 DEF Queue
<1>6. CASE w[1].kind # "application"
  <2>1. PayloadNumbers(wire'[q]) = PayloadNumbers(w)
    BY <1>2, <1>4, <1>6, NumbersTail
  <2> QED
    BY <1>1, <1>2, <1>3, <1>6, <2>1 DEF Queue
<1> QED
  BY <1>5, <1>6

\* Opening a record delivers the number at the head of the queue.
LEMMA DecryptDelivers ==
  ASSUME ChannelInv, NEW p \in Endpoints, axon_record_decrypt(p)
  PROVE  Channel!Deliver(p) /\ AllOpened'
<1> USE DEF ChannelInv
<1>1. Arrives(p) /\ Consume(p) /\ Arrived(p).kind = "application"
  BY DEF axon_record_decrypt
<1>2. TypeOK
  BY DEF IInv
<1>3. Opens(p, Arrived(p))
  BY <1>1, OpensInHalfDuplex
<1>4. /\ opened' = [opened EXCEPT ![p] = Append(@, Arrived(p).number)]
      /\ tried' = [tried EXCEPT ![p] = @ + 1]
  BY <1>3 DEF axon_record_decrypt
<1>5. Channel!Other(p) = Peer(p)
  BY DEF Channel!Other, Peer
<1>6. /\ Queue[Peer(p)] # <<>> /\ Head(Queue[Peer(p)]) = Arrived(p).number
      /\ Queue' = [Queue EXCEPT ![Peer(p)] = Tail(@)]
  BY <1>1, <1>2, ReadNumbers
<1>7. Channel!Deliver(p)
  BY <1>4, <1>5, <1>6 DEF Channel!Deliver, Queue
<1>8. AllOpened'
  <2>1. opened \in [Endpoints -> Seq(Nat)] /\ tried \in [Endpoints -> Nat]
    BY <1>2 DEF TypeOK
  <2>2. Arrived(p).number \in Nat
    BY <1>1, HeadNumber, <2>1 DEF WireRecord
  <2>3. \A r \in Endpoints : Len(opened'[r]) = tried'[r]
    BY <1>4, <2>1, <2>2 DEF AllOpened
  <2> QED
    BY <2>3 DEF AllOpened
<1> QED
  BY <1>7, <1>8

\* A record turned away was none of the channel's.
LEMMA RefusalDeliversNothing ==
  ASSUME ChannelInv, NEW p \in Endpoints, decrypt_refuses(p) \/ read_refuses(p)
  PROVE  UNCHANGED <<Queue, opened>> /\ AllOpened'
<1> USE DEF ChannelInv
<1>1. /\ Arrives(p) /\ Consume(p) /\ Arrived(p).kind # "application"
      /\ opened' = opened /\ tried' = tried
  BY DEF decrypt_refuses, read_refuses
<1>2. Queue' = Queue
  BY <1>1, ReadNumbers DEF IInv
<1> QED
  BY <1>1, <1>2 DEF AllOpened

LEMMA ChannelStep ==
  ASSUME HalfDuplex, ~AllocMayFail, ChannelInv, [Next]_vars
  PROVE  ChannelNext /\ AllOpened'
<1>1. CASE UNCHANGED vars
  BY <1>1 DEF vars, ChannelNext, ChannelInv, AllOpened, Queue
<1>2. ASSUME NEW p \in Endpoints, axon_record_encrypt(p) PROVE ChannelNext /\ AllOpened'
  BY <1>2, EncryptSends DEF ChannelNext, Channel!Next, Channel!Party, Endpoints
<1>3. ASSUME NEW p \in Endpoints, axon_record_write(p) PROVE ChannelNext /\ AllOpened'
  BY <1>3, WriteSendsNothing DEF ChannelNext
<1>4. ASSUME NEW p \in Endpoints, axon_record_decrypt(p) PROVE ChannelNext /\ AllOpened'
  BY <1>4, DecryptDelivers DEF ChannelNext, Channel!Next, Channel!Party, Endpoints
<1>5. ASSUME NEW p \in Endpoints, decrypt_refuses(p) \/ read_refuses(p)
      PROVE  ChannelNext /\ AllOpened'
  BY <1>5, RefusalDeliversNothing DEF ChannelNext
<1>6. ASSUME NEW p \in Endpoints PROVE ~read_runs_out_of_memory(p)
  BY DEF read_runs_out_of_memory
<1> QED
  BY <1>1, <1>2, <1>3, <1>4, <1>5, <1>6 DEF Next

\* An application that waits for the wire to be empty before it answers has the
\* channel it expects: every message arrives, in order and once, however the
\* sides take turns and whatever else is on the wire (record.c:42-129).
THEOREM HalfDuplexIsChannel ==
  ASSUME HalfDuplex, ~AllocMayFail
  PROVE  Spec => ImplementsChannel
<1>1. Init => Channel!Init /\ AllOpened /\ AllAccounted
  <2> SUFFICES ASSUME Init PROVE Channel!Init /\ AllOpened /\ AllAccounted
    OBVIOUS
  <2>1. PayloadNumbers(<<>>) = <<>>
    <3>1. Flying(<<>>) = {}
      BY DEF Flying
    <3>2. Cardinality(Flying(<<>>)) = 0
      BY <3>1, FS_EmptySet
    <3> QED
      BY <3>2 DEF PayloadNumbers
  <2>2. Channel!Init
    BY <2>1 DEF Init, Channel!Init, Channel!Party, Endpoints
  <2>3. AllOpened
    BY DEF Init, AllOpened
  <2> QED
    BY <2>2, <2>3, AccountedInit
<1>2. ChannelInv /\ [Next]_vars => ChannelNext /\ AllOpened' /\ AllAccounted'
  BY ChannelStep, AccountedStep DEF ChannelInv, IInv
<1>3. ChannelNext <=> [Channel!Next]_<<Queue, opened>>
  BY DEF ChannelNext
<1>4. IInv /\ HInv /\ AllAccounted /\ AllOpened <=> ChannelInv
  BY DEF ChannelInv
<1> QED
  BY <1>1, <1>2, <1>3, <1>4, HalfDuplexInvariance, PTL
  DEF Spec, ImplementsChannel, Channel!Spec, Queue

===============================================================================

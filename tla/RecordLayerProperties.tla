------------------------ MODULE RecordLayerProperties ------------------------
(***************************************************************************)
(* What one shared counter per context gives two parties, in full and in   *)
(* half duplex.                                                            *)
(***************************************************************************)
EXTENDS RecordLayer, FiniteSets

WireRecord == [kind: OtherKinds \cup {"application"}, nonce: Nat, number: Nat]

\* The shape of every variable.
TypeOK ==
  /\ sequence_number \in [Endpoints -> Nat]
  /\ wire \in [Endpoints -> Seq(WireRecord)]
  /\ fragments \in [Endpoints -> Nat]
  /\ sealed \in [Endpoints -> Seq(Nat)]
  /\ others \in [Endpoints -> Nat]
  /\ tried \in [Endpoints -> Nat]
  /\ unread \in [Endpoints -> Nat]
  /\ opened \in [Endpoints -> Seq(Nat)]

\* The application records on a wire.
Flying(w)   == {i \in 1..Len(w) : w[i].kind = "application"}
InFlight(p) == Cardinality(Flying(wire[p]))

\* The two counters differ by what is under way and by what was never read,
\* and by nothing else (record.c:84-85, 112-113): with empty wires and no
\* failed allocation they agree again, however much traffic has crossed.
CounterSkew ==
  sequence_number["A"] + InFlight("B") + unread["A"]
    = sequence_number["B"] + InFlight("A") + unread["B"]

\* A context never seals two records with the same nonce, although receiving
\* moves the same counter.
NonceOncePerSender ==
  \A p \in Endpoints : \A i, j \in 1..Len(sealed[p]) :
    i < j => sealed[p][i] < sealed[p][j]

\* Nor do the two contexts ever seal with the same nonce.  The session keys of
\* both directions are the same zeros in this code, so this is what keeps one
\* key from meeting one nonce twice.
NonceOnceOverall ==
  /\ NonceOncePerSender
  /\ \A i \in 1..Len(sealed["A"]), j \in 1..Len(sealed["B"]) :
       sealed["A"][i] # sealed["B"][j]

\* Every record that arrives as it was sent is opened (README.md:163).
GenuineRecordsOpen ==
  \A p \in Endpoints :
    Arrives(p) /\ Arrived(p).kind = "application" => Opens(p, Arrived(p))

\* When a genuine record opens in full duplex.  Its nonce less its number is
\* how many of the receiver's records the sender had tried when it sealed it:
\* the record opens if and only if that is all the receiver has sealed by now,
\* less one for every record the receiver itself failed to read.
OpensUnlessCrossed ==
  \A p \in Endpoints :
    Arrives(p) /\ Arrived(p).kind = "application" =>
      ( Opens(p, Arrived(p)) <=>
          Arrived(p).nonce - Arrived(p).number + unread[p] = Len(sealed[p]) )

\* Receiving application data never leaves a fragment behind, opened or not;
\* only records axon_record_decrypt turns away do (record.c:74-78).
ApplicationRecordsFreed ==
  [][ \A p \in Endpoints :
        fragments'[p] # fragments[p] => Arrived(p).kind # "application" ]_vars

\* The payload numbers on a wire, without the records that carry none: the
\* i-th is that of the application record that has i of them up to itself.
Place(w, j) == Cardinality(Flying(w) \cap 1..j)
PayloadNumbers(w) ==
  [i \in 1..Cardinality(Flying(w)) |-> w[CHOOSE j \in Flying(w) : Place(w, j) = i].number]

\* In half duplex, with memory to be had, the two contexts are the reliable
\* channel their users expect.
Channel == INSTANCE DuplexChannel WITH
  queue     <- [p \in Endpoints |-> PayloadNumbers(wire[p])],
  delivered <- opened

ImplementsChannel == Channel!Spec

===============================================================================

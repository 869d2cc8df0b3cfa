---------------------------- MODULE ReliableDown ----------------------------
(****************************************************************************)
(* Reliable delivery from the server to a headless client, on one channel.  *)
(* send() only queues a payload. reliable_resend_loop takes as many out as  *)
(* there is room for in the window, numbers them, enters them in            *)
(* pending_reliable and sends all that is pending again and again; the      *)
(* client acks each packet it gets, and process_ack takes it out.           *)
(*                                                                          *)
(* Packets and acks are lost, repeated and overtaken at will; the time that *)
(* lies between two sends of a packet is abstract. The bound on their delay *)
(* is counted in payloads, since only a whole round of sequence numbers can *)
(* make an old packet look like a new one.                                  *)
(****************************************************************************)
EXTENDS SequenceSpace, Sequences, FiniteSets

CONSTANTS
  MaxPayloads,   \* bound: payloads queued
  RoundTrip      \* bound: payloads numbered while a packet and its ack are on their way

ASSUME DownAssumption == MaxPayloads \in Nat /\ RoundTrip \in 0 .. (MaxSequence - 1)

Payload == 1 .. MaxPayloads

VARIABLES
  queued,        \* how many payloads were ever put in outgoing_reliable
  taken,         \* how many of them were taken out
  numbered,      \* how many got a sequence number
  pending,       \* pending_reliable: sequence -> its payload, 0 when absent
  packets,       \* on their way to the client
  acks,          \* on their way back
  received,      \* the payloads the client got
  lingering      \* history: payloads still pending when their number was almost due again

network == <<packets, acks>>
vars    == <<queued, taken, numbered, pending, network, received, lingering>>

\* A packet, or the ack of it: the payload, and how many were numbered when it was sent.
Flight == [payload : Payload, sent : 0 .. MaxPayloads]

Init ==
  /\ queued = 0 /\ taken = 0 /\ numbered = 0
  /\ pending = [s \in Seqs |-> 0]
  /\ packets = {} /\ acks = {}
  /\ received = {}
  /\ lingering = {}

Pending == {s \in Seqs : pending[s] # 0}
Alive(flights, now) == {f \in flights : now - f.sent <= RoundTrip}

-----------------------------------------------------------------------------
(* The server *)

Enqueue ==
  /\ queued < MaxPayloads
  /\ queued' = queued + 1
  /\ UNCHANGED <<taken, numbered, pending, network, received, lingering>>

Capacity == IF Cardinality(Pending) < WindowSize THEN WindowSize - Cardinality(Pending) ELSE 0
Least(a, b) == IF a < b THEN a ELSE b

\* A tick takes out what the window has room for; acks can only make more room.
Fill ==
  /\ taken = numbered
  /\ Capacity > 0 /\ taken < queued
  /\ taken' = taken + Least(Capacity, queued - taken)
  /\ UNCHANGED <<queued, numbered, pending, network, received, lingering>>

\* Mutant: the number is counted up before it is used.
RecordFromOne ==
  /\ numbered < taken
  /\ numbered' = numbered + 1
  /\ pending' = [pending EXCEPT ![SeqOf(numbered + 2)] = numbered + 1]
  /\ UNCHANGED <<queued, taken, network, received, lingering>>

\* build_queued_reliable_packet and record_pending_reliable
Record ==
  /\ numbered < taken
  /\ LET p == numbered + 1  s == SeqOf(p) IN
       /\ numbered' = p
       /\ pending' = [pending EXCEPT ![s] = p]
       /\ lingering' = lingering \union
            {pending[u] : u \in {v \in Pending : p - pending[v] >= MaxSequence - RoundTrip}}
       /\ packets' = Alive(packets, p)
       /\ acks' = Alive(acks, p)
  /\ UNCHANGED <<queued, taken, received>>

\* Mutant: only the newest packet is sent, and none again.
TransmitNewest(s) ==
  /\ pending[s] # 0 /\ pending[s] = numbered
  /\ packets' = packets \union {[payload |-> pending[s], sent |-> numbered]}
  /\ UNCHANGED <<queued, taken, numbered, pending, acks, received, lingering>>

\* The loop sends what it has just numbered and what was sent long enough ago.
Transmit(s) ==
  /\ pending[s] # 0
  /\ packets' = packets \union {[payload |-> pending[s], sent |-> numbered]}
  /\ UNCHANGED <<queued, taken, numbered, pending, acks, received, lingering>>

AckOf(f) == [start |-> SeqOf(f.payload), bits |-> {SeqOf(f.payload) % WindowSize}]

\* Mutant: the ack names by its bits alone.
ProcessAckBits(f) ==
  /\ f \in acks
  /\ pending' = [s \in Seqs |-> IF s % WindowSize \in AckOf(f).bits THEN 0 ELSE pending[s]]
  /\ UNCHANGED <<queued, taken, numbered, network, received, lingering>>

ProcessAck(f) ==
  /\ f \in acks
  /\ pending' = [s \in Seqs |-> IF Acks(AckOf(f), s) THEN 0 ELSE pending[s]]
  /\ UNCHANGED <<queued, taken, numbered, network, received, lingering>>

-----------------------------------------------------------------------------
(* The client and the network *)

\* handle_channeled: an ack of its own for every packet, also for a repeated one.
Receive(f) ==
  /\ f \in packets
  /\ received' = received \union {f.payload}
  /\ acks' = acks \union {f}
  /\ UNCHANGED <<queued, taken, numbered, pending, packets, lingering>>

Lose(f) ==
  /\ packets' = packets \ {f}
  /\ acks' = acks \ {f}
  /\ UNCHANGED <<queued, taken, numbered, pending, received, lingering>>

Server == Enqueue \/ Fill \/ Record \/ \E s \in Seqs : Transmit(s)

Next ==
  \/ Server
  \/ \E f \in packets : Receive(f)
  \/ \E f \in acks : ProcessAck(f)
  \/ \E f \in packets \union acks : Lose(f)

Spec == Init /\ [][Next]_vars

\* The loop ticks for ever. The network may lose and delay packets, but not all
\* of those that are sent again and again; the same goes for their acks.
FairSpec ==
  /\ Spec
  /\ WF_vars(Fill) /\ WF_vars(Record)
  /\ WF_vars(\E s \in Seqs : Transmit(s))
  /\ \A p \in Payload : SF_vars(\E f \in packets : f.payload = p /\ Receive(f))
  /\ SF_vars(\E f \in acks : ProcessAck(f))

-----------------------------------------------------------------------------
DownTypeOK ==
  /\ queued \in 0 .. MaxPayloads /\ taken \in 0 .. queued /\ numbered \in 0 .. taken
  /\ pending \in [Seqs -> 0 .. numbered]
  /\ packets \subseteq Flight /\ acks \subseteq Flight
  /\ received \subseteq 1 .. numbered
  /\ lingering \subseteq 1 .. numbered
  /\ \A s \in Pending : SeqOf(pending[s]) = s

\* A payload that was sent is sent again until the client has it: late, lost
\* and repeated acks never take out one that did not arrive. It can only be lost
\* when the numbers have almost gone once round while it, or the one that had its
\* number before, is still pending: the window counts packets and not their span.
NoneLost ==
  \A p \in 1 .. numbered :
    \/ p \in received
    \/ \E s \in Seqs : pending[s] = p
    \/ {p, p - MaxSequence} \intersect lingering # {}

\* What the server still has, queued or pending, and what the numbers may confuse
Owed    == {p \in 1 .. queued : p > numbered \/ \E s \in Seqs : pending[s] = p}
Excused == {p \in Payload : {p, p - MaxSequence} \intersect lingering # {}}

Channel == INSTANCE AtLeastOnce WITH accepted <- 1 .. queued, owed <- Owed,
                                     delivered <- received, excused <- Excused

\* Step by step this is a channel that delivers at least once: when a payload leaves
\* the server's tables the client has it by then, no matter what was overtaken or
\* repeated, and the client gets nothing that was not queued.
DeliversDown == Channel!Spec

\* What is queued arrives in the end, as long as none lingers.
Arrives == \A p \in Payload : (queued >= p) ~> (p \in received \/ lingering # {})
=============================================================================

----------------------------- MODULE ReliableUp -----------------------------
(****************************************************************************)
(* Reliable delivery from a headless client to the server, on one channel.  *)
(* Any task of the client numbers a payload, sends it and only then enters  *)
(* it in pending_reliable; nothing bounds how many are pending. The server  *)
(* collects what it got in a window of its own (queue_ack) and sends that   *)
(* as one ack at its next tick.                                             *)
(*                                                                          *)
(* The client has one counter for all its channels, so that a channel sees  *)
(* gaps. As in ReliableDown the network loses, repeats and reorders at will, *)
(* and delays are counted in payloads.                                      *)
(****************************************************************************)
EXTENDS SequenceSpace, FiniteSets

CONSTANTS
  Settled,       \* payloads that were sent and acked before the behaviour starts
  MaxPayloads,   \* bound: payloads numbered
  Ours,          \* bound: those that this channel may send
  Senders,       \* bound: tasks of the client that send at once
  RoundTrip,     \* bound: payloads numbered while a packet, the window it enters or its ack lives
  MaxPending,    \* bound: payloads pending at once
  MaxPackets,    \* bound: payloads on their way at once
  MaxAcks        \* bound: acks on their way at once

ASSUME UpAssumption ==
  /\ {Settled, MaxPayloads, Senders, MaxPending, MaxPackets, MaxAcks} \subseteq Nat
  /\ RoundTrip \in 0 .. (MaxSequence - 1)

Payload == (Settled + 1) .. (Settled + MaxPayloads)
Counts  == 0 .. (Settled + MaxPayloads)

VARIABLES
  numbered,      \* how many payloads got a sequence number, on any channel
  sent,          \* those of this channel
  unsaved,       \* sent, but not in pending_reliable yet
  pending,       \* pending_reliable of the client
  packets,       \* how many were numbered when a payload was last sent, 0 when none is on its way
  window,        \* outgoing_acks of the server: at most one window
  acks,          \* on their way back
  received,      \* the payloads the server handed to the core
  lingering      \* history: payloads still with the client when their number was almost due again

client == <<numbered, sent, unsaved, pending, lingering>>
server == <<window, received>>
vars   == <<client, server, packets, acks>>

\* A window, or an ack made of it, and how many payloads were numbered when the
\* oldest packet in it was sent.
Window == [ack : Ack, since : Counts]

Init ==
  /\ numbered = Settled /\ sent = {} /\ unsaved = {} /\ pending = {} /\ lingering = {}
  /\ packets = [p \in Payload |-> 0] /\ window = {} /\ acks = {}
  /\ received = {}

Fresh(then, now) == now - then <= RoundTrip
OnTheWay(p) == packets[p] # 0
RoomFor(p)  == Cardinality({q \in Payload \ {p} : OnTheWay(q)}) < MaxPackets
Unacked     == unsaved \union pending

-----------------------------------------------------------------------------
(* The client *)

\* fetch_add; the server's tick does not wait for ever, nor does a packet travel so.
Number(p) ==
  /\ p \in Payload /\ p = numbered + 1
  /\ \A w \in window : Fresh(w.since, p)
  /\ numbered' = p
  /\ acks' = {a \in acks : Fresh(a.since, p)}
  /\ lingering' = lingering \union {q \in Unacked : p - q >= MaxSequence - RoundTrip}
Aged(p) == [q \in Payload |-> IF Fresh(packets[q], p) THEN packets[q] ELSE 0]

\* send_reliable_ordered up to its send_to
Send(p) ==
  /\ p \in Ours /\ Number(p) /\ Cardinality(unsaved) < Senders /\ RoomFor(p)
  /\ Cardinality(Unacked) < MaxPending
  /\ sent' = sent \union {p}
  /\ unsaved' = unsaved \union {p}
  /\ packets' = [Aged(p) EXCEPT ![p] = p]
  /\ UNCHANGED <<pending, server>>

\* A payload of another channel takes the number.
SendElsewhere(p) ==
  /\ Number(p)
  /\ packets' = Aged(p)
  /\ UNCHANGED <<sent, unsaved, pending, server>>

\* push_back, which the ack of the packet may have overtaken
Save(p) ==
  /\ p \in unsaved
  /\ unsaved' = unsaved \ {p}
  /\ pending' = pending \union {p}
  /\ UNCHANGED <<numbered, sent, lingering, server, packets, acks>>

\* resend_reliable
Resend(p) ==
  /\ p \in pending /\ RoomFor(p)
  /\ packets' = [packets EXCEPT ![p] = numbered]
  /\ UNCHANGED <<client, server, acks>>

\* Mutant: the ack names by its bits alone.
ProcessAckBits(a) ==
  /\ a \in acks
  /\ pending' = {p \in pending : SeqOf(p) % WindowSize \notin a.ack.bits}
  /\ UNCHANGED <<numbered, sent, unsaved, lingering, server, packets, acks>>

\* Mutant: what is before the window counts as acked.
ProcessAckBefore(a) ==
  /\ a \in acks
  /\ pending' = {p \in pending : /\ ~ Acks(a.ack, SeqOf(p))
                               /\ relative_sequence(SeqOf(p), a.ack.start) >= 0}
  /\ UNCHANGED <<numbered, sent, unsaved, lingering, server, packets, acks>>

ProcessAck(a) ==
  /\ a \in acks
  /\ pending' = {p \in pending : ~ Acks(a.ack, SeqOf(p))}
  /\ UNCHANGED <<numbered, sent, unsaved, lingering, server, packets, acks>>

-----------------------------------------------------------------------------
(* The server *)

BitOf(s) == s % WindowSize
Least(a, b) == IF a < b THEN a ELSE b

\* Mutant: the window moves and its bits stay.
SlideKeepsBits(ack, s) ==
  LET rel == relative_sequence(s, ack.start)
      shift == IF rel >= WindowSize THEN rel - WindowSize + 1 ELSE 0
  IN IF rel < 0 THEN ack
     ELSE [start |-> (ack.start + shift) % MaxSequence, bits |-> ack.bits \union {BitOf(s)}]

\* queue_ack: a sequence before the window is left for the sender's next try;
\* one behind it moves the window and clears the bits of what falls out.
Slide(ack, s) ==
  LET rel   == relative_sequence(s, ack.start)
      shift == IF rel >= WindowSize THEN rel - WindowSize + 1 ELSE 0
      gone  == {BitOf(ack.start + i) : i \in 0 .. (shift - 1)}
  IN IF rel < 0 THEN ack
     ELSE [start |-> (ack.start + shift) % MaxSequence, bits |-> (ack.bits \ gone) \union {BitOf(s)}]

Opened(s) == [start |-> s, bits |-> {BitOf(s)}]

\* Mutant: a repeated packet is not acked again.
ReceiveOnce(p) ==
  /\ OnTheWay(p) /\ p \notin received
  /\ received' = received \union {p}
  /\ window' = IF window = {} THEN {[ack |-> Opened(SeqOf(p)), since |-> packets[p]]}
               ELSE {[w EXCEPT !.ack = Slide(w.ack, SeqOf(p))] : w \in window}
  /\ UNCHANGED <<client, packets, acks>>

\* A packet is acked and handed to the core, also when it is a repeated one.
Receive(p) ==
  /\ OnTheWay(p)
  /\ received' = received \union {p}
  /\ window' = IF window = {}
               THEN {[ack |-> Opened(SeqOf(p)), since |-> packets[p]]}
               ELSE {[ack |-> Slide(w.ack, SeqOf(p)),
                      since |-> Least(w.since, packets[p])] : w \in window}
  /\ UNCHANGED <<client, packets, acks>>

\* A tick drains outgoing_acks and sends what was in it.
SendAck ==
  /\ window # {} /\ Cardinality(acks) < MaxAcks
  /\ acks' = acks \union window
  /\ window' = {}
  /\ UNCHANGED <<client, received, packets>>

LosePacket(p) ==
  /\ OnTheWay(p)
  /\ packets' = [packets EXCEPT ![p] = 0]
  /\ UNCHANGED <<client, server, acks>>

LoseAck(a) == acks' = acks \ {a} /\ UNCHANGED <<client, server, packets>>

ClientStep == \E p \in Payload : Send(p) \/ SendElsewhere(p) \/ Save(p) \/ Resend(p)
ServerStep == SendAck \/ \E p \in Payload : Receive(p)

Next ==
  \/ ClientStep \/ ServerStep
  \/ \E a \in acks : ProcessAck(a) \/ LoseAck(a)
  \/ \E p \in Payload : LosePacket(p)

Spec == Init /\ [][Next]_vars

\* Both loops tick for ever, a task that sent a packet also enters it, and the
\* network neither keeps a packet for ever nor loses each one that is repeated.
FairSpec ==
  /\ Spec
  /\ WF_vars(SendAck)
  /\ WF_vars(\E p \in Payload : Save(p)) /\ WF_vars(\E p \in Payload : Resend(p))
  /\ WF_vars(\E p \in Payload : LosePacket(p)) /\ WF_vars(\E a \in acks : LoseAck(a))
  /\ \A p \in Ours : SF_vars(Receive(p))
  /\ SF_vars(\E a \in acks : ProcessAck(a))

-----------------------------------------------------------------------------
UpTypeOK ==
  /\ numbered \in Counts /\ sent \subseteq Payload \intersect (0 .. numbered)
  /\ Unacked \union received \union lingering \subseteq sent
  /\ packets \in [Payload -> 0 .. numbered] /\ Cardinality(window) <= 1
  /\ \A w \in window \union acks : w \in Window

\* The number of p, or of one before it that had the same, was almost due again
\* while the client still had that one: an ack of the one may then be taken for the other's.
Confused(p) == \E q \in lingering : q <= p /\ SeqOf(q) = SeqOf(p)

\* An ack never names a packet that the server did not get: when the window moves
\* no bit survives under the number that takes its place.
AcksTruthful ==
  \A w \in window \union acks : \A p \in sent : Acks(w.ack, SeqOf(p)) => p \in received \/ Confused(p)

\* What a task of the client sent stays with the client until the server has it,
\* also when the ack comes before the task has entered its packet. Nothing bounds
\* what a client has unacked, so that its numbers may be confused.
NoneForgotten == \A p \in sent : p \in received \union Unacked \/ Confused(p)

\* Step by step this is a channel that delivers at least once: when the client lets go
\* of a packet the server has it by then, though acks name whole windows and a task may
\* enter its packet after the ack of it; and the server gets only what was sent.
Channel == INSTANCE AtLeastOnce WITH accepted <- sent, owed <- Unacked, delivered <- received,
                                     excused <- {p \in Payload : Confused(p)}
DeliversUp == Channel!Spec

\* The client gets rid of every packet it sent: though the server acks none that
\* is older than the first one of its window, each is acked in the end.
Settles == \A p \in Ours : (p \in pending) ~> (p \notin pending /\ (p \in received \/ Confused(p)))
=============================================================================

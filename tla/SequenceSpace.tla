--------------------------- MODULE SequenceSpace ---------------------------
(* The sequence numbers of reliable packets and the acks that name them, as  *)
(* the server and the headless client both compute them.                    *)
EXTENDS Integers

CONSTANTS
  MaxSequence,   \* MAX_SEQUENCE: how many sequence numbers there are
  WindowSize     \* DEFAULT_WINDOW_SIZE: how many an ack packet can name

ASSUME SequenceAssumption ==
  /\ MaxSequence \in Nat \ {0} /\ MaxSequence % 2 = 0
  /\ WindowSize \in Nat \ {0} /\ MaxSequence % WindowSize = 0
  /\ 2 * WindowSize <= MaxSequence

Seqs == 0 .. (MaxSequence - 1)
Half == MaxSequence \div 2

\* How far s is ahead of e, going round the shorter way.
relative_sequence(s, e) ==
  IF s - e <= -Half THEN s - e + MaxSequence
  ELSE IF s - e >= Half THEN s - e - MaxSequence
  ELSE s - e

\* An ack packet: the first sequence it can name, and the bits that are set.
Ack == [start : Seqs, bits : SUBSET (0 .. (WindowSize - 1))]

InWindow(s, start) == relative_sequence(s, start) \in 0 .. (WindowSize - 1)
Acks(ack, s) == InWindow(s, ack.start) /\ s % WindowSize \in ack.bits

\* The sequence number of the payload that is the p-th on its channel.
SeqOf(p) == (p - 1) % MaxSequence
=============================================================================

------------------------- MODULE ReliableDownProofs -------------------------
(* Theorems about ReliableDown, for every value of its constants: late, lost and *)
(* repeated acks take out no payload that did not arrive, as long as none stays  *)
(* pending for a whole round of the sequence numbers, and so the server and the  *)
(* client implement AtLeastOnce.                                                *)
EXTENDS ReliableDown, FiniteSetTheorems, TLAPS

-----------------------------------------------------------------------------
(* Arithmetic of sequence numbers *)

LEMMA Distribute == ASSUME NEW b \in Int, NEW x \in Int, NEW y \in Int
  PROVE  b * (x + y) = b * x + b * y /\ b * (x - y) = b * x - b * y
OBVIOUS

(* A multiple of b that is smaller than b is none at all. *)
LEMMA NoMultiple == ASSUME NEW b \in Nat \ {0}, NEW k \in Int, b * k < b, -b < b * k PROVE k = 0
<1>1. CASE k >= 1
  <2>1. b * k >= b
    BY <1>1
  <2> QED
    BY <2>1
<1>2. CASE k <= -1
  <2>1. b * k <= -b
    BY <1>2
  <2> QED
    BY <2>1
<1> QED
  BY <1>1, <1>2

LEMMA Remainder == ASSUME NEW a \in Int, NEW b \in Nat \ {0}
  PROVE  \E q \in Int, r \in 0 .. (b - 1) : a % b = r /\ a = b * q + r
<1>1. a \div b \in Int /\ a % b \in 0 .. (b - 1) /\ a = b * (a \div b) + (a % b)
  OBVIOUS
<1>2. a = b * (a \div b) + (a % b)
  BY <1>1, Zenon
<1> WITNESS a \div b \in Int, a % b \in 0 .. (b - 1)
<1> QED
  BY <1>2

(* Division with remainder has one result. *)
LEMMA OneRemainder == ASSUME NEW b \in Nat \ {0}, NEW q \in Int, NEW r \in 0 .. (b - 1),
                             NEW d \in Int, NEW m \in 0 .. (b - 1), b * q + r = b * d + m
  PROVE  q = d /\ r = m
<1>1. b * (d - q) = b * d - b * q /\ b * d \in Int /\ b * q \in Int
  BY Distribute
<1>2. b * (d - q) = r - m
  BY <1>1
<1>3. r - m < b /\ -b < r - m
  OBVIOUS
<1>4. d - q = 0
  BY <1>2, <1>3, NoMultiple
<1> QED
  BY <1>2, <1>4

LEMMA RemainderIs == ASSUME NEW a \in Int, NEW b \in Nat \ {0}, NEW q \in Int, NEW r \in 0 .. (b - 1),
                            a = b * q + r
  PROVE  a % b = r
<1>1. PICK d \in Int, m \in 0 .. (b - 1) : a % b = m /\ a = b * d + m
  BY Remainder
<1>2. b * q + r = b * d + m
  BY <1>1, Zenon
<1>3. r = m
  BY <1>2, OneRemainder
<1> QED
  BY <1>1, <1>3, Zenon

(* Two numbers leave the same remainder when they are multiples of b apart. *)
LEMMA Shifted == ASSUME NEW b \in Nat \ {0}, NEW t \in Int, NEW k \in Int, NEW s \in Int, s = t + b * k
  PROVE  s % b = t % b
<1>1. PICK q \in Int, r \in 0 .. (b - 1) : t % b = r /\ t = b * q + r
  BY Remainder
<1>2. t = b * q + r
  BY <1>1, Zenon
<1>3. b * (q + k) = b * q + b * k /\ b * q \in Int /\ b * k \in Int
  BY Distribute
<1>4. s = b * (q + k) + r /\ q + k \in Int
  <2> DEFINE u == b * q  v == b * k  w == b * (q + k)
  <2>1. t = u + r /\ w = u + v /\ s = t + v /\ u \in Int /\ v \in Int
    BY <1>2, <1>3, Zenon
  <2> HIDE DEF u, v, w
  <2>2. s = w + r
    BY <2>1
  <2>3. s = b * (q + k) + r
    BY <2>2, Zenon DEF w
  <2>4. q + k \in Int
    OBVIOUS
  <2> QED
    BY <2>3, <2>4, Zenon
<1>5. s % b = r
  <2>1. \A m \in Int : s = b * m + r => s % b = r
    <3> TAKE m \in Int
    <3> HAVE s = b * m + r
    <3> QED
      BY RemainderIs
  <2> QED
    BY <1>4, <2>1, Zenon
<1> QED
  BY <1>1, <1>5, Zenon

LEMMA Congruent == ASSUME NEW s \in Int, NEW t \in Int, NEW b \in Nat \ {0}, s % b = t % b
  PROVE  \E k \in Int : s = t + b * k
<1>1. PICK q \in Int, r \in 0 .. (b - 1) : t % b = r /\ t = b * q + r
  BY Remainder
<1>2. PICK p \in Int, m \in 0 .. (b - 1) : s % b = m /\ s = b * p + m
  BY Remainder
<1>3. m = r
  BY <1>1, <1>2, Zenon
<1>4. s = b * p + r /\ t = b * q + r
  BY <1>1, <1>2, <1>3, Zenon
<1>5. b * (p - q) = b * p - b * q /\ b * p \in Int /\ b * q \in Int
  BY Distribute
<1>6. s = t + b * (p - q) /\ p - q \in Int
  <2> DEFINE u == b * q  v == b * p  w == b * (p - q)
  <2>1. t = u + r /\ w = v - u /\ s = v + r /\ u \in Int /\ v \in Int
    BY <1>4, <1>5, Zenon
  <2> HIDE DEF u, v, w
  <2>2. s = t + w
    BY <2>1
  <2>3. s = t + b * (p - q)
    BY <2>2, Zenon DEF w
  <2>4. p - q \in Int
    OBVIOUS
  <2> QED
    BY <2>3, <2>4, Zenon
<1> QED
  BY <1>6, Zenon

(* Numbers that are less than b apart are told apart by their remainders. *)
LEMMA Apart == ASSUME NEW s \in Int, NEW t \in Int, NEW b \in Nat \ {0},
                      s % b = t % b, s - t < b, t - s < b
  PROVE  s = t
<1>1. PICK k \in Int : s = t + b * k
  BY Congruent
<1>2. b * k \in Int
  OBVIOUS
<1>3. b * k < b /\ -b < b * k
  BY <1>1, <1>2
<1>4. k = 0
  BY <1>3, NoMultiple
<1> QED
  BY <1>1, <1>4

LEMMA Constants ==
  /\ MaxSequence \in Nat \ {0} /\ WindowSize \in Nat \ {0}
  /\ Half \in Nat /\ 2 * Half = MaxSequence /\ WindowSize <= Half
<1>1. MaxSequence \in Nat \ {0} /\ WindowSize \in Nat \ {0} /\ 2 * WindowSize <= MaxSequence
  BY SequenceAssumption
<1>2. 2 * Half = MaxSequence /\ Half \in Nat
  BY <1>1, SequenceAssumption DEF Half
<1> QED
  BY <1>1, <1>2

(* A round of sequence numbers is a whole number of windows, so that bits are
   not changed by the wrap. *)
LEMMA RoundOfWindows == ASSUME NEW s \in Int
  PROVE  /\ (s + MaxSequence) % WindowSize = s % WindowSize
         /\ (s - MaxSequence) % WindowSize = s % WindowSize
         /\ (s % MaxSequence) % WindowSize = s % WindowSize
<1> DEFINE W == WindowSize  M == MaxSequence
<1>c. M \in Int /\ M \in Nat \ {0} /\ W \in Nat \ {0} /\ W \in Int
  BY Constants
<1>0. M % W = 0
  BY SequenceAssumption
<1> HIDE DEF W, M
<1>1. PICK k \in Int, r \in 0 .. (W - 1) : M % W = r /\ M = W * k + r
  BY <1>c, Remainder, Zenon
<1>2. M = W * k
  <2>1. r = 0 /\ M = W * k + r
    BY <1>0, <1>1, Zenon
  <2> QED
    BY <1>c, <2>1
<1>3. s - M \in Int /\ s + M \in Int /\ s = (s - M) + M
  BY <1>c
<1>4. ASSUME NEW t \in Int PROVE (t + M) % W = t % W
  <2>1. t + M \in Int
    BY <1>c
  <2>2. t + M = t + W * k
    BY <1>2, Zenon
  <2> QED
    BY <1>c, <2>1, <2>2, Shifted
<1>5. (s % M) % W = s % W
  <2>1. PICK q \in Int, m \in 0 .. (M - 1) : s % M = m /\ s = M * q + m
    BY <1>c, Remainder, Zenon
  <2>2. s = (W * k) * q + m
    BY <1>2, <2>1, Zenon
  <2>3. (W * k) * q = W * (k * q) /\ k * q \in Int /\ m \in Int /\ W * (k * q) \in Int
    BY <1>c
  <2>4. s = m + W * (k * q)
    <3> DEFINE x == W * (k * q)
    <3>1. s = x + m /\ x \in Int
      BY <2>2, <2>3, Zenon
    <3> HIDE DEF x
    <3>2. s = m + x
      BY <2>3, <3>1
    <3> QED
      BY <3>2 DEF x
  <2>5. s % W = m % W
    <3>1. s \in Int /\ m \in Int
      BY <2>3
    <3> QED
      BY <1>c, <2>3, <2>4, <3>1, Shifted, Zenon
  <2> QED
    BY <2>1, <2>5, Zenon
<1>6. (s + M) % W = s % W /\ (s - M) % W = s % W
  BY <1>3, <1>4, Zenon
<1> QED
  BY <1>5, <1>6, Zenon DEF W, M

(* An ack of one packet names no other sequence number. *)
LEMMA AckNames == ASSUME NEW e \in Seqs, NEW s \in Seqs,
                         Acks([start |-> e, bits |-> {e % WindowSize}], s)
  PROVE  s = e
<1>1. relative_sequence(s, e) \in 0 .. (WindowSize - 1) /\ s % WindowSize = e % WindowSize
  BY Zenon DEF Acks, InWindow
<1>2. s - e \in 0 .. (WindowSize - 1) \/ s - e + MaxSequence \in 0 .. (WindowSize - 1)
  BY <1>1, Constants DEF relative_sequence, Seqs
<1>3. s \in Int /\ e \in Int /\ s + MaxSequence \in Int /\ WindowSize \in Nat \ {0}
  BY Constants DEF Seqs
<1>4. CASE s - e \in 0 .. (WindowSize - 1)
  <2>1. s - e < WindowSize /\ e - s < WindowSize
    BY <1>3, <1>4
  <2> QED
    BY <1>1, <1>3, <2>1, Apart, Zenon
<1>5. CASE s - e + MaxSequence \in 0 .. (WindowSize - 1)
  <2>1. (s + MaxSequence) - e < WindowSize /\ e - (s + MaxSequence) < WindowSize
    BY <1>3, <1>5, Constants
  <2>2. (s + MaxSequence) % WindowSize = e % WindowSize
    BY <1>1, <1>3, RoundOfWindows, Zenon
  <2>3. s + MaxSequence = e
    BY <1>3, <2>1, <2>2, Apart, Zenon
  <2> QED
    BY <2>3, Constants DEF Seqs
<1> QED
  BY <1>2, <1>4, <1>5

LEMMA DownConstants ==
  /\ MaxPayloads \in Nat /\ RoundTrip \in 0 .. (MaxSequence - 1)
  /\ Payload \subseteq Nat \ {0}
BY DownAssumption DEF Payload

LEMMA SeqOfTyped == ASSUME NEW p \in Nat \ {0} PROVE SeqOf(p) \in Seqs
<1>1. p - 1 \in Int /\ MaxSequence \in Nat \ {0}
  BY Constants
<1>2. PICK q \in Int, r \in 0 .. (MaxSequence - 1) :
        (p - 1) % MaxSequence = r /\ p - 1 = MaxSequence * q + r
  BY <1>1, Remainder, Zenon
<1> QED
  BY <1>2, Zenon DEF SeqOf, Seqs

(* Payloads that had the same number are whole rounds apart: those that are less
   than a round apart are one, those that are less than two are one round apart. *)
LEMMA SameNumber == ASSUME NEW p \in Nat \ {0}, NEW q \in Nat \ {0}, SeqOf(p) = SeqOf(q), q <= p
  PROVE  /\ p < q + MaxSequence => p = q
         /\ p < q + 2 * MaxSequence => p = q \/ p = q + MaxSequence
<1> DEFINE x == p - 1  y == q - 1  z == p - 1 - MaxSequence
<1>0. MaxSequence \in Nat \ {0} /\ MaxSequence \in Int /\ x \in Int /\ y \in Int /\ z \in Int
  BY Constants
<1>1. x % MaxSequence = y % MaxSequence
  BY DEF SeqOf
<1>2. ASSUME p < q + MaxSequence PROVE p = q
  <2>1. x - y < MaxSequence /\ y - x < MaxSequence
    BY <1>0, <1>2
  <2>2. x = y
    <3> HIDE DEF x, y
    <3> QED
      BY <1>0, <1>1, <2>1, Apart, Zenon
  <2> QED
    BY <2>2
<1>3. ASSUME p < q + 2 * MaxSequence, ~(p < q + MaxSequence) PROVE p = q + MaxSequence
  <2>1. z - y < MaxSequence /\ y - z < MaxSequence /\ x = z + MaxSequence * 1 /\ 1 \in Int
    BY <1>0, <1>3
  <2> HIDE DEF x, y, z
  <2>2. x % MaxSequence = z % MaxSequence
    BY <1>0, <2>1, Shifted, Zenon
  <2>3. z % MaxSequence = y % MaxSequence
    BY <1>1, <2>2, Zenon
  <2>4. z = y
    BY <1>0, <2>1, <2>3, Apart, Zenon
  <2> QED
    BY <1>0, <2>4 DEF y, z
<1> QED
  BY <1>2, <1>3

-----------------------------------------------------------------------------
(* The invariant *)

\* A number is used again only a round later, and by then its packet lingers.
Recent  == \A s \in Pending : numbered < pending[s] + MaxSequence
Late    == MaxSequence - RoundTrip
Lingers == \A s \in Pending : numbered - pending[s] >= Late => pending[s] \in lingering

\* A packet was pending when it was sent, which is less than a round trip ago.
Flying(f) ==
  /\ f.payload <= f.sent /\ f.sent <= numbered /\ numbered - f.sent <= RoundTrip
  /\ f.sent < f.payload + MaxSequence
  /\ f.sent - f.payload >= Late => f.payload \in lingering

Flights == \A f \in packets \union acks : Flying(f)
Acked   == \A f \in acks : f.payload \in received

DownInv == DownTypeOK /\ Recent /\ Lingers /\ Flights /\ Acked /\ NoneLost

LEMMA Typed == ASSUME DownTypeOK
  PROVE  /\ queued \in Nat /\ taken \in Nat /\ numbered \in Nat
         /\ numbered <= taken /\ taken <= queued /\ queued <= MaxPayloads
         /\ pending \in [Seqs -> 0 .. numbered]
         /\ \A s \in Pending : pending[s] \in 1 .. numbered /\ SeqOf(pending[s]) = s
         /\ \A f \in packets \union acks : f.payload \in Payload /\ f.sent \in Nat
         /\ received \subseteq 1 .. numbered /\ lingering \subseteq 1 .. numbered
<1>1. queued \in Nat /\ taken \in Nat /\ numbered \in Nat
      /\ numbered <= taken /\ taken <= queued /\ queued <= MaxPayloads
  BY DownConstants DEF DownTypeOK
<1>2. \A s \in Pending : pending[s] \in 1 .. numbered /\ SeqOf(pending[s]) = s
  BY <1>1 DEF DownTypeOK, Pending
<1>3. \A f \in packets \union acks : f.payload \in Payload /\ f.sent \in Nat
  BY DEF DownTypeOK, Flight
<1> QED
  BY <1>1, <1>2, <1>3 DEF DownTypeOK

LEMMA DownInit == Init => DownInv
<1> SUFFICES ASSUME Init PROVE DownInv
  OBVIOUS
<1>1. Pending = {}
  BY DEF Init, Pending
<1>2. DownTypeOK
  BY <1>1, DownConstants DEF Init, DownTypeOK
<1>3. \A p \in 1 .. numbered : FALSE
  BY DEF Init
<1> QED
  BY <1>1, <1>2, <1>3 DEF Init, DownInv, Recent, Lingers, Flights, Acked, NoneLost

\* What only queues, sends again or loses keeps every payload where it was.
LEMMA QuietKeeps == ASSUME DownInv, DownTypeOK',
                           numbered' = numbered, pending' = pending, lingering' = lingering,
                           received \subseteq received',
                           \A f \in packets' \union acks' : Flying(f),
                           \A f \in acks' : f.payload \in received'
  PROVE  DownInv'
<1>1. Pending' = Pending
  BY DEF Pending
<1>2. Recent' /\ Lingers'
  BY <1>1 DEF DownInv, Recent, Lingers
<1>3. Flights' /\ Acked'
  BY DEF Flights, Flying, Acked
<1>4. NoneLost'
  BY DEF DownInv, NoneLost
<1> QED
  BY <1>2, <1>3, <1>4 DEF DownInv

LEMMA EnqueueKeeps == ASSUME DownInv, Enqueue PROVE DownInv'
<1>1. DownTypeOK'
  <2>1. queued' = queued + 1 /\ queued < MaxPayloads /\ Pending' = Pending
    BY DEF Enqueue, Pending
  <2>2. queued' \in 0 .. MaxPayloads /\ taken \in 0 .. queued'
    BY <2>1, Typed, DownConstants DEF DownInv
  <2> QED
    BY <2>1, <2>2 DEF Enqueue, DownInv, DownTypeOK, network
<1> QED
  BY <1>1, QuietKeeps DEF Enqueue, network, DownInv, Flights, Acked

LEMMA PendingFinite == IsFiniteSet(Pending) /\ Cardinality(Pending) \in Nat
<1>1. IsFiniteSet(Seqs)
  BY FS_Interval, Constants DEF Seqs
<1>2. Pending \subseteq Seqs
  BY DEF Pending
<1>3. IsFiniteSet(Pending)
  BY <1>1, <1>2, FS_Subset
<1> QED
  BY <1>3, FS_CardinalityType

LEMMA FillKeeps == ASSUME DownInv, Fill PROVE DownInv'
<1>1. DownTypeOK'
  <2>1. taken = numbered /\ taken < queued /\ taken' = taken + Least(Capacity, queued - taken)
        /\ Pending' = Pending
    BY DEF Fill, Pending
  <2>2. Capacity \in Nat
    BY PendingFinite, Constants DEF Capacity
  <2>3. taken' \in 0 .. queued /\ numbered \in 0 .. taken'
    BY <2>1, <2>2, Typed DEF DownInv, Least
  <2> QED
    BY <2>1, <2>3 DEF Fill, DownInv, DownTypeOK, network
<1> QED
  BY <1>1, QuietKeeps DEF Fill, network, DownInv, Flights, Acked

LEMMA TransmitKeeps == ASSUME DownInv, NEW s \in Seqs, Transmit(s) PROVE DownInv'
<1> DEFINE f == [payload |-> pending[s], sent |-> numbered]
<1>1. s \in Pending /\ packets' = packets \union {f} /\ acks' = acks
      /\ UNCHANGED <<queued, taken, numbered, pending, received, lingering>>
  BY DEF Transmit, Pending
<1>2. pending[s] \in 1 .. numbered /\ numbered \in Nat /\ numbered <= MaxPayloads
  <2>1. \A v \in Pending : pending[v] \in 1 .. numbered
    BY Typed DEF DownInv
  <2>2. numbered \in Nat /\ numbered <= MaxPayloads
    BY Typed, DownConstants DEF DownInv
  <2> QED
    BY <1>1, <2>1, <2>2
<1>3. f \in Flight
  BY <1>2, DownConstants DEF Flight, Payload
<1>4. Flying(f)
  BY <1>1, <1>2, DownConstants, Constants DEF Flying, DownInv, Recent, Lingers
<1> HIDE DEF f
<1>5. DownTypeOK'
  BY <1>1, <1>3 DEF DownInv, DownTypeOK, Pending
<1> QED
  BY <1>1, <1>4, <1>5, QuietKeeps DEF DownInv, Flights, Acked

LEMMA ReceiveKeeps == ASSUME DownInv, NEW f \in packets, Receive(f) PROVE DownInv'
<1>1. received' = received \union {f.payload} /\ acks' = acks \union {f} /\ packets' = packets
      /\ UNCHANGED <<queued, taken, numbered, pending, lingering>>
  BY DEF Receive
<1>2. f.payload \in 1 .. numbered
  <2>1. f.payload \in Payload /\ f.sent \in Nat /\ numbered \in Nat
    BY Typed DEF DownInv
  <2>2. f.payload <= f.sent /\ f.sent <= numbered
    BY DEF DownInv, Flights, Flying
  <2>3. f.payload \in Nat \ {0}
    BY <2>1, DownConstants, Zenon
  <2> QED
    BY <2>1, <2>2, <2>3
<1>3. DownTypeOK'
  BY <1>1, <1>2 DEF DownInv, DownTypeOK, Pending
<1>4. \A g \in packets' \union acks' : Flying(g)
  BY <1>1 DEF DownInv, Flights
<1>5. \A g \in acks' : g.payload \in received'
  BY <1>1 DEF DownInv, Acked
<1> QED
  BY <1>1, <1>3, <1>4, <1>5, QuietKeeps

LEMMA LoseKeeps == ASSUME DownInv, NEW f, Lose(f) PROVE DownInv'
<1>1. packets' \subseteq packets /\ acks' \subseteq acks
      /\ UNCHANGED <<queued, taken, numbered, pending, received, lingering>>
  BY DEF Lose
<1>2. DownTypeOK'
  BY <1>1 DEF DownInv, DownTypeOK, Pending
<1> QED
  BY <1>1, <1>2, QuietKeeps DEF DownInv, Flights, Acked

(* A new packet takes the number of one that lingers, if of any. *)
LEMMA RecordKeeps == ASSUME DownInv, Record PROVE DownInv'
<1> DEFINE p == numbered + 1  s == SeqOf(p)
           old == {pending[u] : u \in {v \in Pending : p - pending[v] >= Late}}
<1>1. /\ numbered < taken /\ numbered' = p /\ pending' = [pending EXCEPT ![s] = p]
      /\ lingering' = lingering \union old
      /\ packets' = Alive(packets, p) /\ acks' = Alive(acks, p)
      /\ UNCHANGED <<queued, taken, received>>
  BY DEF Record, Late
<1>2. p \in Nat \ {0} /\ p = numbered + 1 /\ numbered \in Nat /\ Late \in 1 .. MaxSequence
  BY Typed, DownConstants, Constants DEF DownInv, Late
<1>3. s \in Seqs
  BY <1>2, SeqOfTyped
<1>4. \A v \in Pending : pending[v] \in 1 .. numbered /\ SeqOf(pending[v]) = v
  BY Typed DEF DownInv
<1>5. old \subseteq 1 .. numbered /\ \A v \in Pending : p - pending[v] >= Late => pending[v] \in old
  BY <1>4
<1> HIDE DEF old
\* The payload whose number is taken is a round older.
<1>6. \A v \in Pending : v = s <=> p = pending[v] + MaxSequence
  <2> SUFFICES ASSUME NEW v \in Pending PROVE v = s <=> p = pending[v] + MaxSequence
    OBVIOUS
  <2>1. pending[v] \in Nat \ {0} /\ pending[v] < p /\ p <= pending[v] + MaxSequence
        /\ MaxSequence \in Nat \ {0}
    BY <1>2, <1>4, Constants DEF DownInv, Recent
  <2>2. ASSUME v = s PROVE p = pending[v] + MaxSequence
    <3>1. SeqOf(p) = SeqOf(pending[v])
      BY <1>4, <2>2
    <3> HIDE DEF p
    <3>2. pending[v] <= p /\ p < pending[v] + 2 * MaxSequence
      BY <1>2, <2>1
    <3> QED
      BY <1>2, <2>1, <3>1, <3>2, SameNumber
  <2>3. ASSUME p = pending[v] + MaxSequence PROVE v = s
    <3> DEFINE x == p - 1  y == pending[v] - 1
    <3>1. x \in Int /\ y \in Int /\ x = y + MaxSequence * 1 /\ 1 \in Int /\ MaxSequence \in Nat \ {0}
      BY <1>2, <2>1, <2>3
    <3>2. SeqOf(p) = x % MaxSequence /\ SeqOf(pending[v]) = y % MaxSequence
      BY DEF SeqOf
    <3> HIDE DEF x, y
    <3>3. SeqOf(p) = SeqOf(pending[v])
      BY <3>1, <3>2, Shifted, Zenon
    <3> QED
      BY <1>4, <3>3
  <2> QED
    BY <2>2, <2>3
<1> HIDE DEF p, s
<1>7. /\ pending'[s] = p /\ \A v \in Seqs \ {s} : pending'[v] = pending[v]
      /\ Pending' = Pending \union {s}
  <2>1. pending \in [Seqs -> 0 .. numbered]
    BY Typed DEF DownInv
  <2>2. pending'[s] = p /\ \A v \in Seqs \ {s} : pending'[v] = pending[v]
    BY <1>1, <1>3, <2>1
  <2> QED
    BY <1>2, <1>3, <2>2 DEF Pending
<1>8. DownTypeOK'
  <2>1. numbered' \in 0 .. taken
    BY <1>1, <1>2, Typed DEF DownInv
  <2>2. pending' \in [Seqs -> 0 .. numbered']
    <3>1. pending \in [Seqs -> 0 .. p] /\ p \in 0 .. p
      BY <1>2, Typed DEF DownInv
    <3> QED
      BY <1>1, <1>3, <3>1
  <2>3. received \subseteq 1 .. numbered' /\ lingering' \subseteq 1 .. numbered'
    <3>1. received \subseteq 1 .. numbered /\ lingering \subseteq 1 .. numbered
      BY Typed DEF DownInv
    <3>2. 1 .. numbered \subseteq 1 .. p
      BY <1>2
    <3> QED
      BY <1>1, <1>5, <3>1, <3>2
  <2>4. \A v \in Pending' : SeqOf(pending'[v]) = v
    <3>1. SeqOf(p) = s
      BY DEF s
    <3> QED
      BY <1>4, <1>7, <3>1 DEF Pending
  <2>5. packets' \subseteq packets /\ acks' \subseteq acks
    BY <1>1 DEF Alive
  <2> QED
    BY <1>1, <2>1, <2>2, <2>3, <2>4, <2>5 DEF DownInv, DownTypeOK
<1>9. Recent'
  <2>1. \A v \in Pending : v # s => p < pending[v] + MaxSequence
    BY <1>2, <1>4, <1>6, Constants DEF DownInv, Recent
  <2>2. p < p + MaxSequence
    BY <1>2, Constants
  <2> QED
    BY <1>1, <1>7, <2>1, <2>2 DEF Recent, Pending
<1>10. Lingers'
  <2> SUFFICES ASSUME NEW v \in Pending', p - pending'[v] >= Late PROVE pending'[v] \in lingering'
    BY <1>1 DEF Lingers, Late
  <2>1. v # s
    BY <1>2, <1>7
  <2>2. v \in Pending /\ pending'[v] = pending[v]
    BY <1>7, <2>1 DEF Pending
  <2> QED
    BY <1>1, <1>5, <2>2
<1>11. Flights' /\ Acked'
  <2>1. \A f \in packets' \union acks' :
          f \in packets \union acks /\ p - f.sent <= RoundTrip
    BY <1>1 DEF Alive
  <2>2. \A f \in packets' \union acks' : Flying(f)'
    <3> SUFFICES ASSUME NEW f \in packets' \union acks' PROVE Flying(f)'
      OBVIOUS
    <3>1. Flying(f) /\ f.sent \in Nat /\ p - f.sent <= RoundTrip
      BY <2>1, Typed DEF DownInv, Flights
    <3> QED
      BY <1>1, <1>2, <3>1 DEF Flying, Late
  <2>3. acks' \subseteq acks
    BY <1>1 DEF Alive
  <2> QED
    BY <1>1, <2>2, <2>3 DEF Flights, DownInv, Acked
<1>12. NoneLost'
  <2> SUFFICES ASSUME NEW q \in 1 .. p
               PROVE  \/ q \in received'
                      \/ \E v \in Seqs : pending'[v] = q
                      \/ {q, q - MaxSequence} \intersect lingering' # {}
    BY <1>1 DEF NoneLost
  <2>1. CASE q = p
    BY <1>3, <1>7, <2>1
  <2>2. CASE q # p
    <3>1. q \in 1 .. numbered
      BY <1>2, <2>2
    <3>2. CASE \E v \in Seqs : pending[v] = q
      <4>1. PICK v \in Seqs : pending[v] = q
        BY <3>2
      <4>2. v \in Pending
        BY <3>1, <4>1 DEF Pending
      <4>3. v = s => q \in lingering'
        BY <1>1, <1>2, <1>5, <1>6, <3>1, <4>1, <4>2, Constants DEF Late
      <4> QED
        BY <1>7, <4>1, <4>3
    <3> QED
      BY <1>1, <3>1, <3>2 DEF DownInv, NoneLost
  <2> QED
    BY <2>1, <2>2
<1> QED
  BY <1>8, <1>9, <1>10, <1>11, <1>12 DEF DownInv

(* An ack takes out its own payload, which the client has, or the next of that
   number, when its own has been pending for a round. *)
LEMMA ProcessAckKeeps == ASSUME DownInv, NEW f \in acks, ProcessAck(f) PROVE DownInv'
<1> DEFINE g == f.payload  e == SeqOf(f.payload)
<1>1. /\ pending' = [s \in Seqs |-> IF Acks(AckOf(f), s) THEN 0 ELSE pending[s]]
      /\ UNCHANGED <<queued, taken, numbered, packets, acks, received, lingering>>
  BY DEF ProcessAck, network
<1>2. g \in Nat \ {0} /\ e \in Seqs
  BY Typed, DownConstants, SeqOfTyped DEF DownInv
<1>3. \A s \in Seqs : pending'[s] = pending[s] \/ (s = e /\ pending'[s] = 0)
  BY <1>1, <1>2, AckNames DEF AckOf
<1>4. Pending' \subseteq Pending /\ \A s \in Pending' : pending'[s] = pending[s]
  BY <1>3 DEF Pending
<1>5. DownTypeOK'
  <2>1. pending' \in [Seqs -> 0 .. numbered]
    BY <1>1, Typed DEF DownInv
  <2> QED
    BY <1>1, <1>4, <2>1 DEF DownInv, DownTypeOK
<1>6. Recent' /\ Lingers'
  BY <1>1, <1>4 DEF DownInv, Recent, Lingers, Late
<1>7. Flights' /\ Acked'
  BY <1>1 DEF DownInv, Flights, Flying, Late, Acked
<1>8. NoneLost'
  <2> SUFFICES ASSUME NEW q \in 1 .. numbered
               PROVE  \/ q \in received
                      \/ \E v \in Seqs : pending'[v] = q
                      \/ {q, q - MaxSequence} \intersect lingering # {}
    BY <1>1 DEF NoneLost
  <2>1. CASE \E v \in Seqs : pending[v] = q
    <3>1. PICK v \in Seqs : pending[v] = q
      BY <2>1
    <3>2. CASE v # e
      BY <1>3, <3>1, <3>2
    <3>3. CASE v = e
      <4>1. v \in Pending
        BY <3>1 DEF Pending
      <4>2. SeqOf(q) = SeqOf(g)
        BY <3>1, <3>3, <4>1, Typed DEF DownInv
      <4>3. /\ g <= f.sent /\ f.sent <= numbered /\ numbered - f.sent <= RoundTrip
            /\ f.sent < g + MaxSequence /\ (f.sent - g >= Late => g \in lingering)
            /\ g \in received /\ f.sent \in Nat
        BY Typed DEF DownInv, Flights, Flying, Acked
      <4>4. numbered < q + MaxSequence /\ q \in Nat \ {0} /\ q <= numbered /\ numbered \in Nat
        BY <3>1, <4>1, Typed DEF DownInv, Recent
      <4> HIDE DEF g, e
      <4>5. CASE q <= g
        <5>1. g < q + MaxSequence
          BY <1>2, <4>3, <4>4, Constants
        <5> QED
          BY <1>2, <4>2, <4>3, <4>4, <4>5, <5>1, SameNumber
      <4>6. CASE g <= q
        <5>1. q < g + 2 * MaxSequence
          BY <1>2, <4>3, <4>4, DownConstants, Constants
        <5>2. q = g \/ q = g + MaxSequence
          BY <1>2, <4>2, <4>4, <4>6, <5>1, SameNumber
        <5>3. q = g + MaxSequence => f.sent - g >= Late /\ q - MaxSequence = g
          BY <1>2, <4>3, <4>4, DownConstants, Constants DEF Late
        <5> QED
          BY <4>3, <5>2, <5>3
      <4> QED
        BY <1>2, <4>4, <4>5, <4>6
    <3> QED
      BY <3>2, <3>3
  <2> QED
    BY <2>1 DEF DownInv, NoneLost
<1> QED
  BY <1>5, <1>6, <1>7, <1>8 DEF DownInv

LEMMA DownKept == DownInv /\ [Next]_vars => DownInv'
<1> SUFFICES ASSUME DownInv, [Next]_vars PROVE DownInv'
  OBVIOUS
<1>1. CASE UNCHANGED vars
  BY <1>1 DEF vars, network, DownInv, DownTypeOK, Pending, Recent, Lingers, Flights, Flying, Acked, NoneLost
<1>2. CASE Server
  BY <1>2, EnqueueKeeps, FillKeeps, RecordKeeps, TransmitKeeps DEF Server
<1>3. ASSUME NEW f \in packets, Receive(f) PROVE DownInv'
  BY <1>3, ReceiveKeeps
<1>4. ASSUME NEW f \in acks, ProcessAck(f) PROVE DownInv'
  BY <1>4, ProcessAckKeeps
<1>5. ASSUME NEW f, Lose(f) PROVE DownInv'
  BY <1>5, LoseKeeps
<1> QED
  BY <1>1, <1>2, <1>3, <1>4, <1>5 DEF Next

(* The invariant holds: a payload is pending for less than a round of the numbers,
   and is said to linger when that round is almost over. *)
THEOREM DownInvariant == Spec => []DownInv
<1> QED
  BY DownInit, DownKept, PTL DEF Spec

(* DownTypeOK holds: record_pending_reliable enters a payload under its own number,
   and no more is numbered than was taken, nor taken than was queued. *)
THEOREM DownTypes == Spec => []DownTypeOK
<1>1. DownInv => DownTypeOK
  BY DEF DownInv
<1> QED
  BY <1>1, DownInvariant, PTL

(* NoneLost holds: process_ack takes out no payload that the client does not have,
   however late, often or out of order the acks come, unless the payload, or the
   one that had its number before, was pending when that number was almost due again. *)
THEOREM NothingIsLost == Spec => []NoneLost
<1>1. DownInv => NoneLost
  BY DEF DownInv
<1> QED
  BY <1>1, DownInvariant, PTL

-----------------------------------------------------------------------------
(* The window *)

\* What was taken out of the queue is counted in before it is pending.
InFlight   == Cardinality(Pending) + (taken - numbered)
WindowKept == InFlight <= WindowSize

LEMMA WindowStep == ASSUME DownTypeOK, WindowKept, [Next]_vars PROVE WindowKept'
<1>1. /\ taken \in Nat /\ numbered \in Nat /\ queued \in Nat /\ numbered <= taken /\ taken <= queued
      /\ pending \in [Seqs -> 0 .. numbered]
  BY Typed
<1>2. IsFiniteSet(Pending) /\ Cardinality(Pending) \in Nat
  BY PendingFinite
<1>3. ASSUME Pending' \subseteq Pending, taken' = taken, numbered' = numbered PROVE WindowKept'
  <2>1. Cardinality(Pending') \in Nat /\ Cardinality(Pending') <= Cardinality(Pending)
    BY <1>2, <1>3, FS_Subset, FS_CardinalityType
  <2> QED
    BY <1>1, <1>2, <1>3, <2>1, Constants DEF WindowKept, InFlight
<1>4. CASE Record
  <2> DEFINE s == SeqOf(numbered + 1)
  <2>1. numbered < taken /\ numbered' = numbered + 1 /\ taken' = taken
        /\ pending' = [pending EXCEPT ![s] = numbered + 1]
    BY <1>4 DEF Record
  <2> HIDE DEF s
  <2>2. Pending' \subseteq Pending \union {s}
    BY <1>1, <2>1 DEF Pending
  <2>3. /\ IsFiniteSet(Pending \union {s}) /\ Cardinality(Pending \union {s}) \in Nat
        /\ Cardinality(Pending \union {s}) <= Cardinality(Pending) + 1
    BY <1>2, FS_AddElement, FS_CardinalityType
  <2>4. Cardinality(Pending') \in Nat /\ Cardinality(Pending') <= Cardinality(Pending \union {s})
    BY <2>2, <2>3, FS_Subset, FS_CardinalityType
  <2> QED
    BY <1>1, <1>2, <2>1, <2>3, <2>4, Constants DEF WindowKept, InFlight
<1>5. CASE Fill
  <2>1. taken = numbered /\ taken' = taken + Least(Capacity, queued - taken) /\ numbered' = numbered
        /\ Pending' = Pending /\ Capacity > 0
    BY <1>5 DEF Fill, Pending
  <2>2. Capacity = WindowSize - Cardinality(Pending) /\ Capacity \in Nat
    BY <1>2, <2>1, Constants DEF Capacity
  <2>3. Least(Capacity, queued - taken) \in Int /\ Least(Capacity, queued - taken) <= Capacity
    BY <1>1, <2>2 DEF Least
  <2> QED
    BY <1>1, <1>2, <2>1, <2>2, <2>3, Constants DEF WindowKept, InFlight
<1>6. CASE Enqueue \/ (\E s \in Seqs : Transmit(s)) \/ (\E f \in packets : Receive(f))
           \/ (\E f \in packets \union acks : Lose(f)) \/ UNCHANGED vars
  <2>1. Pending' = Pending /\ taken' = taken /\ numbered' = numbered
    BY <1>6 DEF Enqueue, Transmit, Receive, Lose, vars, Pending
  <2> QED
    BY <1>3, <2>1
<1>7. ASSUME NEW f \in acks, ProcessAck(f) PROVE WindowKept'
  <2>1. Pending' \subseteq Pending /\ taken' = taken /\ numbered' = numbered
    BY <1>1, <1>7 DEF ProcessAck, Pending
  <2> QED
    BY <1>3, <2>1
<1> QED
  BY <1>4, <1>5, <1>6, <1>7 DEF Next, Server

(* No more packets are pending than an ack can name: though acks are processed
   between the moment the loop sees how much room there is and the moment it
   enters what it took out, the window of reliable_resend_loop is never exceeded. *)
THEOREM WindowHolds == Spec => [](Cardinality(Pending) <= WindowSize)
<1>1. Init => WindowKept
  <2> SUFFICES ASSUME Init PROVE WindowKept
    OBVIOUS
  <2>1. Pending = {} /\ taken = 0 /\ numbered = 0
    BY DEF Init, Pending
  <2>2. Cardinality(Pending) = 0
    BY <2>1, FS_EmptySet
  <2> QED
    BY <2>1, <2>2, Constants DEF WindowKept, InFlight
<1>2. DownTypeOK /\ WindowKept => Cardinality(Pending) <= WindowSize
  BY PendingFinite, Constants, Typed DEF WindowKept, InFlight
<1> QED
  BY <1>1, <1>2, WindowStep, DownTypes, PTL DEF Spec

-----------------------------------------------------------------------------
(* The channel *)

LEMMA ChannelStarts == Init => Channel!Init
<1> SUFFICES ASSUME Init PROVE Channel!Init
  OBVIOUS
<1>1. queued = 0 /\ received = {} /\ lingering = {} /\ 1 .. queued = {}
  BY DEF Init
<1>2. Owed = {} /\ Excused = {}
  BY <1>1 DEF Owed, Excused
<1> QED
  BY <1>1, <1>2, Zenon DEF Channel!Init

\* What leaves the tables has been delivered, or is excused, by then.
LEMMA LettingGo ==
  ASSUME DownInv', queued' = queued, received' = received, lingering \subseteq lingering', Owed' \subseteq Owed
  PROVE  Channel!Settle
<1>1. Excused \subseteq Excused'
  BY DEF Excused
<1>2. Owed \ Owed' \subseteq received \union Excused'
  <2> SUFFICES ASSUME NEW q \in Owed, q \notin Owed' PROVE q \in received \union Excused'
    OBVIOUS
  <2>1. q \in 1 .. queued /\ queued \in Nat /\ numbered' \in Nat
    BY DEF Owed, DownInv, DownTypeOK
  <2>2. q <= numbered' /\ \A s \in Seqs : pending'[s] # q
    BY <2>1 DEF Owed
  <2>3. q \in 1 .. numbered' /\ q \in Payload
    BY <2>1, <2>2, DownConstants DEF Payload, DownInv, DownTypeOK
  <2>4. q \in received' \/ {q, q - MaxSequence} \intersect lingering' # {}
    BY <2>2, <2>3 DEF DownInv, NoneLost
  <2> QED
    BY <2>3, <2>4 DEF Excused
<1>3. 1 .. queued' = 1 .. queued
  OBVIOUS
<1> QED
  BY <1>1, <1>2, <1>3, Zenon DEF Channel!Settle

LEMMA ChannelStep == ASSUME DownInv, DownInv', [Next]_vars
  PROVE  [Channel!Next]_<<1 .. queued, Owed, received, Excused>>
<1>0. /\ queued \in Nat /\ taken \in Nat /\ numbered \in Nat /\ numbered <= taken /\ taken <= queued
      /\ pending \in [Seqs -> 0 .. numbered]
  BY Typed DEF DownInv
<1>1. CASE UNCHANGED vars
  <2>1. queued' = queued /\ received' = received /\ numbered' = numbered /\ pending' = pending
        /\ lingering' = lingering
    BY <1>1 DEF vars
  <2>2. Owed' = Owed /\ Excused' = Excused /\ 1 .. queued' = 1 .. queued
    BY <2>1 DEF Owed, Excused
  <2> QED
    BY <2>1, <2>2
<1>2. CASE Enqueue
  <2> DEFINE p == queued + 1
  <2>1. queued' = p /\ queued < MaxPayloads /\ UNCHANGED <<numbered, pending, received, lingering>>
    BY <1>2 DEF Enqueue
  <2>2. p \in Payload /\ p \notin 1 .. queued /\ 1 .. queued' = (1 .. queued) \union {p}
    BY <1>0, <2>1, DownConstants DEF Payload
  <2>3. Owed' = Owed \union {p}
    <3>1. p > numbered
      BY <1>0
    <3> QED
      BY <2>1, <2>2, <3>1 DEF Owed
  <2>4. Excused' = Excused
    BY <2>1 DEF Excused
  <2> HIDE DEF p
  <2>5. Channel!Accept(p)
    BY <2>1, <2>2, <2>3, <2>4, Zenon DEF Channel!Accept
  <2> QED
    BY <2>2, <2>5, Zenon DEF Channel!Next
<1>3. ASSUME NEW f \in packets, Receive(f) PROVE Channel!Next
  <2>1. received' = received \union {f.payload} /\ UNCHANGED <<queued, numbered, pending, lingering>>
    BY <1>3 DEF Receive
  <2>2. f.payload \in Payload /\ f.payload \in 1 .. queued
    <3>1. received' \subseteq 1 .. numbered'
      BY DEF DownInv, DownTypeOK
    <3> QED
      BY <1>0, <2>1, <3>1, Typed DEF DownInv
  <2>3. Owed' = Owed /\ Excused' = Excused /\ 1 .. queued' = 1 .. queued
    BY <2>1 DEF Owed, Excused
  <2>4. Channel!Deliver(f.payload)
    BY <2>1, <2>2, <2>3, Zenon DEF Channel!Deliver
  <2> QED
    BY <2>2, <2>4, Zenon DEF Channel!Next
<1>4. ASSUME UNCHANGED <<queued, received>>, lingering \subseteq lingering', Owed' \subseteq Owed
      PROVE  Channel!Next
  BY <1>4, LettingGo, Zenon DEF Channel!Next
<1>5. CASE Record
  <2> DEFINE p == numbered + 1
  <2>1. /\ numbered' = p /\ p \in 1 .. queued /\ pending' = [pending EXCEPT ![SeqOf(p)] = p]
        /\ UNCHANGED <<queued, received>> /\ lingering \subseteq lingering'
    BY <1>0, <1>5 DEF Record
  <2>2. Owed' \subseteq Owed
    <3> SUFFICES ASSUME NEW q \in 1 .. queued, q > p \/ \E s \in Seqs : pending'[s] = q
                 PROVE  q > numbered \/ \E s \in Seqs : pending[s] = q
      BY <2>1 DEF Owed
    <3>1. CASE q > p
      BY <1>0, <3>1
    <3>2. ASSUME NEW s \in Seqs, pending'[s] = q PROVE q > numbered \/ \E v \in Seqs : pending[v] = q
      <4>1. pending'[s] = p \/ pending'[s] = pending[s]
        BY <1>0, <2>1
      <4> QED
        BY <1>0, <3>2, <4>1
    <3> QED
      BY <3>1, <3>2
  <2> QED
    BY <1>4, <2>1, <2>2
<1>6. ASSUME NEW f \in acks, ProcessAck(f) PROVE Channel!Next
  <2>1. UNCHANGED <<queued, numbered, received, lingering>>
        /\ \A s \in Seqs : pending'[s] \in {0, pending[s]}
    BY <1>6 DEF ProcessAck
  <2>2. Owed' \subseteq Owed
    BY <1>0, <2>1 DEF Owed
  <2> QED
    BY <1>4, <2>1, <2>2
<1>7. CASE Fill \/ (\E s \in Seqs : Transmit(s)) \/ (\E f \in packets \union acks : Lose(f))
  <2>1. UNCHANGED <<queued, numbered, pending, received, lingering>>
    BY <1>7 DEF Fill, Transmit, Lose
  <2>2. Owed' \subseteq Owed
    BY <2>1 DEF Owed
  <2> QED
    BY <1>4, <2>1, <2>2
<1> QED
  BY <1>1, <1>2, <1>3, <1>5, <1>6, <1>7 DEF Next, Server

(* DeliversDown holds: the server, its window, the network and the client implement a
   channel that delivers at least once. A payload leaves the queue only for
   pending_reliable, and that, by an ack or by the next packet of its number, only
   when the client has it or its number tells it no longer from another one. *)
THEOREM DeliversFromServer == Spec => DeliversDown
<1>1. Init => Channel!Init
  BY ChannelStarts
<1>2. DownInv /\ DownInv' /\ [Next]_vars => [Channel!Next]_<<1 .. queued, Owed, received, Excused>>
  BY ChannelStep
<1> QED
  BY <1>1, <1>2, DownInvariant, PTL DEF Spec, DeliversDown, Channel!Spec
=============================================================================

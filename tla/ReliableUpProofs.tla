-------------------------- MODULE ReliableUpProofs --------------------------
(* Theorems about ReliableUp, for every value of its constants: an ack names only *)
(* what came, whatever queue_ack did with its window, and nothing is forgotten,  *)
(* so that client and server implement AtLeastOnce.                             *)
EXTENDS ReliableUp, FiniteSetTheorems, TLAPS

-----------------------------------------------------------------------------
(* Arithmetic of sequence numbers *)

LEMMA Distribute == ASSUME NEW b \in Int, NEW x \in Int, NEW y \in Int
  PROVE  b * (x + y) = b * x + b * y /\ b * (x - y) = b * x - b * y
OBVIOUS

(* A multiple of b that is smaller than b is none at all. *)
LEMMA NoMultiple == ASSUME NEW b \in Nat \ {0}, NEW k \in Int, b * k < b, -b < b * k PROVE k = 0
<1>1. CASE k >= 1
  <2>1. b * k >= b
    BY <1>1
  <2> QED
    BY <2>1
<1>2. CASE k <= -1
  <2>1. b * k <= -b
    BY <1>2
  <2> QED
    BY <2>1
<1> QED
  BY <1>1, <1>2

LEMMA Remainder == ASSUME NEW a \in Int, NEW b \in Nat \ {0}
  PROVE  \E q \in Int, r \in 0 .. (b - 1) : a % b = r /\ a = b * q + r
<1>1. a \div b \in Int /\ a % b \in 0 .. (b - 1) /\ a = b * (a \div b) + (a % b)
  OBVIOUS
<1>2. a = b * (a \div b) + (a % b)
  BY <1>1, Zenon
<1> WITNESS a \div b \in Int, a % b \in 0 .. (b - 1)
<1> QED
  BY <1>2

(* Division with remainder has one result. *)
LEMMA OneRemainder == ASSUME NEW b \in Nat \ {0}, NEW q \in Int, NEW r \in 0 .. (b - 1),
                             NEW d \in Int, NEW m \in 0 .. (b - 1), b * q + r = b * d + m
  PROVE  q = d /\ r = m
<1>1. b * (d - q) = b * d - b * q /\ b * d \in Int /\ b * q \in Int
  BY Distribute
<1>2. b * (d - q) = r - m
  BY <1>1
<1>3. r - m < b /\ -b < r - m
  OBVIOUS
<1>4. d - q = 0
  BY <1>2, <1>3, NoMultiple
<1> QED
  BY <1>2, <1>4

LEMMA RemainderIs == ASSUME NEW a \in Int, NEW b \in Nat \ {0}, NEW q \in Int, NEW r \in 0 .. (b - 1),
                            a = b * q + r
  PROVE  a % b = r
<1>1. PICK d \in Int, m \in 0 .. (b - 1) : a % b = m /\ a = b * d + m
  BY Remainder
<1>2. b * q + r = b * d + m
  BY <1>1, Zenon
<1>3. r = m
  BY <1>2, OneRemainder
<1> QED
  BY <1>1, <1>3, Zenon

(* Two numbers leave the same remainder when they are multiples of b apart. *)
LEMMA Shifted == ASSUME NEW b \in Nat \ {0}, NEW t \in Int, NEW k \in Int, NEW s \in Int, s = t + b * k
  PROVE  s % b = t % b
<1>1. PICK q \in Int, r \in 0 .. (b - 1) : t % b = r /\ t = b * q + r
  BY Remainder
<1>2. t = b * q + r
  BY <1>1, Zenon
<1>3. b * (q + k) = b * q + b * k /\ b * q \in Int /\ b * k \in Int
  BY Distribute
<1>4. s = b * (q + k) + r /\ q + k \in Int
  <2> DEFINE u == b * q  v == b * k  w == b * (q + k)
  <2>1. t = u + r /\ w = u + v /\ s = t + v /\ u \in Int /\ v \in Int
    BY <1>2, <1>3, Zenon
  <2> HIDE DEF u, v, w
  <2>2. s = w + r
    BY <2>1
  <2>3. s = b * (q + k) + r
    BY <2>2, Zenon DEF w
  <2>4. q + k \in Int
    OBVIOUS
  <2> QED
    BY <2>3, <2>4, Zenon
<1>5. s % b = r
  <2>1. \A m \in Int : s = b * m + r => s % b = r
    <3> TAKE m \in Int
    <3> HAVE s = b * m + r
    <3> QED
      BY RemainderIs
  <2> QED
    BY <1>4, <2>1, Zenon
<1> QED
  BY <1>1, <1>5, Zenon

LEMMA Congruent == ASSUME NEW s \in Int, NEW t \in Int, NEW b \in Nat \ {0}, s % b = t % b
  PROVE  \E k \in Int : s = t + b * k
<1>1. PICK q \in Int, r \in 0 .. (b - 1) : t % b = r /\ t = b * q + r
  BY Remainder
<1>2. PICK p \in Int, m \in 0 .. (b - 1) : s % b = m /\ s = b * p + m
  BY Remainder
<1>3. m = r
  BY <1>1, <1>2, Zenon
<1>4. s = b * p + r /\ t = b * q + r
  BY <1>1, <1>2, <1>3, Zenon
<1>5. b * (p - q) = b * p - b * q /\ b * p \in Int /\ b * q \in Int
  BY Distribute
<1>6. s = t + b * (p - q) /\ p - q \in Int
  <2> DEFINE u == b * q  v == b * p  w == b * (p - q)
  <2>1. t = u + r /\ w = v - u /\ s = v + r /\ u \in Int /\ v \in Int
    BY <1>4, <1>5, Zenon
  <2> HIDE DEF u, v, w
  <2>2. s = t + w
    BY <2>1
  <2>3. s = t + b * (p - q)
    BY <2>2, Zenon DEF w
  <2>4. p - q \in Int
    OBVIOUS
  <2> QED
    BY <2>3, <2>4, Zenon
<1> QED
  BY <1>6, Zenon

(* Numbers that are less than b apart are told apart by their remainders. *)
LEMMA Apart == ASSUME NEW s \in Int, NEW t \in Int, NEW b \in Nat \ {0},
                      s % b = t % b, s - t < b, t - s < b
  PROVE  s = t
<1>1. PICK k \in Int : s = t + b * k
  BY Congruent
<1>2. b * k \in Int
  OBVIOUS
<1>3. b * k < b /\ -b < b * k
  BY <1>1, <1>2
<1>4. k = 0
  BY <1>3, NoMultiple
<1> QED
  BY <1>1, <1>4

LEMMA Constants ==
  /\ MaxSequence \in Nat \ {0} /\ WindowSize \in Nat \ {0}
  /\ Half \in Nat /\ 2 * Half = MaxSequence /\ WindowSize <= Half
<1>1. MaxSequence \in Nat \ {0} /\ WindowSize \in Nat \ {0} /\ 2 * WindowSize <= MaxSequence
  BY SequenceAssumption
<1>2. 2 * Half = MaxSequence /\ Half \in Nat
  BY <1>1, SequenceAssumption DEF Half
<1> QED
  BY <1>1, <1>2

(* A round of sequence numbers is a whole number of windows, so that bits are
   not changed by the wrap. *)
LEMMA RoundOfWindows == ASSUME NEW s \in Int
  PROVE  /\ (s + MaxSequence) % WindowSize = s % WindowSize
         /\ (s - MaxSequence) % WindowSize = s % WindowSize
         /\ (s % MaxSequence) % WindowSize = s % WindowSize
<1> DEFINE W == WindowSize  M == MaxSequence
<1>c. M \in Int /\ M \in Nat \ {0} /\ W \in Nat \ {0} /\ W \in Int
  BY Constants
<1>0. M % W = 0
  BY SequenceAssumption
<1> HIDE DEF W, M
<1>1. PICK k \in Int, r \in 0 .. (W - 1) : M % W = r /\ M = W * k + r
  BY <1>c, Remainder, Zenon
<1>2. M = W * k
  <2>1. r = 0 /\ M = W * k + r
    BY <1>0, <1>1, Zenon
  <2> QED
    BY <1>c, <2>1
<1>3. s - M \in Int /\ s + M \in Int /\ s = (s - M) + M
  BY <1>c
<1>4. ASSUME NEW t \in Int PROVE (t + M) % W = t % W
  <2>1. t + M \in Int
    BY <1>c
  <2>2. t + M = t + W * k
    BY <1>2, Zenon
  <2> QED
    BY <1>c, <2>1, <2>2, Shifted
<1>5. (s % M) % W = s % W
  <2>1. PICK q \in Int, m \in 0 .. (M - 1) : s % M = m /\ s = M * q + m
    BY <1>c, Remainder, Zenon
  <2>2. s = (W * k) * q + m
    BY <1>2, <2>1, Zenon
  <2>3. (W * k) * q = W * (k * q) /\ k * q \in Int /\ m \in Int /\ W * (k * q) \in Int
    BY <1>c
  <2>4. s = m + W * (k * q)
    <3> DEFINE x == W * (k * q)
    <3>1. s = x + m /\ x \in Int
      BY <2>2, <2>3, Zenon
    <3> HIDE DEF x
    <3>2. s = m + x
      BY <2>3, <3>1
    <3> QED
      BY <3>2 DEF x
  <2>5. s % W = m % W
    <3>1. s \in Int /\ m \in Int
      BY <2>3
    <3> QED
      BY <1>c, <2>3, <2>4, <3>1, Shifted, Zenon
  <2> QED
    BY <2>1, <2>5, Zenon
<1>6. (s + M) % W = s % W /\ (s - M) % W = s % W
  BY <1>3, <1>4, Zenon
<1> QED
  BY <1>5, <1>6, Zenon DEF W, M

-----------------------------------------------------------------------------
(* Windows and acks *)

(* What relative_sequence says: at most half a round, on the shorter way. *)
LEMMA Relative == ASSUME NEW s \in Seqs, NEW e \in Seqs
  PROVE  /\ relative_sequence(s, e) \in (-Half) .. Half
         /\ relative_sequence(s, e) \in {s - e, s - e + MaxSequence, s - e - MaxSequence}
BY Constants DEF relative_sequence, Seqs

(* A sequence is in a window when it is less than a window ahead of its start,
   perhaps across the wrap. *)
LEMMA WindowIs == ASSUME NEW s \in Seqs, NEW e \in Seqs
  PROVE  InWindow(s, e) <=> \E i \in 0 .. (WindowSize - 1) : s = e + i \/ s = (e + i) - MaxSequence
<1>1. InWindow(s, e) => s - e \in 0 .. (WindowSize - 1) \/ s - e + MaxSequence \in 0 .. (WindowSize - 1)
  BY Constants DEF relative_sequence, Seqs, InWindow
<1>2. ASSUME NEW i \in 0 .. (WindowSize - 1), s = e + i \/ s = (e + i) - MaxSequence
      PROVE  InWindow(s, e)
  BY <1>2, Constants DEF relative_sequence, Seqs, InWindow
<1> QED
  BY <1>1, <1>2, Constants DEF Seqs

(* A bit of an ack names one sequence of its window. *)
LEMMA BitNamesOne == ASSUME NEW s \in Seqs, NEW t \in Seqs, NEW e \in Seqs,
                            InWindow(s, e), InWindow(t, e), s % WindowSize = t % WindowSize
  PROVE  s = t
<1>1. PICK i \in 0 .. (WindowSize - 1) : s = e + i \/ s = (e + i) - MaxSequence
  BY WindowIs
<1>2. PICK j \in 0 .. (WindowSize - 1) : t = e + j \/ t = (e + j) - MaxSequence
  BY WindowIs
<1>3. /\ e + i \in Int /\ e + j \in Int /\ (e + i) - (e + j) < WindowSize /\ (e + j) - (e + i) < WindowSize
  BY Constants DEF Seqs
<1>4. s % WindowSize = (e + i) % WindowSize
  <2>1. ((e + i) - MaxSequence) % WindowSize = (e + i) % WindowSize
    BY <1>3, RoundOfWindows, Zenon
  <2> QED
    BY <1>1, <2>1, Zenon
<1>5. t % WindowSize = (e + j) % WindowSize
  <2>1. ((e + j) - MaxSequence) % WindowSize = (e + j) % WindowSize
    BY <1>3, RoundOfWindows, Zenon
  <2> QED
    BY <1>2, <2>1, Zenon
<1>6. (e + i) % WindowSize = (e + j) % WindowSize
  BY <1>4, <1>5, Zenon
<1>7. e + i = e + j
  BY <1>3, <1>6, Apart, Constants
<1> QED
  BY <1>1, <1>2, <1>7, Constants DEF Seqs

(* Adding less than a round wraps at most once. *)
LEMMA WrapOnce == ASSUME NEW a \in 0 .. (2 * MaxSequence - 1)
  PROVE  /\ a % MaxSequence = IF a < MaxSequence THEN a ELSE a - MaxSequence
         /\ a % MaxSequence \in Seqs
<1> DEFINE M == MaxSequence
<1>0. M \in Nat \ {0} /\ M \in Int
  BY Constants
<1> HIDE DEF M
<1>1. a \in Int /\ a \in 0 .. (2 * M - 1) /\ 0 \in Int /\ 1 \in Int
  BY DEF M
<1>2. CASE a < M
  <2>1. a \in 0 .. (M - 1) /\ a = M * 0 + a
    BY <1>0, <1>1, <1>2
  <2>2. a % M = a
    BY <1>0, <1>1, <2>1, RemainderIs, Zenon
  <2> QED
    BY <1>2, <2>1, <2>2, Zenon DEF M, Seqs
<1>3. CASE ~(a < M)
  <2>1. a - M \in 0 .. (M - 1) /\ a = M * 1 + (a - M)
    BY <1>0, <1>1, <1>3
  <2>2. a % M = a - M
    BY <1>0, <1>1, <2>1, RemainderIs, Zenon
  <2> QED
    BY <1>3, <2>1, <2>2, Zenon DEF M, Seqs
<1> QED
  BY <1>2, <1>3, Zenon

(* queue_ack keeps the window in shape *)
LEMMA SlideTyped == ASSUME NEW ack \in Ack, NEW s \in Seqs PROVE Slide(ack, s) \in Ack
<1> DEFINE rel == relative_sequence(s, ack.start)
           shift == IF rel >= WindowSize THEN rel - WindowSize + 1 ELSE 0
           gone == {BitOf(ack.start + i) : i \in 0 .. (shift - 1)}
<1>1. ack.start \in Seqs /\ ack.bits \subseteq 0 .. (WindowSize - 1)
  BY DEF Ack
<1>2. s % WindowSize \in 0 .. (WindowSize - 1)
  <2>1. s \in Int
    BY DEF Seqs
  <2>2. PICK q \in Int, r \in 0 .. (WindowSize - 1) : s % WindowSize = r /\ s = WindowSize * q + r
    BY <2>1, Remainder, Constants, Zenon
  <2> QED
    BY <2>2, Zenon
<1>3. rel \in (-Half) .. Half
  BY <1>1, Relative
<1>4. rel >= 0 => (ack.start + shift) % MaxSequence \in Seqs
  <2>1. rel >= 0 => ack.start + shift \in 0 .. (2 * MaxSequence - 1)
    <3> HIDE DEF rel
    <3> QED
      BY <1>1, <1>3, Constants DEF Seqs
  <2> QED
    BY <2>1, WrapOnce
<1>5. CASE rel < 0
  BY <1>5 DEF Slide
<1>6. CASE ~(rel < 0)
  <2>1. rel >= 0
    <3> HIDE DEF rel
    <3> QED
      BY <1>3, <1>6, Constants
  <2>2. Slide(ack, s) = [start |-> (ack.start + shift) % MaxSequence,
                         bits |-> (ack.bits \ gone) \union {BitOf(s)}]
    BY <1>6 DEF Slide
  <2> HIDE DEF gone, shift, rel
  <2> QED
    BY <1>1, <1>2, <1>4, <2>1, <2>2 DEF Ack, BitOf
<1> QED
  BY <1>5, <1>6, Zenon

(* Moving the window keeps the meaning of the bits that stay: it names the
   sequence it moved for, and of the others only those it named before. *)
LEMMA SlideNames == ASSUME NEW ack \in Ack, NEW s \in Seqs, NEW t \in Seqs, Acks(Slide(ack, s), t)
  PROVE  t = s \/ Acks(ack, t)
<1> DEFINE e == ack.start
           rel == relative_sequence(s, e)
           shift == IF rel >= WindowSize THEN rel - WindowSize + 1 ELSE 0
           gone == {BitOf(e + i) : i \in 0 .. (shift - 1)}
           f == (e + shift) % MaxSequence
<1>1. e \in Seqs /\ ack.bits \subseteq 0 .. (WindowSize - 1)
  BY DEF Ack
<1>2. rel \in (-Half) .. Half /\ (rel = s - e \/ rel = s - e + MaxSequence \/ rel = s - e - MaxSequence)
  BY <1>1, Relative
<1>3. CASE rel < 0
  BY <1>3 DEF Slide
<1>4. CASE ~(rel < 0)
  <2>1. Slide(ack, s) = [start |-> f, bits |-> (ack.bits \ gone) \union {BitOf(s)}]
    BY <1>4 DEF Slide
  <2>2. InWindow(t, f) /\ (t % WindowSize = s % WindowSize \/ (t % WindowSize \in ack.bits /\ t % WindowSize \notin gone))
    <3> HIDE DEF f, gone
    <3> QED
      BY <2>1 DEF Acks, BitOf
  <2>3. rel \in 0 .. Half
    <3> HIDE DEF rel
    <3> QED
      BY <1>2, <1>4, Constants
  <2>4. f \in Seqs /\ (f = e + shift \/ f = e + shift - MaxSequence)
    <3>1. e + shift \in 0 .. (2 * MaxSequence - 1)
      <4> HIDE DEF rel, e
      <4> QED
        BY <1>1, <2>3, Constants DEF Seqs
    <3>2. (e + shift) % MaxSequence \in Seqs
      BY <3>1, WrapOnce, Zenon
    <3>3. f = IF e + shift < MaxSequence THEN e + shift ELSE (e + shift) - MaxSequence
      BY <3>1, WrapOnce, Zenon
    <3>4. e \in Int /\ shift \in Int
      <4> HIDE DEF rel, e
      <4> QED
        BY <1>1, <2>3, Constants DEF Seqs
    <3> HIDE DEF e, shift
    <3>5. f \in Seqs
      BY <3>2, Zenon
    <3> HIDE DEF f
    <3> QED
      BY <3>3, <3>4, <3>5, Constants
  <2>5. shift \in 0 .. Half /\ rel - shift \in 0 .. (WindowSize - 1) /\ shift <= rel
    <3> HIDE DEF rel
    <3> QED
      BY <2>3, Constants
  <2> HIDE DEF rel, shift, f, e
  <2>6. InWindow(s, f)
    <3>1. s = f + (rel - shift) \/ s = (f + (rel - shift)) - MaxSequence
      BY <1>1, <1>2, <2>3, <2>4, <2>5, Constants DEF Seqs
    <3> QED
      BY <2>4, <2>5, <3>1, WindowIs
  <2>7. PICK j \in 0 .. (WindowSize - 1) : t = f + j \/ t = (f + j) - MaxSequence
    BY <2>2, <2>4, WindowIs
  <2>8. e + (shift + j) \in Int /\ (t = e + (shift + j) \/ t = (e + (shift + j)) - MaxSequence)
    BY <1>1, <2>4, <2>5, <2>7, Constants DEF Seqs
  <2>9. CASE t % WindowSize = s % WindowSize
    BY <2>2, <2>4, <2>6, <2>9, BitNamesOne
  <2>10. CASE t % WindowSize \in ack.bits /\ t % WindowSize \notin gone
    <3>1. CASE shift + j < WindowSize
      <4>1. shift + j \in 0 .. (WindowSize - 1)
        BY <2>5, <3>1, Constants
      <4>2. InWindow(t, e)
        BY <1>1, <2>8, <4>1, WindowIs
      <4> QED
        BY <2>10, <4>2 DEF Acks, e
    <3>2. CASE ~(shift + j < WindowSize)
      <4> DEFINE i == shift + j - WindowSize
      <4>1. i \in 0 .. (shift - 1) /\ e + i \in Int /\ e + (shift + j) = (e + i) + WindowSize * 1
        BY <1>1, <2>5, <3>2, Constants DEF Seqs
      <4> HIDE DEF i
      <4>2. (e + (shift + j)) % WindowSize = (e + i) % WindowSize
        <5>1. WindowSize \in Nat \ {0} /\ 1 \in Int
          BY Constants
        <5> QED
          BY <2>8, <4>1, <5>1, Shifted, Zenon
      <4>3. t % WindowSize = (e + (shift + j)) % WindowSize
        BY <2>8, RoundOfWindows, Zenon
      <4>4. t % WindowSize \in gone
        BY <4>1, <4>2, <4>3, Zenon DEF BitOf
      <4> QED
        BY <2>10, <4>4
    <3> QED
      BY <3>1, <3>2
  <2> QED
    BY <2>2, <2>9, <2>10
<1> QED
  BY <1>3, <1>4, Zenon

-----------------------------------------------------------------------------
(* The invariant *)

Late == MaxSequence - RoundTrip

OneWindow == window = {} \/ \E w \in Window : window = {w}

UpTyped ==
  /\ numbered \in Counts /\ sent \subseteq Payload /\ \A p \in sent : p <= numbered
  /\ unsaved \subseteq sent /\ pending \subseteq sent /\ received \subseteq sent /\ lingering \subseteq sent
  /\ packets \in [Payload -> 0 .. numbered]
  /\ OneWindow /\ acks \subseteq Window

\* What the client has had for almost a round lingers.
Lingers == \A p \in Unacked : numbered - p >= Late => p \in lingering

\* A packet was unacked when it was sent, which is less than a round trip ago.
Flying ==
  \A p \in Payload : OnTheWay(p) =>
    /\ p \in sent /\ p <= packets[p] /\ Fresh(packets[p], numbered)
    /\ packets[p] - p >= Late => p \in lingering

\* A number that an ack names is that of a packet that came since.
Came(since, s) == \E p \in received : SeqOf(p) = s /\ (since - p >= Late => p \in lingering)
Told ==
  \A w \in window \union acks :
    /\ Fresh(w.since, numbered)
    /\ \A s \in Seqs : Acks(w.ack, s) => Came(w.since, s)

UpInv == UpTyped /\ Lingers /\ Flying /\ Told /\ NoneForgotten

LEMMA UpConstants ==
  /\ Settled \in Nat /\ MaxPayloads \in Nat /\ RoundTrip \in 0 .. (MaxSequence - 1)
  /\ Payload \subseteq Nat \ {0} /\ Counts \subseteq Nat
  /\ Late \in 1 .. MaxSequence
BY UpAssumption, Constants DEF Payload, Counts, Late

LEMMA SeqOfTyped == ASSUME NEW p \in Nat \ {0} PROVE SeqOf(p) \in Seqs
<1>1. p - 1 \in Int /\ MaxSequence \in Nat \ {0}
  BY Constants
<1>2. PICK q \in Int, r \in 0 .. (MaxSequence - 1) :
        (p - 1) % MaxSequence = r /\ p - 1 = MaxSequence * q + r
  BY <1>1, Remainder, Zenon
<1> QED
  BY <1>2, Zenon DEF SeqOf, Seqs

(* Payloads with one number are a round apart. *)
LEMMA SameNumber == ASSUME NEW p \in Nat \ {0}, NEW q \in Nat \ {0}, SeqOf(p) = SeqOf(q), q < p
  PROVE  p - q >= MaxSequence
<1> DEFINE x == p - 1  y == q - 1
<1>1. SUFFICES ASSUME p - q < MaxSequence PROVE FALSE
  BY Constants
<1>2. x \in Int /\ y \in Int /\ MaxSequence \in Nat \ {0} /\ x - y < MaxSequence /\ y - x < MaxSequence /\ x # y
  BY <1>1, Constants
<1>3. x % MaxSequence = y % MaxSequence
  BY DEF SeqOf
<1> HIDE DEF x, y
<1> QED
  BY <1>2, <1>3, Apart, Zenon

(* Of two payloads with the number that an ack names the client has both known
   for a round when only one of them came. *)
LEMMA TruthfulNow == ASSUME UpInv PROVE AcksTruthful
<1> SUFFICES ASSUME NEW w \in window \union acks, NEW p \in sent, Acks(w.ack, SeqOf(p))
             PROVE  p \in received \/ Confused(p)
  BY DEF AcksTruthful
<1>1. p \in Nat \ {0} /\ p <= numbered /\ numbered \in Nat
  BY UpConstants DEF UpInv, UpTyped
<1>2. SeqOf(p) \in Seqs
  BY <1>1, SeqOfTyped
<1>3. PICK q \in received : SeqOf(q) = SeqOf(p) /\ (w.since - q >= Late => q \in lingering)
  BY <1>2 DEF UpInv, Told, Came
<1>4. q \in Nat \ {0} /\ q <= numbered
  BY UpConstants DEF UpInv, UpTyped
<1>5. w.since \in Nat /\ numbered - w.since <= RoundTrip
  BY UpConstants DEF UpInv, UpTyped, OneWindow, Window, Told, Fresh
<1>6. CASE q < p
  <2>1. p - q >= MaxSequence
    BY <1>1, <1>3, <1>4, <1>6, SameNumber
  <2>2. w.since - q >= Late
    BY <1>1, <1>4, <1>5, <2>1, UpConstants, Constants DEF Late
  <2>3. q <= p
    BY <1>1, <1>4, <1>6
  <2> QED
    BY <1>3, <2>2, <2>3 DEF Confused
<1>7. CASE p < q
  <2>1. q - p >= MaxSequence
    BY <1>1, <1>3, <1>4, <1>7, SameNumber
  <2>2. numbered - p >= Late
    BY <1>1, <1>4, <2>1, UpConstants, Constants
  <2>3. p \in Unacked => p \in lingering
    BY <2>2 DEF UpInv, Lingers
  <2>4. p <= p
    BY <1>1
  <2> QED
    BY <2>3, <2>4 DEF UpInv, NoneForgotten, Confused
<1>8. CASE p = q
  BY <1>8
<1> QED
  BY <1>1, <1>4, <1>6, <1>7, <1>8

LEMMA UpInit == Init => UpInv
<1> SUFFICES ASSUME Init PROVE UpInv
  OBVIOUS
<1>1. numbered = Settled /\ sent = {} /\ unsaved = {} /\ pending = {} /\ received = {} /\ lingering = {}
      /\ window = {} /\ acks = {} /\ packets = [p \in Payload |-> 0]
  BY DEF Init
<1>2. numbered \in Counts /\ packets \in [Payload -> 0 .. numbered]
  BY <1>1, UpConstants DEF Counts
<1> QED
  BY <1>1, <1>2 DEF UpInv, UpTyped, Lingers, Flying, Told, NoneForgotten, OneWindow, OnTheWay, Unacked

\* What the client forgot, and what was confused, stays so.
LEMMA ConfusedStays == ASSUME lingering \subseteq lingering', NEW p, Confused(p) PROVE Confused(p)'
BY DEF Confused

LEMMA Window1 == ASSUME UpInv, NEW w \in window \union acks
  PROVE  w \in Window /\ w.ack \in Ack /\ w.since \in Nat /\ numbered - w.since <= RoundTrip /\ numbered \in Nat
<1>1. w \in Window
  BY DEF UpInv, UpTyped, OneWindow
<1>2. w.ack \in Ack /\ w.since \in Nat /\ numbered \in Nat
  BY <1>1, UpConstants DEF Window, UpInv, UpTyped
<1>3. numbered - w.since <= RoundTrip
  BY DEF UpInv, Told, Fresh
<1> QED
  BY <1>1, <1>2, <1>3

(* A number is given to a payload, of this channel or of another one. *)
LEMMA NumberKeeps ==
  ASSUME UpInv, NEW p, Number(p), UNCHANGED <<pending, server>>,
         \/ /\ sent' = sent \union {p} /\ unsaved' = unsaved \union {p}
            /\ packets' = [Aged(p) EXCEPT ![p] = p]
         \/ UNCHANGED <<sent, unsaved>> /\ packets' = Aged(p)
  PROVE  UpInv'
<1>1. /\ p \in Payload /\ p = numbered + 1 /\ numbered' = p /\ acks' \subseteq acks
      /\ \A w \in window \union acks' : Fresh(w.since, p)
      /\ lingering' = lingering \union {q \in Unacked : p - q >= Late}
      /\ window' = window /\ received' = received /\ pending' = pending
  BY DEF Number, server, Late
<1>2. p \in Nat \ {0} /\ numbered \in Nat /\ p \in Counts
  BY <1>1, UpConstants DEF UpInv, UpTyped, Payload, Counts
<1>3. \A q \in sent : q \in Nat \ {0} /\ q <= numbered
  BY UpConstants DEF UpInv, UpTyped
<1>4. packets \in [Payload -> 0 .. numbered]
  BY DEF UpInv, UpTyped
<1>5. \A q \in Payload : \/ q = p /\ p \in sent' /\ packets'[q] = p
                         \/ packets'[q] = packets[q] /\ Fresh(packets[q], p)
                         \/ packets'[q] = 0
  BY <1>1 DEF Aged
<1>6. packets' \in [Payload -> 0 .. numbered']
  <2>1. \A q \in Payload : packets[q] \in 0 .. p /\ 0 \in 0 .. p /\ p \in 0 .. p
    BY <1>1, <1>2, <1>4
  <2>2. Aged(p) \in [Payload -> 0 .. p]
    BY <2>1 DEF Aged
  <2> QED
    BY <1>1, <2>1, <2>2
<1>7. UpTyped'
  <2>1. sent' \subseteq Payload /\ \A q \in sent' : q <= p
    <3>1. \A q \in sent : q <= p
      BY <1>1, <1>2, <1>3
    <3>2. p <= p
      BY <1>2
    <3> QED
      BY <1>1, <3>1, <3>2 DEF UpInv, UpTyped
  <2>2. sent \subseteq sent' /\ unsaved' \subseteq sent'
    BY DEF UpInv, UpTyped
  <2>3. lingering' \subseteq sent
    BY <1>1 DEF UpInv, UpTyped, Unacked
  <2> QED
    BY <1>1, <1>2, <1>6, <2>1, <2>2, <2>3 DEF UpInv, UpTyped, OneWindow
<1>8. Unacked \subseteq Unacked' /\ Unacked' \subseteq Unacked \union {p}
  BY <1>1 DEF Unacked
<1>9. Lingers'
  <2> SUFFICES ASSUME NEW q \in Unacked', p - q >= Late PROVE q \in lingering'
    BY <1>1 DEF Lingers, Late
  <2>1. q # p
    BY <1>2, UpConstants
  <2> QED
    BY <1>1, <1>8, <2>1
<1>10. Flying'
  <2> SUFFICES ASSUME NEW q \in Payload, packets'[q] # 0
               PROVE  /\ q \in sent' /\ q <= packets'[q] /\ Fresh(packets'[q], p)
                      /\ packets'[q] - q >= Late => q \in lingering'
    BY <1>1 DEF Flying, OnTheWay, Fresh, Late
  <2>1. CASE q = p /\ p \in sent' /\ packets'[q] = p
    BY <1>2, <2>1, UpConstants DEF Fresh
  <2>2. CASE packets'[q] = packets[q] /\ Fresh(packets[q], p)
    <3>1. q \in sent /\ q <= packets[q] /\ (packets[q] - q >= Late => q \in lingering)
      BY <2>2 DEF UpInv, Flying, OnTheWay
    <3> QED
      BY <1>1, <2>2, <3>1
  <2> QED
    BY <1>5, <2>1, <2>2
<1>11. Told'
  <2>1. \A since, s : Came(since, s) => Came(since, s)'
    BY <1>1 DEF Came, Late
  <2> QED
    BY <1>1, <2>1 DEF UpInv, Told, Fresh
<1>12. NoneForgotten'
  <2>1. \A q \in sent' : q \in sent \/ q \in Unacked'
    BY DEF Unacked
  <2> QED
    BY <1>1, <1>8, <2>1, ConfusedStays DEF UpInv, NoneForgotten
<1> QED
  BY <1>7, <1>9, <1>10, <1>11, <1>12 DEF UpInv

\* Steps that number nothing and forget nothing
LEMMA QuietKeeps ==
  ASSUME UpInv, UpTyped', Flying', Told',
         UNCHANGED <<numbered, sent, lingering>>, received \subseteq received', Unacked' \subseteq Unacked,
         \A p \in Unacked \ Unacked' : p \in received \/ Confused(p)
  PROVE  UpInv'
<1>1. Lingers'
  BY DEF UpInv, Lingers, Late
<1>2. \A p : Confused(p) => Confused(p)'
  BY DEF Confused
<1>3. NoneForgotten'
  BY <1>2 DEF UpInv, NoneForgotten
<1> QED
  BY <1>1, <1>3 DEF UpInv

LEMMA SaveKeeps == ASSUME UpInv, NEW p \in Payload, Save(p) PROVE UpInv'
<1>1. /\ p \in unsaved /\ unsaved' = unsaved \ {p} /\ pending' = pending \union {p}
      /\ UNCHANGED <<numbered, sent, lingering, received, window, packets, acks>>
  BY DEF Save, server
<1>2. Unacked' = Unacked
  BY <1>1 DEF Unacked
<1>3. UpTyped' /\ Flying' /\ Told'
  BY <1>1 DEF UpInv, UpTyped, OneWindow, Flying, OnTheWay, Fresh, Told, Came, Late
<1> QED
  BY <1>1, <1>2, <1>3, QuietKeeps

LEMMA ResendKeeps == ASSUME UpInv, NEW p \in Payload, Resend(p) \/ LosePacket(p) PROVE UpInv'
<1>1. /\ \/ packets' = [packets EXCEPT ![p] = numbered] /\ p \in Unacked
         \/ packets' = [packets EXCEPT ![p] = 0]
      /\ UNCHANGED <<numbered, sent, unsaved, pending, lingering, received, window, acks>>
  BY DEF Resend, LosePacket, server, client, Unacked
<1>2. numbered \in Nat /\ packets \in [Payload -> 0 .. numbered]
  BY UpConstants DEF UpInv, UpTyped
<1>3. UpTyped'
  <2>1. packets' \in [Payload -> 0 .. numbered]
    <3>1. 0 \in 0 .. numbered /\ numbered \in 0 .. numbered
      BY <1>2
    <3> QED
      BY <1>1, <1>2, <3>1
  <2> QED
    BY <1>1, <2>1 DEF UpInv, UpTyped, OneWindow
<1>4. Flying'
  <2> SUFFICES ASSUME NEW q \in Payload, packets'[q] # 0
               PROVE  /\ q \in sent /\ q <= packets'[q] /\ Fresh(packets'[q], numbered)
                      /\ packets'[q] - q >= Late => q \in lingering
    BY <1>1 DEF Flying, OnTheWay, Fresh, Late
  <2>1. CASE packets'[q] = packets[q]
    BY <2>1 DEF UpInv, Flying, OnTheWay
  <2>2. CASE q = p /\ packets'[q] = numbered /\ p \in Unacked
    <3>1. q \in sent /\ q <= numbered
      BY <2>2 DEF UpInv, UpTyped, Unacked
    <3>2. Fresh(numbered, numbered)
      BY <1>2, UpConstants DEF Fresh
    <3> QED
      BY <2>2, <3>1, <3>2 DEF UpInv, Lingers
  <2> QED
    BY <1>1, <1>2, <2>1, <2>2
<1>5. Told' /\ Unacked' = Unacked
  BY <1>1 DEF UpInv, Told, Fresh, Came, Late, Unacked
<1> QED
  BY <1>1, <1>3, <1>4, <1>5, QuietKeeps

(* An ack takes out only what the server has, or what was confused. *)
LEMMA ProcessAckKeeps == ASSUME UpInv, NEW a \in acks, ProcessAck(a) PROVE UpInv'
<1>1. /\ pending' = {p \in pending : ~ Acks(a.ack, SeqOf(p))}
      /\ UNCHANGED <<numbered, sent, unsaved, lingering, received, window, packets, acks>>
  BY DEF ProcessAck, server
<1>2. \A p \in pending : p \in pending' \/ p \in received \/ Confused(p)
  BY <1>1, TruthfulNow DEF AcksTruthful, UpInv, UpTyped
<1>3. Unacked' \subseteq Unacked /\ \A p \in Unacked \ Unacked' : p \in received \/ Confused(p)
  BY <1>1, <1>2 DEF Unacked
<1>4. UpTyped' /\ Flying' /\ Told'
  BY <1>1 DEF UpInv, UpTyped, OneWindow, Flying, OnTheWay, Fresh, Told, Came, Late
<1> QED
  BY <1>1, <1>3, <1>4, QuietKeeps

LEMMA SendAckKeeps == ASSUME UpInv, SendAck \/ \E a \in acks : LoseAck(a) PROVE UpInv'
<1>1. /\ UNCHANGED <<numbered, sent, unsaved, pending, lingering, received, packets>>
      /\ (window' = {} \/ window' = window)
      /\ window' \union acks' \subseteq window \union acks
  BY DEF SendAck, LoseAck, server, client
<1>2. acks' \subseteq Window
  BY <1>1 DEF UpInv, UpTyped, OneWindow
<1>3. UpTyped'
  BY <1>1, <1>2 DEF UpInv, UpTyped, OneWindow
<1>4. Flying' /\ Unacked' = Unacked
  BY <1>1 DEF UpInv, Flying, OnTheWay, Fresh, Unacked, Late
<1>5. Told'
  <2>1. \A since, s : Came(since, s) => Came(since, s)'
    BY <1>1 DEF Came, Late
  <2> QED
    BY <1>1, <2>1 DEF UpInv, Told, Fresh
<1> QED
  BY <1>1, <1>3, <1>4, <1>5, QuietKeeps

(* The window that a packet opens names that packet only. *)
LEMMA OpenedNames == ASSUME NEW s \in Seqs
  PROVE  /\ Opened(s) \in Ack
         /\ \A t \in Seqs : Acks(Opened(s), t) => t = s
<1>1. s % WindowSize \in 0 .. (WindowSize - 1)
  <2>1. s \in Int
    BY DEF Seqs
  <2>2. PICK q \in Int, r \in 0 .. (WindowSize - 1) : s % WindowSize = r /\ s = WindowSize * q + r
    BY <2>1, Remainder, Constants, Zenon
  <2> QED
    BY <2>2, Zenon
<1>2. Opened(s) \in Ack
  BY <1>1 DEF Opened, Ack, BitOf
<1>3. InWindow(s, s)
  <2>1. s = s + 0 /\ 0 \in 0 .. (WindowSize - 1)
    BY Constants DEF Seqs
  <2> QED
    BY <2>1, WindowIs
<1>4. ASSUME NEW t \in Seqs, Acks(Opened(s), t) PROVE t = s
  <2>1. InWindow(t, s) /\ t % WindowSize = s % WindowSize
    BY <1>4, Zenon DEF Acks, Opened, BitOf
  <2> QED
    BY <1>3, <2>1, BitNamesOne
<1> QED
  BY <1>2, <1>4

LEMMA ReceiveKeeps == ASSUME UpInv, NEW p \in Payload, Receive(p) PROVE UpInv'
<1>1. /\ received' = received \union {p} /\ OnTheWay(p)
      /\ window' = IF window = {} THEN {[ack |-> Opened(SeqOf(p)), since |-> packets[p]]}
                   ELSE {[ack |-> Slide(w.ack, SeqOf(p)), since |-> Least(w.since, packets[p])] : w \in window}
      /\ UNCHANGED <<numbered, sent, unsaved, pending, lingering, packets, acks>>
  BY DEF Receive, client
<1>2. /\ p \in sent /\ packets[p] \in Counts /\ packets[p] \in Nat /\ Fresh(packets[p], numbered)
      /\ (packets[p] - p >= Late => p \in lingering) /\ p \in Nat \ {0} /\ numbered \in Nat
  <2>1. numbered \in Counts /\ packets[p] \in 0 .. numbered
    BY DEF UpInv, UpTyped
  <2>2. packets[p] \in Counts /\ packets[p] \in Nat /\ numbered \in Nat
    BY <2>1, UpConstants DEF Counts
  <2> QED
    BY <1>1, <2>2, UpConstants DEF UpInv, Flying
<1>3. SeqOf(p) \in Seqs
  BY <1>2, SeqOfTyped
<1>4. \A since, s : Came(since, s) => Came(since, s)'
  BY <1>1 DEF Came, Late
\* A window names p, and what it named before, since the older of the two was sent.
<1>5. ASSUME NEW v \in Window, window' = {v}, v.since <= packets[p], Fresh(v.since, numbered),
             \A s \in Seqs : Acks(v.ack, s) => s = SeqOf(p) \/ Came(v.since, s)
      PROVE  OneWindow' /\ \A w \in window' :
                /\ Fresh(w.since, numbered)
                /\ \A s \in Seqs : Acks(w.ack, s) => Came(w.since, s)'
  <2>1. v.since \in Nat
    BY UpConstants DEF Window
  <2>2. v.since - p >= Late => p \in lingering
    BY <1>2, <1>5, <2>1, UpConstants
  <2>3. Came(v.since, SeqOf(p))'
    BY <1>1, <2>2 DEF Came, Late
  <2> QED
    BY <1>4, <1>5, <2>3 DEF OneWindow
<1>6. OneWindow' /\ \A w \in window' :
         /\ Fresh(w.since, numbered)
         /\ \A s \in Seqs : Acks(w.ack, s) => Came(w.since, s)'
  <2>1. CASE window = {}
    <3> DEFINE v == [ack |-> Opened(SeqOf(p)), since |-> packets[p]]
    <3>1. window' = {v} /\ v.ack = Opened(SeqOf(p)) /\ v.since = packets[p]
      BY <1>1, <2>1
    <3>2. v \in Window
      BY <1>2, <1>3, OpenedNames DEF Window
    <3> HIDE DEF v
    <3>3. v.since <= packets[p] /\ Fresh(v.since, numbered)
      BY <1>2, <3>1
    <3>4. \A s \in Seqs : Acks(v.ack, s) => s = SeqOf(p)
      BY <1>3, <3>1, OpenedNames
    <3> QED
      BY <1>5, <3>1, <3>2, <3>3, <3>4
  <2>2. CASE window # {}
    <3>1. PICK w \in Window : window = {w}
      BY <2>2 DEF UpInv, UpTyped, OneWindow
    <3> DEFINE v == [ack |-> Slide(w.ack, SeqOf(p)), since |-> Least(w.since, packets[p])]
    <3>2. window' = {v} /\ v.ack = Slide(w.ack, SeqOf(p)) /\ v.since = Least(w.since, packets[p])
      BY <1>1, <2>2, <3>1
    <3>3. w.ack \in Ack /\ w.since \in Counts /\ w.since \in Nat
      BY UpConstants DEF Window
    <3>4. Least(w.since, packets[p]) \in Counts
      BY <1>2, <3>3 DEF Least
    <3>5. v \in Window
      BY <1>3, <3>3, <3>4, SlideTyped DEF Window
    <3> HIDE DEF v
    <3>6. v.since \in Nat /\ v.since <= packets[p] /\ v.since <= w.since
      BY <1>2, <3>2, <3>3 DEF Least
    <3>7. Fresh(v.since, numbered)
      <4>1. Fresh(w.since, numbered)
        BY <3>1 DEF UpInv, Told
      <4> QED
        BY <1>2, <3>2, <4>1 DEF Least
    <3>8. ASSUME NEW s \in Seqs, Acks(v.ack, s) PROVE s = SeqOf(p) \/ Came(v.since, s)
      <4>1. s = SeqOf(p) \/ Acks(w.ack, s)
        BY <1>3, <3>2, <3>3, <3>8, SlideNames
      <4>2. ASSUME Acks(w.ack, s) PROVE Came(v.since, s)
        <5>1. Came(w.since, s)
          BY <3>1, <4>2 DEF UpInv, Told
        <5>2. PICK q \in received : SeqOf(q) = s /\ (w.since - q >= Late => q \in lingering)
          BY <5>1 DEF Came
        <5>3. q \in Nat
          BY UpConstants DEF UpInv, UpTyped
        <5>4. v.since - q >= Late => w.since - q >= Late
          BY <3>3, <3>6, <5>3, UpConstants
        <5> QED
          BY <5>2, <5>4 DEF Came
      <4> QED
        BY <4>1, <4>2
    <3> QED
      BY <1>5, <3>2, <3>5, <3>6, <3>7, <3>8
  <2> QED
    BY <2>1, <2>2
<1>7. UpTyped'
  BY <1>1, <1>2, <1>6 DEF UpInv, UpTyped
<1>8. Flying' /\ Unacked' = Unacked
  BY <1>1 DEF UpInv, Flying, OnTheWay, Fresh, Unacked, Late
<1>9. Told'
  BY <1>1, <1>4, <1>6 DEF UpInv, Told, Fresh
<1> QED
  BY <1>1, <1>7, <1>8, <1>9, QuietKeeps

LEMMA UpKept == UpInv /\ [Next]_vars => UpInv'
<1> SUFFICES ASSUME UpInv, [Next]_vars PROVE UpInv'
  OBVIOUS
<1>1. CASE UNCHANGED vars
  BY <1>1 DEF vars, client, server, UpInv, UpTyped, OneWindow, Lingers, Unacked, Late, Flying, OnTheWay, Fresh,
              Told, Came, NoneForgotten, Confused
<1>2. ASSUME NEW p \in Payload, Send(p) \/ SendElsewhere(p) PROVE UpInv'
  BY <1>2, NumberKeeps DEF Send, SendElsewhere
<1>3. ASSUME NEW p \in Payload, Save(p) PROVE UpInv'
  BY <1>3, SaveKeeps
<1>4. ASSUME NEW p \in Payload, Resend(p) \/ LosePacket(p) PROVE UpInv'
  BY <1>4, ResendKeeps
<1>5. ASSUME NEW p \in Payload, Receive(p) PROVE UpInv'
  BY <1>5, ReceiveKeeps
<1>6. CASE SendAck \/ \E a \in acks : LoseAck(a)
  BY <1>6, SendAckKeeps
<1>7. ASSUME NEW a \in acks, ProcessAck(a) PROVE UpInv'
  BY <1>7, ProcessAckKeeps
<1> QED
  BY <1>1, <1>2, <1>3, <1>4, <1>5, <1>6, <1>7 DEF Next, ClientStep, ServerStep

(* The invariant holds: an ack names only numbers under which something came, and
   the client has every payload it does not know the server to have. *)
THEOREM UpInvariant == Spec => []UpInv
<1> QED
  BY UpInit, UpKept, PTL DEF Spec

(* UpTypeOK holds: queue_ack moves its window within the sequence numbers and the
   bits of one window, and only what was numbered is sent, kept or received. *)
THEOREM UpTypes == Spec => []UpTypeOK
<1>1. UpInv => UpTypeOK
  <2> SUFFICES ASSUME UpInv PROVE UpTypeOK
    OBVIOUS
  <2>1. UpTyped /\ numbered \in Nat
    BY UpConstants DEF UpInv, UpTyped
  <2>2. Cardinality(window) <= 1
    <3>1. CASE window = {}
      BY <3>1, FS_EmptySet
    <3>2. ASSUME NEW w \in Window, window = {w} PROVE Cardinality(window) <= 1
      <4>1. Cardinality({w}) = 1
        BY FS_Singleton, Zenon
      <4>2. Cardinality(window) = 1
        BY <3>2, <4>1, Zenon
      <4> QED
        BY <4>2
    <3> QED
      BY <2>1, <3>1, <3>2 DEF UpTyped, OneWindow
  <2>3. \A w \in window \union acks : w \in Window
    BY <2>1 DEF UpTyped, OneWindow
  <2>4. sent \subseteq Payload \intersect (0 .. numbered)
    BY <2>1, UpConstants DEF UpTyped
  <2> QED
    BY <2>1, <2>2, <2>3, <2>4 DEF UpTyped, UpTypeOK, Unacked
<1> QED
  BY <1>1, UpInvariant, PTL

(* AcksTruthful holds: when queue_ack moves its window it clears the bits of what
   falls out, so that no ack names a packet that never came, wherever the
   numbers wrap, unless an earlier packet with the same number lingered. *)
THEOREM AcksAreTruthful == Spec => []AcksTruthful
<1> QED
  BY TruthfulNow, UpInvariant, PTL

(* NoneForgotten holds: a packet that a task of the client sent is entered, or still
   to be entered by that task, until the server has it, in whatever order the
   entry, the resends and the acks come and however often the numbers go round. *)
THEOREM NothingForgotten == Spec => []NoneForgotten
<1>1. UpInv => NoneForgotten
  BY DEF UpInv
<1> QED
  BY <1>1, UpInvariant, PTL

-----------------------------------------------------------------------------
(* The channel *)

Blurred == {p \in Payload : Confused(p)}

LEMMA ChannelStarts == Init => Channel!Init
<1> SUFFICES ASSUME Init PROVE Channel!Init
  OBVIOUS
<1>1. sent = {} /\ Unacked = {} /\ received = {} /\ {p \in Payload : Confused(p)} = {}
  BY DEF Init, Unacked, Confused
<1> QED
  BY <1>1, Zenon DEF Channel!Init

\* What the client lets go of has been delivered, or is confused, by then.
LEMMA LettingGo ==
  ASSUME UpInv, UpInv', UNCHANGED <<sent, received>>, lingering \subseteq lingering', Unacked' \subseteq Unacked
  PROVE  Channel!Settle
<1>1. Blurred \subseteq Blurred'
  BY DEF Blurred, Confused
<1>2. Unacked \ Unacked' \subseteq received \union Blurred'
  <2> SUFFICES ASSUME NEW p \in Unacked, p \notin Unacked' PROVE p \in received \union Blurred'
    OBVIOUS
  <2>1. p \in sent' /\ p \in Payload
    BY DEF Unacked, UpInv, UpTyped
  <2>2. p \in received' \/ Confused(p)'
    BY <2>1 DEF UpInv, NoneForgotten
  <2> QED
    BY <2>1, <2>2 DEF Blurred
<1> QED
  BY <1>1, <1>2, Zenon DEF Channel!Settle, Blurred

LEMMA ChannelStep == ASSUME UpInv, UpInv', [Next]_vars
  PROVE  [Channel!Next]_<<sent, Unacked, received, {p \in Payload : Confused(p)}>>
<1>1. CASE UNCHANGED vars
  BY <1>1 DEF vars, client, server, Unacked, Confused
<1>2. ASSUME NEW p \in Payload, Send(p) PROVE Channel!Next
  <2>1. /\ p = numbered + 1 /\ sent' = sent \union {p} /\ unsaved' = unsaved \union {p}
        /\ UNCHANGED <<pending, received>> /\ lingering \subseteq lingering'
    BY <1>2 DEF Send, Number, server
  <2>2. p \notin sent
    <3>1. numbered \in Nat /\ \A q \in sent : q <= numbered
      BY UpConstants DEF UpInv, UpTyped
    <3> QED
      BY <2>1, <3>1
  <2>3. Unacked' = Unacked \union {p} /\ Blurred \subseteq Blurred'
    BY <2>1 DEF Unacked, Blurred, Confused
  <2>4. Channel!Accept(p)
    BY <2>1, <2>2, <2>3, Zenon DEF Channel!Accept, Blurred
  <2> QED
    BY <2>4, Zenon DEF Channel!Next
<1>3. ASSUME NEW p \in Payload, Receive(p) PROVE Channel!Next
  <2>1. received' = received \union {p} /\ UNCHANGED <<sent, unsaved, pending, lingering>> /\ OnTheWay(p)
    BY <1>3 DEF Receive, client
  <2>2. p \in sent
    BY <2>1 DEF UpInv, Flying
  <2>3. Unacked' = Unacked /\ Blurred' = Blurred
    BY <2>1 DEF Unacked, Blurred, Confused
  <2>4. Channel!Deliver(p)
    BY <2>1, <2>2, <2>3, Zenon DEF Channel!Deliver, Blurred
  <2> QED
    BY <2>4, Zenon DEF Channel!Next
<1>4. ASSUME UNCHANGED <<sent, received>>, lingering \subseteq lingering', Unacked' \subseteq Unacked
      PROVE  Channel!Next
  BY <1>4, LettingGo, Zenon DEF Channel!Next
<1>5. ASSUME NEW p \in Payload, SendElsewhere(p) \/ Save(p) \/ Resend(p) \/ LosePacket(p)
      PROVE  Channel!Next
  <2>1. UNCHANGED <<sent, received>> /\ lingering \subseteq lingering' /\ Unacked' \subseteq Unacked
    BY <1>5 DEF SendElsewhere, Save, Resend, LosePacket, Number, client, server, Unacked
  <2> QED
    BY <1>4, <2>1
<1>6. ASSUME NEW a \in acks, ProcessAck(a) PROVE Channel!Next
  <2>1. UNCHANGED <<sent, received>> /\ lingering \subseteq lingering' /\ Unacked' \subseteq Unacked
    BY <1>6 DEF ProcessAck, server, Unacked
  <2> QED
    BY <1>4, <2>1
<1>7. CASE SendAck \/ \E a \in acks : LoseAck(a)
  <2>1. UNCHANGED <<sent, received>> /\ lingering \subseteq lingering' /\ Unacked' \subseteq Unacked
    BY <1>7 DEF SendAck, LoseAck, client, server, Unacked
  <2> QED
    BY <1>4, <2>1
<1> QED
  BY <1>1, <1>2, <1>3, <1>5, <1>6, <1>7 DEF Next, ClientStep, ServerStep

(* DeliversUp holds: the tasks of the client, the window of queue_ack and the network
   implement a channel that delivers at least once. An ack that names a whole window,
   or comes before its packet is entered, takes out only what the server has, and
   no resend makes the client owe again what it let go of. *)
THEOREM DeliversToServer == Spec => DeliversUp
<1>1. Init => Channel!Init
  BY ChannelStarts
<1>2. UpInv /\ UpInv' /\ [Next]_vars
      => [Channel!Next]_<<sent, Unacked, received, {p \in Payload : Confused(p)}>>
  BY ChannelStep
<1> QED
  BY <1>1, <1>2, UpInvariant, PTL DEF Spec, DeliversUp, Channel!Spec
=============================================================================

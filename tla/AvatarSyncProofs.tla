-------------------------- MODULE AvatarSyncProofs --------------------------
(****************************************************************************)
(* Proofs about AvatarSync, for every set of players, sequence space, bound *)
(* on the slices and number of events; about AvatarBundles, for every batch *)
(* of packets, limit of a bundle and outcome of the compression; and about  *)
(* the rotations that AvatarBits repacks.                                   *)
(****************************************************************************)
EXTENDS AvatarSync, AvatarBundles, FiniteSetTheorems, SequenceTheorems, WellFoundedInduction,
        TLAPS

-----------------------------------------------------------------------------
(* The inductive invariant *)

Leaving  == {"no", "avatar", "peer"}
State    == [update : Updates, generation : Nat \ {0}]

\* An update of a connection that its player has had
Made(u) == u \in Updates /\ u.conn <= conn[u.peer]

\* A state that was entered
Entered(v) == v \in State /\ Made(v.update) /\ v.generation < generation

ClientsWell ==
  /\ live \subseteq Peer /\ known \subseteq Peer
  /\ events \in 0 .. MaxEvents
  /\ conn \in [Peer -> 0 .. events] /\ made \in [Peer -> 0 .. events]
  /\ joining \in [Peer -> BOOLEAN] /\ leave \in [Peer -> Leaving]
  /\ \A p \in Peer : /\ p \in live \/ joining[p] => conn[p] # 0
                     /\ p \in live => leave[p] = "no"
  /\ \A u \in flying : Made(u)

TickWell ==
  /\ max_slices \in MaxSlices
  /\ slice_count \in 1 .. max_slices /\ slice_index \in 0 .. (slice_count - 1)
  /\ todo \subseteq Peer /\ IsFiniteSet(updates)
  /\ pc # "build" => clones = {} /\ todo = {} /\ out = {}
  /\ \A u \in updates : Made(u)

TablesWell ==
  /\ generation \in Nat \ {0}
  /\ pending \in [Peer -> Updates \cup {None}] /\ states \in [Peer -> State \cup {None}]
  /\ tracking \in [Pairs -> Nat] /\ heard \in [Pairs -> Updates \cup {None}]
  /\ \A p \in Peer : /\ pending[p] # None => pending[p].peer = p /\ Made(pending[p])
                     /\ states[p] # None => states[p].update.peer = p /\ Entered(states[p])
  /\ \A x \in Pairs : /\ tracking[x] < generation
                      /\ heard[x] # None => heard[x].peer = x[2] /\ Made(heard[x])

\* The snapshot: a state is as it was taken, or its player was removed; what is to be
\* sent was taken from it.
SnapshotWell ==
  /\ \A v \in clones :
       /\ Entered(v)
       /\ states[v.update.peer] # None => states[v.update.peer] = v
  /\ \A v, w \in clones : v.update.peer = w.update.peer => v = w
  /\ \A o \in out : \E r \in Peer, v \in clones : o = <<r, v.update>>

\* A state of a connection that has ended is known to be late.
LateKnown ==
  \A p \in Peer : states[p] # None /\ TooLate(states[p].update) => p \in late /\ states[p].update \in odd

\* Nothing counts as sent to a player that is gone.
TrackingCleared ==
  \A x \in Pairs : x[1] \notin live \cup stale /\ leave[x[1]] # "avatar" => tracking[x] = 0

\* What counts as sent to a player was sent, or is about to be.
TrackingTrue ==
  \A x \in Pairs :
    x[1] \in live \ stale /\ states[x[2]] # None /\ tracking[x] >= states[x[2]].generation
    => heard[x] = states[x[2]].update \/ <<x[1], states[x[2]].update>> \in out

\* Something of the connection that a player has now was entered, and its state is there.
StateKept(u) ==
  u.conn = conn[u.peer] /\ (u.peer \in live \/ leave[u.peer] = "avatar") => states[u.peer] # None

NotBefore(u, w) == u \in odd \/ ~Older(u, w)

InStep ==
  /\ \A v \in clones : StateKept(v.update)
  /\ \A x \in Pairs : heard[x] # None =>
       /\ StateKept(heard[x])
       /\ states[x[2]] # None => NotBefore(states[x[2]].update, heard[x])
       /\ \A v \in clones : v.update.peer = x[2] => NotBefore(v.update, heard[x])

AvatarInv ==
  /\ ClientsWell /\ TickWell /\ TablesWell /\ SnapshotWell
  /\ LateKnown /\ TrackingCleared /\ TrackingTrue /\ InStep

-----------------------------------------------------------------------------
(* Arithmetic *)

(* A slice index taken modulo the number of slices is one of them.          *)
LEMMA Remainder ==
  ASSUME NEW a \in Nat, NEW b \in Nat \ {0}
  PROVE  a % b \in 0 .. (b - 1)
  OBVIOUS

(* Two numbers of which the second is ahead by no more than half a round    *)
(* have sequences of which the first does not pass for the newer.           *)
LEMMA AheadIsNotPassed ==
  ASSUME NEW a \in Nat, NEW b \in Nat, a <= b, b <= a + Half
  PROVE  ((a % SeqSpace) + SeqSpace - (b % SeqSpace)) % SeqSpace \notin 1 .. (Half - 1)
<1> DEFINE r == a % SeqSpace
           q == a \div SeqSpace
           s == b % SeqSpace
           t == b \div SeqSpace
           d == r + SeqSpace - s
<1>1. SeqSpace \in Nat /\ SeqSpace > 1 /\ Half \in Nat /\ 2 * Half <= SeqSpace
  BY BoundAssumption DEF Half
<1>2. /\ a = SeqSpace * q + r /\ r \in 0 .. (SeqSpace - 1) /\ q \in Int
      /\ b = SeqSpace * t + s /\ s \in 0 .. (SeqSpace - 1) /\ t \in Int
  BY <1>1
<1> HIDE DEF r, q, s, t
<1>3. d \in Nat /\ d = SeqSpace * (1 + t - q) - (b - a)
  BY <1>1, <1>2
<1>4. CASE t = q
  BY <1>1, <1>2, <1>3, <1>4
<1>5. CASE t = q + 1
  BY <1>1, <1>2, <1>3, <1>5
<1>6. t = q \/ t = q + 1
  BY <1>1, <1>2
<1> QED
  BY <1>4, <1>5, <1>6 DEF r, s

(* An update that passes for newer than another one is not before it, or    *)
(* before it by more than half a round: what the comparison of the eight-bit *)
(* sequences in process_pending_updates can and cannot tell.                 *)
LEMMA NewerIsAfter ==
  ASSUME NEW u \in Updates, NEW v \in Updates, Newer(u, v)
  PROVE  v.n <= u.n \/ u.n + Half < v.n
<1>1. u.n \in Nat /\ v.n \in Nat /\ SeqSpace \in Nat /\ SeqSpace > 1 /\ Half \in Nat
  BY BoundAssumption DEF Updates, Half
<1> SUFFICES ASSUME u.n < v.n, v.n <= u.n + Half
             PROVE  ~Newer(u, v)
  BY <1>1
<1>2. ASSUME NEW a \in Nat, NEW b \in Nat, a <= b, b <= a + Half,
             Sequence(u) = a % SeqSpace, Sequence(v) = b % SeqSpace
      PROVE  ~Newer(u, v)
  <2>1. ((a % SeqSpace) + SeqSpace - (b % SeqSpace)) % SeqSpace \notin 1 .. (Half - 1)
    BY <1>2, AheadIsNotPassed
  <2> QED
    BY <1>2, <2>1 DEF Newer
<1>3. v.n - 1 \in Nat /\ Sequence(v) = (v.n - 1) % SeqSpace
  BY <1>1 DEF Sequence
<1>4. CASE u.n # 0
  <2>1. u.n - 1 \in Nat /\ Sequence(u) = (u.n - 1) % SeqSpace
    BY <1>1, <1>4 DEF Sequence
  <2> QED
    BY <1>1, <1>2, <1>3, <2>1
<1>5. CASE u.n = 0
  <2>1. Sequence(u) = 0 % SeqSpace
    BY <1>1, <1>5 DEF Sequence
  <2> QED
    BY <1>1, <1>2, <1>3, <1>5, <2>1
<1> QED
  BY <1>4, <1>5

-----------------------------------------------------------------------------
(* The initial states *)

LEMMA InitHolds == Init => AvatarInv
<1> SUFFICES ASSUME Init PROVE AvatarInv
  OBVIOUS
<1> USE DEF Init
<1>1. ClientsWell
  BY BoundAssumption DEF ClientsWell, Leaving
<1>2. TickWell
  BY BoundAssumption, FS_EmptySet DEF TickWell
<1>3. TablesWell
  BY DEF TablesWell
<1>4. SnapshotWell /\ LateKnown
  BY DEF SnapshotWell, LateKnown
<1>5. TrackingCleared /\ TrackingTrue /\ InStep
  BY DEF TrackingCleared, TrackingTrue, InStep, Pairs
<1> QED
  BY <1>1, <1>2, <1>3, <1>4, <1>5 DEF AvatarInv

-----------------------------------------------------------------------------
(* The clients and the tasks of their connections *)

\* An update is known as such whatever happens to the others: connections only grow.
LEMMA MadeStays ==
  ASSUME ClientsWell, NEW u, Made(u),
         \/ UNCHANGED conn
         \/ \E p \in Peer : conn' = [conn EXCEPT ![p] = @ + 1]
  PROVE  Made(u)'
  BY DEF ClientsWell, Made, Updates

LEMMA ConnectKeeps ==
  ASSUME AvatarInv, NEW p \in Peer, Connect(p)
  PROVE  AvatarInv'
<1> USE DEF AvatarInv
<1>1. /\ p \notin live /\ leave[p] = "no" /\ live' = live \cup {p} /\ known' = known \cup {p}
      /\ conn' = [conn EXCEPT ![p] = @ + 1] /\ made' = [made EXCEPT ![p] = 0]
      /\ joining' = [joining EXCEPT ![p] = TRUE]
      /\ heard' = [x \in Pairs |-> IF x[1] = p THEN None ELSE heard[x]]
      /\ stale' = (IF p \in todo THEN stale \cup {p} ELSE stale)
      /\ UNCHANGED <<leave, flying, pending, states, generation, tracking, slices, tick, late, odd>>
  BY DEF Connect
<1>2. events' \in 0 .. MaxEvents /\ events' = events + 1
  BY BoundAssumption DEF Connect, Happens, ClientsWell, TickWell
<1>3. \A u : Made(u) => Made(u)'
  BY <1>1, MadeStays
<1>4. \A v : Entered(v) => Entered(v)'
  BY <1>1, <1>3 DEF Entered, State
<1>5. ClientsWell'
  BY <1>1, <1>2, <1>3 DEF ClientsWell
<1>6. TickWell'
  BY <1>1, <1>3 DEF TickWell, tick, slices
<1>7. TablesWell'
  BY <1>1, <1>3, <1>4 DEF TablesWell
<1>8. SnapshotWell'
  BY <1>1, <1>4 DEF SnapshotWell, tick
<1>9. LateKnown'
  BY <1>1 DEF LateKnown, TooLate, TablesWell, ClientsWell
<1>10. TrackingCleared' /\ TrackingTrue'
  <2>1. TrackingCleared'
    BY <1>1 DEF TrackingCleared
  <2>2. ASSUME NEW x \in Pairs, x[1] \in live' \ stale', states[x[2]] # None,
               tracking[x] >= states[x[2]].generation
        PROVE  x[1] # p
    BY <1>1, <2>2 DEF TrackingCleared, TablesWell, Entered, State, Pairs
  <2> QED
    BY <1>1, <2>1, <2>2 DEF TrackingTrue, tick
<1>11. InStep'
  <2>1. ASSUME NEW u, Made(u), StateKept(u)
        PROVE  StateKept(u)'
    BY <1>1, <2>1 DEF StateKept, Made, Updates, ClientsWell
  <2>2. \A u, w : NotBefore(u, w)' <=> NotBefore(u, w)
    BY <1>1 DEF NotBefore
  <2> QED
    BY <1>1, <2>1, <2>2 DEF InStep, tick, SnapshotWell, Entered, TablesWell
<1> QED
  BY <1>5, <1>6, <1>7, <1>8, <1>9, <1>10, <1>11

\* What the tick and the histories show is left alone by the tasks that only feed it.
LEMMA FedOnly ==
  ASSUME AvatarInv,
         UNCHANGED <<live, conn, leave, states, generation, tracking, slices, tick, history>>
  PROVE  /\ TickWell' /\ SnapshotWell' /\ LateKnown' /\ TrackingCleared' /\ TrackingTrue'
         /\ InStep'
<1> USE DEF AvatarInv, slices, tick, history
<1>1. \A u : Made(u) => Made(u)'
  BY MadeStays
<1>2. \A v : Entered(v) => Entered(v)'
  BY <1>1 DEF Entered
<1>3. TickWell'
  BY <1>1 DEF TickWell
<1>4. SnapshotWell'
  BY <1>2 DEF SnapshotWell
<1>5. LateKnown'
  BY DEF LateKnown, TooLate
<1>6. TrackingCleared' /\ TrackingTrue'
  BY DEF TrackingCleared, TrackingTrue
<1>7. InStep'
  BY DEF InStep, StateKept, NotBefore
<1> QED
  BY <1>3, <1>4, <1>5, <1>6, <1>7

LEMMA CacheInitialKeeps ==
  ASSUME AvatarInv, NEW p \in Peer, CacheInitial(p)
  PROVE  AvatarInv'
<1> USE DEF AvatarInv, CacheInitial
<1>1. \A u : Made(u) => Made(u)'
  BY MadeStays
<1>2. \A v : Entered(v) => Entered(v)'
  BY <1>1 DEF Entered
<1>3. Made(Update(p, 0)) /\ Update(p, 0).peer = p /\ Update(p, 0) \in Updates
  BY BoundAssumption DEF Made, Update, Updates, ClientsWell
<1>4. ClientsWell'
  BY <1>1 DEF ClientsWell
<1>5. TablesWell'
  BY <1>1, <1>2, <1>3 DEF TablesWell, history
<1> QED
  BY <1>4, <1>5, FedOnly

LEMMA MoveKeeps ==
  ASSUME AvatarInv, NEW p \in Peer, Move(p)
  PROVE  AvatarInv'
<1> USE DEF AvatarInv, Move
<1>1. \A u : Made(u) => Made(u)'
  BY MadeStays
<1>2. \A v : Entered(v) => Entered(v)'
  BY <1>1 DEF Entered
<1>3. events' \in 0 .. MaxEvents /\ events' = events + 1
  BY BoundAssumption DEF Happens, ClientsWell, TickWell
<1>4. Made(Update(p, made[p] + 1))
  BY <1>3, BoundAssumption DEF Made, Update, Updates, ClientsWell
<1>5. ClientsWell'
  BY <1>1, <1>3, <1>4 DEF ClientsWell
<1>6. TablesWell'
  BY <1>1, <1>2 DEF TablesWell, history
<1> QED
  BY <1>5, <1>6, FedOnly

LEMMA UpsertKeeps ==
  ASSUME AvatarInv, NEW u \in flying, Upsert(u)
  PROVE  AvatarInv'
<1> USE DEF AvatarInv, Upsert
<1>1. \A w : Made(w) => Made(w)'
  BY MadeStays
<1>2. \A v : Entered(v) => Entered(v)'
  BY <1>1 DEF Entered
<1>3. Made(u) /\ u \in Updates /\ u.peer \in Peer
  BY DEF Made, Updates, ClientsWell
<1>4. ClientsWell'
  BY <1>1 DEF ClientsWell
<1>5. TablesWell'
  BY <1>1, <1>2, <1>3 DEF TablesWell, history
<1> QED
  BY <1>4, <1>5, FedOnly

LEMMA CloseKeeps ==
  ASSUME AvatarInv, NEW p \in Peer, Close(p)
  PROVE  AvatarInv'
<1> USE DEF AvatarInv, Close, slices, tick, history
<1>1. \A w : Made(w) => Made(w)'
  BY MadeStays
<1>2. \A v : Entered(v) => Entered(v)'
  BY <1>1 DEF Entered
<1>3. events' \in 0 .. MaxEvents /\ events' = events + 1
  BY BoundAssumption DEF Happens, ClientsWell, TickWell
<1>4. ClientsWell'
  BY <1>1, <1>3 DEF ClientsWell, Leaving
<1>5. TickWell' /\ TablesWell' /\ SnapshotWell'
  BY <1>1, <1>2 DEF TickWell, TablesWell, SnapshotWell
<1>6. leave'[p] = "avatar" /\ \A q \in Peer \ {p} : leave'[q] = leave[q]
  BY DEF ClientsWell
<1>7. LateKnown'
  BY <1>6 DEF LateKnown, TooLate, TablesWell
<1>8. TrackingCleared' /\ TrackingTrue'
  BY <1>6 DEF TrackingCleared, TrackingTrue, Pairs
<1>9. InStep'
  <2>1. ASSUME NEW u, Made(u), StateKept(u)
        PROVE  StateKept(u)'
    BY <1>6, <2>1 DEF StateKept, Made, Updates
  <2> QED
    BY <2>1 DEF InStep, NotBefore, SnapshotWell, Entered, TablesWell
<1> QED
  BY <1>4, <1>5, <1>7, <1>8, <1>9

LEMMA RemovePlayerKeeps ==
  ASSUME AvatarInv, NEW p \in Peer, RemovePlayer(p)
  PROVE  AvatarInv'
<1> USE DEF AvatarInv, RemovePlayer, Remove, slices, tick
<1>1. \A w : Made(w) => Made(w)'
  BY MadeStays
<1>2. \A v : Entered(v) => Entered(v)'
  BY <1>1 DEF Entered
<1>3. /\ leave'[p] = "peer" /\ \A q \in Peer \ {p} : leave'[q] = leave[q]
      /\ states'[p] = None /\ \A q \in Peer \ {p} : states'[q] = states[q]
      /\ p \notin live
  BY DEF ClientsWell, TablesWell
<1>4. ClientsWell'
  BY <1>1 DEF ClientsWell, Leaving
<1>5. TickWell'
  BY <1>1 DEF TickWell
<1>6. TablesWell'
  BY <1>1, <1>2 DEF TablesWell
<1>7. SnapshotWell'
  BY <1>2, <1>3 DEF SnapshotWell, Entered, State, Updates
<1>8. LateKnown'
  BY <1>3 DEF LateKnown, TooLate, TablesWell
<1>9. TrackingCleared' /\ TrackingTrue'
  <2>1. /\ \A x \in Pairs : x[1] \in Peer /\ x[2] \in Peer
        /\ \A x \in Pairs : p \in {x[1], x[2]} => tracking'[x] = 0
        /\ \A x \in Pairs : p \notin {x[1], x[2]} => tracking'[x] = tracking[x]
    BY DEF Pairs
  <2>2. TrackingCleared'
    BY <1>3, <2>1 DEF TrackingCleared
  <2>3. TrackingTrue'
    BY <1>3, <2>1 DEF TrackingTrue
  <2> QED
    BY <2>2, <2>3
<1>10. InStep'
  <2>1. ASSUME NEW u, Made(u), StateKept(u)
        PROVE  StateKept(u)'
    BY <1>3, <2>1 DEF StateKept, Made, Updates
  <2>2. \A x \in Pairs : x[2] \in Peer
    BY DEF Pairs
  <2> QED
    BY <1>3, <2>1, <2>2 DEF InStep, NotBefore, SnapshotWell, Entered, TablesWell
<1> QED
  BY <1>4, <1>5, <1>6, <1>7, <1>8, <1>9, <1>10

LEMMA RemovePeerKeeps ==
  ASSUME AvatarInv, NEW p \in Peer, RemovePeer(p)
  PROVE  AvatarInv'
<1> USE DEF AvatarInv, RemovePeer, slices, tick, history
<1>1. \A w : Made(w) => Made(w)'
  BY MadeStays
<1>2. \A v : Entered(v) => Entered(v)'
  BY <1>1 DEF Entered
<1>3. /\ leave'[p] = "no" /\ \A q \in Peer \ {p} : leave'[q] = leave[q]
      /\ p \notin live
  BY DEF ClientsWell
<1>4. ClientsWell'
  BY <1>1 DEF ClientsWell, Leaving
<1>5. TickWell' /\ TablesWell' /\ SnapshotWell'
  BY <1>1, <1>2 DEF TickWell, TablesWell, SnapshotWell
<1>6. LateKnown'
  BY <1>3 DEF LateKnown, TooLate, TablesWell
<1>7. TrackingCleared' /\ TrackingTrue'
  BY <1>3 DEF TrackingCleared, TrackingTrue, Pairs
<1>8. InStep'
  <2>1. ASSUME NEW u, Made(u), StateKept(u)
        PROVE  StateKept(u)'
    BY <1>3, <2>1 DEF StateKept, Made, Updates
  <2> QED
    BY <2>1 DEF InStep, NotBefore, SnapshotWell, Entered, TablesWell
<1> QED
  BY <1>4, <1>5, <1>6, <1>7, <1>8

-----------------------------------------------------------------------------
(* The tick *)

LEMMA DrainKeeps ==
  ASSUME AvatarInv, Drain
  PROVE  AvatarInv'
<1> USE DEF AvatarInv, Drain, clients, slices, history
<1>1. \A w : Made(w) => Made(w)'
  BY MadeStays
<1>2. \A v : Entered(v) => Entered(v)'
  BY <1>1 DEF Entered
<1>3. ClientsWell'
  BY <1>1 DEF ClientsWell
<1>4. IsFiniteSet(updates')
  <2> DEFINE D == {q \in Peer : pending[q] # None}
             f == [q \in D |-> pending[q]]
  <2>1. IsFiniteSet(D)
    BY PeerAssumption, FS_Subset
  <2>2. f \in Surjection(D, updates')
    BY DEF Surjection
  <2> QED
    BY <2>1, <2>2, FS_Surjection
<1>5. TickWell'
  BY <1>1, <1>4 DEF TickWell, TablesWell
<1>6. TablesWell'
  BY <1>1, <1>2 DEF TablesWell
<1>7. SnapshotWell'
  BY <1>2 DEF SnapshotWell
<1>8. LateKnown' /\ TrackingCleared' /\ TrackingTrue'
  BY DEF LateKnown, TooLate, TrackingCleared, TrackingTrue
<1>9. InStep'
  BY DEF InStep, StateKept, NotBefore
<1> QED
  BY <1>3, <1>5, <1>6, <1>7, <1>8, <1>9

LEMMA CloneKeeps ==
  ASSUME AvatarInv, Clone
  PROVE  AvatarInv'
<1> USE DEF AvatarInv, Clone, CloneNext, clients, history
<1>1. \A w : Made(w) => Made(w)'
  BY MadeStays
<1>2. \A v : Entered(v) => Entered(v)'
  BY <1>1 DEF Entered
<1>3. ClientsWell' /\ TablesWell'
  BY <1>1, <1>2 DEF ClientsWell, TablesWell
<1>4. clones = {} /\ todo = {} /\ out = {}
  BY DEF TickWell
<1>5. CASE Cardinality(known) <= 1
  <2>1. TickWell'
    BY <1>1, <1>4, <1>5 DEF TickWell
  <2>2. SnapshotWell' /\ LateKnown' /\ TrackingCleared' /\ TrackingTrue'
    BY <1>2, <1>4, <1>5 DEF SnapshotWell, LateKnown, TooLate, TrackingCleared, TrackingTrue
  <2>3. InStep'
    BY <1>4, <1>5 DEF InStep, StateKept, NotBefore
  <2> QED
    BY <1>3, <2>1, <2>2, <2>3
<1>6. CASE ~(Cardinality(known) <= 1)
  <2> DEFINE S == {p \in known : states[p] # None}
  <2>1. clones' = {states[p] : p \in S} /\ todo' \subseteq S /\ pc' = "build" /\ out' = {}
    BY <1>4, <1>6 DEF Slice
  <2>2. slice_index' \in 0 .. (slice_count' - 1)
    <3>1. slice_index + 1 \in Nat /\ slice_count \in Nat \ {0}
      BY BoundAssumption DEF TickWell
    <3> QED
      BY <1>6, <3>1, Remainder
  <2>3. TickWell'
    BY <1>1, <1>6, <2>1, <2>2 DEF TickWell, ClientsWell
  <2>4. \A p \in S : p \in Peer /\ states[p].update.peer = p /\ Entered(states[p])
    BY DEF TablesWell, ClientsWell
  <2> HIDE DEF S
  <2>5. \A v \in clones' : v = states[v.update.peer] /\ v # None /\ Entered(v)
    BY <2>1, <2>4 DEF S
  <2>6. SnapshotWell'
    BY <1>2, <2>1, <2>5 DEF SnapshotWell
  <2>7. LateKnown' /\ TrackingCleared' /\ TrackingTrue'
    BY <1>4, <2>1 DEF LateKnown, TooLate, TrackingCleared, TrackingTrue
  <2>8. InStep'
    BY <2>5 DEF InStep, StateKept, NotBefore
  <2> QED
    BY <1>3, <2>3, <2>6, <2>7, <2>8
<1> QED
  BY <1>5, <1>6

LEMMA BuildKeeps ==
  ASSUME AvatarInv, NEW r \in todo, NEW skip \in SUBSET Peer, Build(r, skip)
  PROVE  AvatarInv'
<1> USE DEF AvatarInv
<1> DEFINE due == {v \in clones : v.update.peer \notin skip \cup {r}
                     /\ v.generation > tracking[<<r, v.update.peer>>]}
           told(x) == x[1] = r /\ \E v \in due : v.update.peer = x[2]
           what(x) == CHOOSE v \in due : v.update.peer = x[2]
<1>1. /\ pc = "build" /\ todo' = todo \ {r}
      /\ tracking' = [x \in Pairs |-> IF told(x) THEN what(x).generation ELSE tracking[x]]
      /\ out' = out \cup {<<r, v.update>> : v \in due}
      /\ stale' = (IF r \in live \/ leave[r] = "avatar" THEN stale ELSE stale \cup {r})
      /\ UNCHANGED <<clients, known, pending, states, generation, slices, pc, updates, clones,
                     heard, late, odd>>
  BY DEF Build
<1>2. due \subseteq clones
  OBVIOUS
<1>3. ASSUME NEW x \in Pairs, told(x)
      PROVE  /\ x[1] = r /\ what(x) \in due /\ what(x).update.peer = x[2]
             /\ what(x) \in clones /\ <<x[1], what(x).update>> \in out'
             /\ states[x[2]] # None => states[x[2]] = what(x)
  <2>1. what(x) \in due /\ what(x).update.peer = x[2]
    BY <1>3
  <2> HIDE DEF what, due
  <2> QED
    BY <1>1, <1>2, <1>3, <2>1 DEF SnapshotWell
<1> HIDE DEF due, told, what
<1> USE DEF clients, slices
<1>4. \A w : Made(w) => Made(w)'
  BY <1>1, MadeStays
<1>5. \A v : Entered(v) => Entered(v)'
  BY <1>1, <1>4 DEF Entered
<1>6. ClientsWell' /\ TickWell'
  BY <1>1, <1>4 DEF ClientsWell, TickWell
<1>7. TablesWell'
  <2>1. ASSUME NEW x \in Pairs
        PROVE  tracking'[x] \in Nat /\ tracking'[x] < generation
    BY <1>1, <1>3 DEF TablesWell, SnapshotWell, Entered, State
  <2>2. tracking' \in [Pairs -> Nat] /\ \A x \in Pairs : tracking'[x] < generation'
    BY <1>1, <2>1
  <2> QED
    BY <1>1, <1>4, <1>5, <2>2 DEF TablesWell
<1>8. SnapshotWell'
  <2>1. r \in Peer
    BY DEF TickWell
  <2> QED
    BY <1>1, <1>2, <1>5, <2>1 DEF SnapshotWell
<1>9. LateKnown'
  BY <1>1 DEF LateKnown, TooLate
<1>10. TrackingCleared'
  BY <1>1, <1>3 DEF TrackingCleared
<1>11. TrackingTrue'
  BY <1>1, <1>3 DEF TrackingTrue
<1>12. InStep'
  BY <1>1 DEF InStep, StateKept, NotBefore
<1> QED
  BY <1>6, <1>7, <1>8, <1>9, <1>10, <1>11, <1>12

\* What the flush gives a receiver is of the snapshot, and all it was owed of a sender.
LEMMA FlushHears ==
  ASSUME AvatarInv, NEW n, Flush(n), NEW x \in Pairs
  PROVE  \/ /\ heard'[x] = heard[x]
            /\ x[1] \in live => \A u : u.peer = x[2] => <<x[1], u>> \notin out
         \/ /\ x[1] \in live
            /\ \E v \in clones : /\ heard'[x] = v.update /\ v.update.peer = x[2]
                                 /\ <<x[1], v.update>> \in out
<1> USE DEF AvatarInv
<1> DEFINE S == {o \in out : o[1] = x[1] /\ o[2].peer = x[2] /\ o[1] \in live}
           given == CHOOSE o \in S : TRUE
<1>1. heard'[x] = IF S = {} THEN heard[x] ELSE given[2]
  BY DEF Flush, FlushThen
<1>2. CASE S = {}
  BY <1>1, <1>2
<1>3. CASE S # {}
  <2>1. given \in S
    BY <1>3
  <2> HIDE DEF given
  <2>2. PICK r \in Peer, v \in clones : given = <<r, v.update>>
    BY <2>1 DEF SnapshotWell
  <2> QED
    BY <1>1, <1>3, <2>1, <2>2
<1> QED
  BY <1>2, <1>3

LEMMA FlushKeeps ==
  ASSUME AvatarInv, NEW n \in 1 .. max_slices, Flush(n)
  PROVE  AvatarInv'
<1> USE DEF AvatarInv
<1>1. /\ pc = "build" /\ todo = {} /\ out' = {} /\ clones' = {} /\ pc' = "idle"
      /\ slice_count' = n /\ slice_index' = slice_index % n
      /\ UNCHANGED <<max_slices, clients, known, pending, states, generation, tracking, updates,
                     todo, late, odd, stale>>
  BY DEF Flush, FlushThen
<1> USE DEF clients
<1>2. \A w : Made(w) => Made(w)'
  BY <1>1, MadeStays
<1>3. \A v : Entered(v) => Entered(v)'
  BY <1>1, <1>2 DEF Entered
<1>4. ClientsWell'
  BY <1>1, <1>2 DEF ClientsWell
<1>5. TickWell'
  <2>1. slice_index' \in 0 .. (slice_count' - 1)
    <3>1. slice_index \in Nat /\ n \in Nat \ {0}
      BY BoundAssumption DEF TickWell
    <3> QED
      BY <1>1, <3>1, Remainder
  <2> QED
    BY <1>1, <1>2, <2>1 DEF TickWell
<1>6. ASSUME NEW x \in Pairs
      PROVE  \/ heard'[x] = heard[x]
             \/ \E v \in clones : heard'[x] = v.update /\ v.update.peer = x[2]
  BY FlushHears
<1>7. TablesWell'
  <2>1. heard' = [x \in Pairs |-> heard'[x]]
    BY DEF Flush, FlushThen
  <2>2. ASSUME NEW x \in Pairs
        PROVE  /\ heard'[x] \in Updates \cup {None}
               /\ heard'[x] # None => heard'[x].peer = x[2] /\ Made(heard'[x])
    BY <1>6 DEF TablesWell, SnapshotWell, Entered, Made
  <2>3. heard' \in [Pairs -> Updates \cup {None}]
    BY <2>1, <2>2
  <2> QED
    BY <1>1, <1>2, <1>3, <2>2, <2>3 DEF TablesWell
<1>8. SnapshotWell' /\ LateKnown' /\ TrackingCleared'
  BY <1>1 DEF SnapshotWell, LateKnown, TooLate, TrackingCleared
<1>9. TrackingTrue'
  <2> SUFFICES ASSUME NEW x \in Pairs, x[1] \in live \ stale, states[x[2]] # None,
                      tracking[x] >= states[x[2]].generation
               PROVE  heard'[x] = states[x[2]].update
    BY <1>1 DEF TrackingTrue
  <2>1. heard[x] = states[x[2]].update \/ <<x[1], states[x[2]].update>> \in out
    BY DEF TrackingTrue
  <2>2. x[2] \in Peer /\ states[x[2]].update.peer = x[2]
    BY DEF TablesWell, Pairs
  <2>3. CASE \E v \in clones : heard'[x] = v.update /\ v.update.peer = x[2]
    BY <2>3, <2>2 DEF SnapshotWell
  <2>4. CASE heard'[x] = heard[x] /\ (x[1] \in live => \A u : u.peer = x[2] => <<x[1], u>> \notin out)
    BY <2>1, <2>2, <2>4
  <2> QED
    BY <2>3, <2>4, FlushHears
<1>10. InStep'
  <2> SUFFICES ASSUME NEW x \in Pairs, heard'[x] # None
               PROVE  /\ StateKept(heard'[x])
                      /\ states[x[2]] # None => NotBefore(states[x[2]].update, heard'[x])
    BY <1>1 DEF InStep, StateKept, NotBefore
  <2>1. CASE heard'[x] = heard[x]
    BY <2>1 DEF InStep
  <2>2. CASE \E v \in clones : heard'[x] = v.update /\ v.update.peer = x[2]
    <3>1. PICK v \in clones : heard'[x] = v.update /\ v.update.peer = x[2]
      BY <2>2
    <3>2. v.update.n \in Nat /\ v.update.conn \in Nat
      BY DEF SnapshotWell, Entered, Made, Updates
    <3>3. ~Older(v.update, v.update)
      BY <3>2 DEF Older
    <3> QED
      BY <3>1, <3>3 DEF InStep, SnapshotWell, NotBefore
  <2> QED
    BY <1>6, <2>1, <2>2
<1> QED
  BY <1>4, <1>5, <1>7, <1>8, <1>9, <1>10

LEMMA ProcessKeeps ==
  ASSUME AvatarInv, Process
  PROVE  AvatarInv'
<1> USE DEF AvatarInv, clients, slices
<1> DEFINE entered == {u \in updates : states[u.peer] = None \/ Newer(u, states[u.peer].update)}
           Of(p)   == CHOOSE u \in entered : u.peer = p
           moved   == {u.peer : u \in entered}
           behind  == {p \in moved : TooLate(Of(p))}
           strays  == {u \in entered : u.peer \in behind
                         \/ (states[u.peer] # None /\ Astray(u, states[u.peer].update))}
<1>1. /\ pc = "process" /\ updates' = {} /\ pc' = "clone"
      /\ generation' = generation + Cardinality(updates)
      /\ states' = [p \in Peer |->
           IF p \in moved THEN [update |-> Of(p), generation |-> generation] ELSE states[p]]
      /\ late' = (late \ moved) \cup behind /\ odd' = odd \cup strays
      /\ UNCHANGED <<clients, known, pending, tracking, slices, clones, todo, out, heard, stale>>
  BY DEF Process, Enter
<1>2. ASSUME NEW p \in moved
      PROVE  /\ Of(p) \in updates /\ Of(p).peer = p /\ p \in Peer /\ Made(Of(p))
             /\ Of(p) \in entered
             /\ states[p] = None \/ Newer(Of(p), states[p].update)
             /\ p \in behind <=> TooLate(Of(p))
             /\ p \in behind => Of(p) \in strays
             /\ states[p] # None /\ Astray(Of(p), states[p].update) => Of(p) \in strays
  <2>1. Of(p) \in entered /\ Of(p).peer = p
    OBVIOUS
  <2> HIDE DEF Of
  <2>2. Of(p) \in updates /\ Made(Of(p)) /\ p \in Peer
    BY <2>1 DEF TickWell, Made, Updates
  <2> QED
    BY <2>1, <2>2
<1>3. clones = {} /\ todo = {} /\ out = {}
  BY <1>1 DEF TickWell
<1>4. moved # {} => Cardinality(updates) \in Nat \ {0}
  <2>1. Cardinality(updates) \in Nat /\ (Cardinality(updates) = 0 <=> updates = {})
    BY FS_CardinalityType, FS_EmptySet DEF TickWell
  <2> QED
    BY <2>1
<1>5. generation' \in Nat /\ generation' >= generation /\ (moved # {} => generation' > generation)
  BY <1>1, <1>4, FS_CardinalityType DEF TablesWell, TickWell
<1> HIDE DEF entered, Of, moved, behind, strays
<1>6. /\ \A p \in moved : states'[p] = [update |-> Of(p), generation |-> generation]
      /\ \A p \in Peer \ moved : states'[p] = states[p]
  BY <1>1, <1>2
<1>7. \A w : Made(w) => Made(w)'
  BY <1>1, MadeStays
<1>8. \A v : Entered(v) => Entered(v)'
  BY <1>1, <1>5, <1>7 DEF Entered, State, TablesWell
<1>9. ASSUME NEW p \in moved
      PROVE  /\ states'[p].update = Of(p) /\ states'[p].generation = generation
             /\ states'[p] \in State /\ Made(states'[p].update)
             /\ states'[p].generation < generation'
  <2>1. generation \in Nat \ {0} /\ generation < generation'
    BY <1>5 DEF TablesWell
  <2>2. Of(p) \in Updates /\ Made(Of(p))
    BY <1>2 DEF Made
  <2>3. states'[p] = [update |-> Of(p), generation |-> generation]
    BY <1>6
  <2> QED
    BY <2>1, <2>2, <2>3 DEF State
<1>10. ClientsWell'
  BY <1>1, <1>7 DEF ClientsWell
<1>11. TickWell'
  BY <1>1, <1>3, FS_EmptySet DEF TickWell
<1>12. TablesWell'
  <2>1. ASSUME NEW p \in Peer
        PROVE  /\ states'[p] \in State \cup {None}
               /\ states'[p] # None =>
                    /\ states'[p].update.peer = p /\ states'[p] \in State
                    /\ Made(states'[p].update) /\ states'[p].generation < generation'
    <3>1. CASE p \in moved
      BY <1>2, <1>9, <3>1
    <3>2. CASE p \notin moved
      BY <1>5, <1>6, <3>2 DEF TablesWell, Entered, State
    <3> QED
      BY <3>1, <3>2
  <2>2. states' \in [Peer -> State \cup {None}]
    BY <1>1, <2>1
  <2> QED
    BY <1>1, <1>5, <1>7, <2>1, <2>2 DEF TablesWell, Entered, Made
<1>13. SnapshotWell'
  BY <1>1, <1>3 DEF SnapshotWell
<1>14. LateKnown'
  <2> SUFFICES ASSUME NEW p \in Peer, states'[p] # None, TooLate(states'[p].update)
               PROVE  p \in late' /\ states'[p].update \in odd'
    BY <1>1 DEF LateKnown, TooLate
  <2>2. CASE p \in moved
    BY <1>1, <1>2, <1>9, <2>2
  <2>3. CASE p \notin moved
    BY <1>1, <1>6, <2>3 DEF LateKnown
  <2> QED
    BY <2>2, <2>3
<1>15. TrackingCleared'
  BY <1>1 DEF TrackingCleared
<1>16. TrackingTrue'
  <2> SUFFICES ASSUME NEW x \in Pairs, x[1] \in live \ stale, states'[x[2]] # None,
                      tracking[x] >= states'[x[2]].generation
               PROVE  heard[x] = states'[x[2]].update \/ <<x[1], states'[x[2]].update>> \in out
    BY <1>1 DEF TrackingTrue
  <2>1. x[2] \in Peer /\ x[2] \notin moved
    <3>1. tracking[x] \in Nat /\ generation \in Nat /\ tracking[x] < generation
      BY DEF TablesWell
    <3>2. ASSUME x[2] \in moved PROVE states'[x[2]].generation = generation
      BY <1>9, <3>2
    <3> QED
      BY <3>1, <3>2 DEF Pairs
  <2> QED
    BY <1>6, <2>1 DEF TrackingTrue
<1>17. InStep'
  <2>1. ASSUME NEW u \in Updates, StateKept(u)
        PROVE  StateKept(u)'
    <3>1. u.peer \in Peer
      BY DEF Updates
    <3>2. CASE u.peer \in moved
      BY <1>1, <1>9, <3>2, NoneAssumption DEF StateKept, State
    <3>3. CASE u.peer \notin moved
      BY <1>1, <1>6, <2>1, <3>1, <3>3 DEF StateKept
    <3> QED
      BY <3>2, <3>3
  <2> SUFFICES ASSUME NEW x \in Pairs, heard[x] # None, states'[x[2]] # None
               PROVE  states'[x[2]].update \in odd' \/ ~Older(states'[x[2]].update, heard[x])
    BY <1>1, <1>3, <2>1 DEF InStep, NotBefore, TablesWell, Made
  <2> DEFINE p == x[2]
             u == Of(p)
             v == states[p].update
             w == heard[x]
  <2>2. p \in Peer /\ w \in Updates /\ w.peer = p /\ w.conn <= conn[p] /\ StateKept(w)
    BY DEF Pairs, TablesWell, Made, InStep
  <2>3. CASE p \notin moved
    BY <1>1, <1>6, <2>2, <2>3 DEF InStep, NotBefore
  <2>4. CASE p \in moved
    <3>1. states'[p].update = u /\ u \in Updates /\ u.peer = p
      BY <1>2, <1>9, <2>4 DEF Made
    <3> SUFFICES ASSUME u \notin strays, Older(u, w)
                 PROVE  FALSE
      BY <1>1, <3>1
    <3>2. ~TooLate(u)
      BY <1>2, <2>4
    <3>3. /\ u.conn = conn[p] /\ (p \in live \/ leave[p] = "avatar")
          /\ u.conn \in Nat /\ w.conn \in Nat /\ u.n \in Nat /\ w.n \in Nat
      BY <2>2, <3>1, <3>2 DEF TooLate, Updates
    <3>4. w.conn = conn[p] /\ u.n < w.n /\ states[p] # None
      BY <2>2, <3>3 DEF Older, StateKept
    <3>5. v \in Updates /\ v.n \in Nat /\ Newer(u, v) /\ ~Astray(u, v)
      BY <1>2, <2>2, <2>4, <3>4 DEF TablesWell, State, Updates
    <3>6. v \notin odd
      BY <2>2, <3>1, <3>3, <3>4, <3>5 DEF Astray
    <3>7. v.conn = conn[p]
      BY <2>2, <3>4, <3>6 DEF LateKnown, TooLate, TablesWell
    <3>8. v.n <= u.n
      BY <3>1, <3>3, <3>5, <3>7, NewerIsAfter DEF Astray, Updates
    <3>9. ~Older(v, w)
      BY <2>2, <3>4, <3>6 DEF InStep, NotBefore
    <3> QED
      BY <3>3, <3>4, <3>5, <3>7, <3>8, <3>9 DEF Older
  <2> QED
    BY <2>3, <2>4
<1> QED
  BY <1>10, <1>11, <1>12, <1>13, <1>14, <1>15, <1>16, <1>17

-----------------------------------------------------------------------------
(* The theorems *)

LEMMA StutterKeeps ==
  ASSUME AvatarInv, UNCHANGED vars
  PROVE  AvatarInv'
<1> USE DEF vars, clients, slices, tick, history, AvatarInv
<1>1. \A u : Made(u) => Made(u)'
  BY MadeStays
<1>2. ClientsWell'
  BY <1>1 DEF ClientsWell
<1>3. \A v : Entered(v) => Entered(v)'
  BY <1>1 DEF Entered
<1>4. TablesWell'
  BY <1>1, <1>3 DEF TablesWell
<1> QED
  BY <1>2, <1>4, FedOnly

LEMMA NextKeeps == AvatarInv /\ [Next]_vars => AvatarInv'
<1> SUFFICES ASSUME AvatarInv, [Next]_vars
             PROVE  AvatarInv'
  OBVIOUS
<1>1. CASE UNCHANGED vars
  BY <1>1, StutterKeeps
<1>2. ASSUME NEW p \in Peer,
             \/ Connect(p) \/ CacheInitial(p) \/ Move(p) \/ Close(p)
             \/ RemovePlayer(p) \/ RemovePeer(p)
      PROVE  AvatarInv'
  BY <1>2, ConnectKeeps, CacheInitialKeeps, MoveKeeps, CloseKeeps, RemovePlayerKeeps,
     RemovePeerKeeps
<1>3. ASSUME NEW u \in flying, Upsert(u)
      PROVE  AvatarInv'
  BY <1>3, UpsertKeeps
<1>4. CASE Tick
  <2>1. ASSUME NEW r \in todo, NEW skip \in SUBSET Peer, Build(r, skip)
        PROVE  AvatarInv'
    BY <2>1, BuildKeeps
  <2>2. ASSUME NEW n \in 1 .. max_slices, Flush(n)
        PROVE  AvatarInv'
    BY <2>2, FlushKeeps
  <2> QED
    BY <1>4, <2>1, <2>2, DrainKeeps, ProcessKeeps, CloneKeeps DEF Tick
<1> QED
  BY <1>1, <1>2, <1>3, <1>4 DEF Next

(* Every reachable state satisfies the inductive invariant.                 *)
THEOREM AvatarInvariant == Spec => []AvatarInv
<1> QED
  BY InitHolds, NextKeeps, PTL DEF Spec

(* Type correctness: the tables hold updates of the players they are filed   *)
(* under, with generations that were given out, and the slice that is next   *)
(* exists whatever advance_slice_state and adapt_slice_count did to it.      *)
THEOREM AvatarTyped == Spec => []AvatarTypeOK
<1>1. AvatarInv => AvatarTypeOK
  BY DEF AvatarInv, ClientsWell, TickWell, TablesWell, Made, Entered, State, AvatarTypeOK
<1> QED
  BY <1>1, AvatarInvariant, PTL

(* What a connection leaves behind does not mute the next one with its id:   *)
(* remove_player clears what was sent to and from the player, and only a     *)
(* late message or a tick that was under way puts anything back.             *)
THEOREM NobodyIsMuted == Spec => []NoneMuted
<1>1. AvatarInv => NoneMuted
  BY DEF AvatarInv, LateKnown, TooLate, TablesWell, TickWell, ClientsWell, TrackingTrue, NoneMuted
<1> QED
  BY <1>1, AvatarInvariant, PTL

\* Only a connection of the receiver and a flush change what was heard.
LEMMA StepsForward ==
  ASSUME AvatarInv, [Next]_vars, NEW x \in Pairs, heard[x] # None, heard'[x] # None
  PROVE  ~Older(heard'[x], heard[x]) \/ heard'[x] \in odd
<1> USE DEF AvatarInv
<1>1. ASSUME NEW u, Made(u) PROVE ~Older(u, u)
  BY <1>1 DEF Made, Updates, Older
<1>2. CASE heard'[x] = heard[x]
  BY <1>1, <1>2 DEF TablesWell
<1>3. CASE UNCHANGED vars
  BY <1>2, <1>3 DEF vars, history
<1>4. ASSUME NEW p \in Peer,
             \/ Connect(p) \/ CacheInitial(p) \/ Move(p) \/ Close(p)
             \/ RemovePlayer(p) \/ RemovePeer(p)
      PROVE  heard'[x] = heard[x]
  <2>1. CASE Connect(p)
    BY <2>1 DEF Connect
  <2> QED
    BY <1>4, <2>1 DEF CacheInitial, Move, Close, RemovePlayer, Remove, RemovePeer, history
<1>5. ASSUME NEW u \in flying, Upsert(u)
      PROVE  heard'[x] = heard[x]
  BY <1>5 DEF Upsert, history
<1>6. ASSUME NEW n \in 1 .. max_slices, Flush(n)
      PROVE  ~Older(heard'[x], heard[x]) \/ heard'[x] \in odd
  BY <1>2, <1>6, FlushHears DEF InStep, NotBefore
<1>7. ASSUME Drain \/ Process \/ Clone \/ \E r \in todo, skip \in SUBSET Peer : Build(r, skip)
      PROVE  heard'[x] = heard[x]
  BY <1>7 DEF Drain, Process, Enter, Clone, CloneNext, Build, history
<1> QED
  BY <1>2, <1>3, <1>4, <1>5, <1>6, <1>7 DEF Next, Tick

(* No receiver is shown an older pose of a player after a newer one, but for *)
(* the updates that went astray: process_pending_updates compares with what  *)
(* it entered before, build_sends_for_receiver sends what is newer than what *)
(* was sent, and what the snapshot of a tick holds was not overtaken by it.  *)
THEOREM NobodyStepsBack == Spec => NoStepBack
<1>1. AvatarInv /\ [Next]_vars =>
        [\A x \in Pairs : heard[x] # None /\ heard'[x] # None =>
            ~Older(heard'[x], heard[x]) \/ heard'[x] \in odd]_vars
  BY StepsForward
<1> QED
  BY <1>1, AvatarInvariant, PTL DEF Spec, NoStepBack

-----------------------------------------------------------------------------
(* Bundles: chunks. *)

\* Every set of numbers has a least one, and a set of numbers up to b a greatest one.
LEMMA LeastNumber ==
  ASSUME NEW T \in SUBSET Nat, T # {}
  PROVE  \E x \in T : \A y \in T : x <= y
<1> DEFINE R == {ss \in Nat \X Nat : ss[1] < ss[2]}
<1>1. IsWellFoundedOn(R, Nat)
  BY NatLessThanWellFounded DEF OpToRel
<1> HIDE DEF R
<1>2. PICK x \in T : \A y \in T : <<y, x>> \notin R
  BY <1>1, WFMin
<1>3. \A y \in T : x <= y
  <2> TAKE y \in T
  <2>1. <<y, x>> \notin R
    BY <1>2
  <2> QED
    BY <2>1 DEF R
<1> QED
  BY <1>3

LEMMA GreatestNumber ==
  ASSUME NEW b \in Nat, NEW S \in SUBSET (0 .. b), S # {}
  PROVE  \E x \in S : \A y \in S : y <= x
<1> DEFINE T == {b - x : x \in S}
<1>0. \A x \in S : b - x \in Nat
  OBVIOUS
<1>1. T \in SUBSET Nat /\ T # {}
  BY <1>0, Zenon
<1>2. PICK t \in T : \A s \in T : t <= s
  BY <1>1, LeastNumber
<1>3. PICK x \in S : t = b - x
  BY <1>2
<1>4. \A y \in S : b - x <= b - y
  BY <1>2, <1>3
<1> QED
  BY <1>3, <1>4

-----------------------------------------------------------------------------
(* Bundles: the inductive invariant. *)

\* A packet or bundle that is sent holds at least one packet, and no more bytes or items
\* than it may.
Load == {s \in [from : Nat, to : Nat, bundled : BOOLEAN, raw_len : 0 .. RawMax] :
           s.from < s.to /\ s.to - s.from <= (IF s.bundled THEN BundleMax ELSE 1)}

BundleTyped ==
  /\ batch \in Batches
  /\ phase \in {"attempt", "retry", "tail", "sent"}
  /\ cursor \in 0 .. count /\ chunk_end \in 0 .. count
  /\ sent \in Seq(Load)

\* What is sent follows one after the other, up to the cursor.
SentInOrder ==
  /\ \A i \in 1 .. Len(sent) : sent[i].to <= cursor
  /\ \A i, j \in 1 .. Len(sent) : i < j => sent[i].to <= sent[j].from
  /\ \A n \in 1 .. cursor : \E i \in 1 .. Len(sent) : sent[i].from < n /\ n <= sent[i].to

BundleInv ==
  /\ BundleTyped /\ SentInOrder
  /\ phase = "retry" => cursor < chunk_end
  /\ phase = "sent" => cursor = count

\* A chunk ends behind the cursor, where there is anything behind it.
LEMMA PickedEnd ==
  ASSUME cursor \in Nat, NEW hard_end \in Nat, cursor < hard_end, NEW target
  PROVE  pick_bundle_chunk_end(hard_end, target) \in cursor + 1 .. hard_end
<1> DEFINE Ends == PickedEnds(hard_end, target)
           Ok(end) == end + 1 \notin Ends
<1>1. Ends \in SUBSET (0 .. hard_end) /\ Ends # {} /\ \A end \in Ends : end \in cursor + 1 .. hard_end
  BY DEF PickedEnds
<1>2. PICK last \in Ends : \A end \in Ends : end <= last
  BY <1>1, GreatestNumber
<1>3. Ok(last)
  BY <1>1, <1>2
<1>4. pick_bundle_chunk_end(hard_end, target) = CHOOSE end \in Ends : Ok(end)
  BY DEF pick_bundle_chunk_end
<1> HIDE DEF Ends, Ok
<1>5. (CHOOSE end \in Ends : Ok(end)) \in Ends
  BY <1>2, <1>3
<1> QED
  BY <1>1, <1>4, <1>5

LEMMA BundleInvStarts == BundleInit => BundleInv
BY BatchAssumption DEF BundleInit, BundleInv, BundleTyped, SentInOrder, count

\* What sending the packets up to another one keeps
LEMMA SendKept ==
  ASSUME BundleTyped, SentInOrder, UNCHANGED <<batch, chunk_end>>,
         NEW end \in cursor + 1 .. count, ~ TooMany(cursor, end),
         sent' = Append(sent, Bundled(cursor, end)), cursor' = end,
         phase' \in {"attempt", "retry", "tail", "sent"}
  PROVE  BundleTyped' /\ SentInOrder'
<1> DEFINE load == Bundled(cursor, end)
<1>0. count \in Nat /\ count' = count
  BY BatchAssumption DEF BundleTyped, count
<1>1. load \in Load /\ load.from = cursor /\ load.to = end
  BY <1>0, BundleAssumption DEF Load, Bundled, TooMany, BundleTyped
<1>2. sent \in Seq(Load) /\ Len(sent) \in Nat /\ sent' = Append(sent, load)
  BY DEF BundleTyped
<1> HIDE DEF load
<1>3. /\ sent' \in Seq(Load) /\ Len(sent') = Len(sent) + 1 /\ sent'[Len(sent) + 1] = load
      /\ \A i \in 1 .. Len(sent) : sent'[i] = sent[i]
  BY <1>1, <1>2
<1>4. BundleTyped'
  BY <1>0, <1>3 DEF BundleTyped
<1>5. ASSUME NEW n \in 1 .. end
      PROVE  \E i \in 1 .. Len(sent') : sent'[i].from < n /\ n <= sent'[i].to
  <2>1. CASE n <= cursor
    <3>0. n \in 1 .. cursor
      BY <1>0, <2>1 DEF BundleTyped
    <3>1. PICK i \in 1 .. Len(sent) : sent[i].from < n /\ n <= sent[i].to
      BY <3>0 DEF SentInOrder
    <3>2. i \in 1 .. Len(sent') /\ sent'[i] = sent[i]
      BY <1>2, <1>3
    <3> QED
      BY <3>1, <3>2
  <2>2. CASE ~ n <= cursor
    BY <1>0, <1>1, <1>2, <1>3, <2>2 DEF BundleTyped
  <2> QED
    BY <2>1, <2>2
<1>6. \A i \in 1 .. Len(sent') : sent'[i].to <= end
  <2>1. \A i \in 1 .. Len(sent) : sent[i].to \in Nat /\ sent[i].to <= cursor
    BY <1>2 DEF SentInOrder, Load
  <2> QED
    BY <1>0, <1>1, <1>2, <1>3, <2>1 DEF BundleTyped
<1>7. ASSUME NEW i \in 1 .. Len(sent'), NEW j \in 1 .. Len(sent'), i < j
      PROVE  sent'[i].to <= sent'[j].from
  BY <1>1, <1>2, <1>3, <1>7 DEF SentInOrder
<1> QED
  BY <1>4, <1>5, <1>6, <1>7 DEF SentInOrder

LEMMA TailKept ==
  ASSUME BundleInv, SendTail PROVE BundleInv'
<1> DEFINE k == count - cursor
           rest == [i \in 1 .. k |-> Direct(cursor + i)]
<1>0. count \in Nat /\ count' = count /\ cursor \in Nat /\ k \in Nat /\ cursor + k = count
  BY BatchAssumption DEF BundleInv, BundleTyped, SendTail, count
<1>1. \A i \in 1 .. k : Direct(cursor + i) \in Load /\ rest[i].from = cursor + i - 1 /\ rest[i].to = cursor + i
  BY <1>0, BundleAssumption DEF Direct, Load
<1>2. rest \in Seq(Load) /\ Len(rest) = k
  BY <1>0, <1>1
<1>3. sent' = sent \o rest /\ cursor' = count /\ phase' = "sent" /\ UNCHANGED <<batch, chunk_end>>
  BY DEF SendTail
<1> HIDE DEF k, rest
<1>4. sent \in Seq(Load) /\ Len(sent) \in Nat
  BY DEF BundleInv, BundleTyped
<1>5. /\ sent' \in Seq(Load) /\ Len(sent') = Len(sent) + k
      /\ \A i \in 1 .. Len(sent) : sent'[i] = sent[i]
      /\ \A i \in 1 .. k : sent'[Len(sent) + i] = rest[i]
  <2>1. /\ sent' \in Seq(Load) /\ Len(sent') = Len(sent) + k
        /\ \A i \in 1 .. Len(sent) + k : sent'[i] = IF i <= Len(sent) THEN sent[i] ELSE rest[i - Len(sent)]
    BY <1>2, <1>3, <1>4, ConcatProperties
  <2>2. \A i \in 1 .. Len(sent) : sent'[i] = sent[i]
    BY <1>0, <1>4, <2>1
  <2>3. ASSUME NEW i \in 1 .. k PROVE sent'[Len(sent) + i] = rest[i]
    <3>1. Len(sent) + i \in 1 .. Len(sent) + k /\ ~ (Len(sent) + i <= Len(sent)) /\ Len(sent) + i - Len(sent) = i
      BY <1>0, <1>4
    <3> QED
      BY <2>1, <3>1
  <2> QED
    BY <2>1, <2>2, <2>3
<1>6. BundleTyped'
  BY <1>0, <1>3, <1>5 DEF BundleInv, BundleTyped
<1>7. \A i \in 1 .. Len(sent) : /\ sent[i].to <= cursor /\ sent[i].to \in Nat /\ sent[i].from \in Nat
  BY <1>4 DEF BundleInv, SentInOrder, Load
<1>8. \A i \in 1 .. Len(sent') : i \in 1 .. Len(sent) \/ \E m \in 1 .. k : i = Len(sent) + m
  <2> TAKE i \in 1 .. Len(sent')
  <2>1. CASE i > Len(sent)
    <3>1. i - Len(sent) \in 1 .. k /\ i = Len(sent) + (i - Len(sent))
      BY <1>0, <1>4, <1>5, <2>1
    <3> QED
      BY <3>1
  <2> QED
    BY <1>4, <1>5, <2>1
<1>9. \A i \in 1 .. Len(sent') : sent'[i].to <= count
  <2>1. \A i \in 1 .. Len(sent) : sent'[i].to <= count
    BY <1>0, <1>5, <1>7
  <2>2. ASSUME NEW m \in 1 .. k PROVE sent'[Len(sent) + m].to <= count
    <3>1. sent'[Len(sent) + m].to = cursor + m
      BY <1>1, <1>5
    <3> QED
      BY <1>0, <3>1
  <2> QED
    BY <1>8, <2>1, <2>2
<1>10. ASSUME NEW i \in 1 .. Len(sent'), NEW j \in 1 .. Len(sent'), i < j
       PROVE  sent'[i].to <= sent'[j].from
  <2>1. CASE j \in 1 .. Len(sent)
    <3>1. i \in 1 .. Len(sent)
      BY <1>4, <1>10, <2>1
    <3> QED
      BY <1>5, <1>10, <2>1, <3>1 DEF BundleInv, SentInOrder
  <2>2. ASSUME NEW m \in 1 .. k, j = Len(sent) + m PROVE sent'[i].to <= sent'[j].from
    <3>1. sent'[j].from = cursor + m - 1
      BY <1>1, <1>5, <2>2
    <3>2. CASE i \in 1 .. Len(sent)
      BY <1>0, <1>5, <1>7, <3>1, <3>2
    <3>3. ASSUME NEW l \in 1 .. k, i = Len(sent) + l PROVE sent'[i].to <= sent'[j].from
      <4>1. sent'[i].to = cursor + l /\ l < m
        BY <1>1, <1>4, <1>5, <1>10, <2>2, <3>3
      <4> QED
        BY <1>0, <3>1, <4>1
    <3> QED
      BY <1>8, <3>2, <3>3
  <2> QED
    BY <1>8, <2>1, <2>2
<1>11. ASSUME NEW n \in 1 .. count
       PROVE  \E i \in 1 .. Len(sent') : sent'[i].from < n /\ n <= sent'[i].to
  <2>1. CASE n <= cursor
    <3>1. PICK i \in 1 .. Len(sent) : sent[i].from < n /\ n <= sent[i].to
      BY <1>0, <2>1 DEF BundleInv, SentInOrder
    <3> QED
      BY <1>0, <1>4, <1>5, <3>1
  <2>2. CASE ~ n <= cursor
    <3> DEFINE m == n - cursor
    <3>1. m \in 1 .. k /\ cursor + m = n
      BY <1>0, <2>2
    <3> HIDE DEF m
    <3>2. sent'[Len(sent) + m].from = n - 1 /\ sent'[Len(sent) + m].to = n
      <4>1. sent'[Len(sent) + m].from = cursor + m - 1 /\ sent'[Len(sent) + m].to = cursor + m
        BY <1>1, <1>5, <3>1
      <4> QED
        BY <1>0, <3>1, <4>1
    <3>3. Len(sent) + m \in 1 .. Len(sent')
      BY <1>0, <1>4, <1>5, <3>1
    <3> QED
      BY <1>0, <3>2, <3>3
  <2> QED
    BY <2>1, <2>2
<1> QED
  BY <1>0, <1>3, <1>6, <1>9, <1>10, <1>11 DEF BundleInv, SentInOrder

LEMMA BundleInvKept == BundleInv /\ [BundleNext]_bundleVars => BundleInv'
<1> SUFFICES ASSUME BundleInv, [BundleNext]_bundleVars PROVE BundleInv'
  OBVIOUS
<1>0. BundleTyped /\ SentInOrder /\ count \in Nat /\ cursor \in Nat /\ chunk_end \in Nat /\ cursor <= count /\ chunk_end <= count
  BY BatchAssumption DEF BundleInv, BundleTyped, count
<1>1. ASSUME NEW target \in Targets, NEW fits \in BOOLEAN, Attempt(target, fits) PROVE BundleInv'
  <2> DEFINE end == pick_bundle_chunk_end(count, target)
  <2>1. /\ phase = "attempt" /\ Sized(end) /\ ~ TooMany(cursor, end) /\ UNCHANGED batch
        /\ IF fits THEN /\ sent' = Append(sent, Bundled(cursor, end)) /\ cursor' = end
                        /\ UNCHANGED <<phase, chunk_end>>
                   ELSE /\ phase' = "retry" /\ chunk_end' = end /\ UNCHANGED <<sent, cursor>>
    BY <1>1 DEF Attempt
  <2>2. end \in cursor + 1 .. count
    <3>1. cursor >= count => ~ Sized(end)
      BY <1>0 DEF pick_bundle_chunk_end, Sized
    <3> QED
      BY <1>0, <2>1, <3>1, PickedEnd
  <2> HIDE DEF end
  <2>3. CASE fits
    BY <1>0, <2>1, <2>2, <2>3, SendKept DEF BundleInv
  <2>4. CASE ~ fits
    BY <1>0, <2>1, <2>2, <2>4 DEF BundleInv, BundleTyped, SentInOrder, count
  <2> QED
    BY <2>3, <2>4
<1>2. ASSUME NEW target \in Targets, Retry(target) PROVE BundleInv'
  <2> DEFINE end == RetryEnd(target)
  <2>1. cursor < chunk_end
    BY <1>2 DEF Retry, BundleInv
  <2>2. end \in cursor + 1 .. chunk_end
    <3> DEFINE picked == pick_bundle_chunk_end(chunk_end, target)
               third  == ((chunk_end - cursor) * 3) \div 4
    <3>1. picked \in cursor + 1 .. chunk_end
      BY <1>0, <2>1, PickedEnd
    <3>2. third \in Nat /\ third <= chunk_end - cursor
      BY <1>0, <2>1
    <3>3. end = IF picked < chunk_end THEN picked ELSE cursor + (IF third > 1 THEN third ELSE 1)
      BY DEF RetryEnd
    <3> HIDE DEF picked, third, end
    <3> QED
      BY <1>0, <2>1, <3>1, <3>2, <3>3
  <2>3. /\ phase' = "attempt" /\ ~ TooMany(cursor, end) /\ UNCHANGED <<batch, chunk_end>>
        /\ sent' = Append(sent, Bundled(cursor, end)) /\ cursor' = end
    BY <1>2 DEF Retry
  <2> HIDE DEF end
  <2>4. end \in cursor + 1 .. count
    BY <1>0, <2>2
  <2> QED
    BY <1>0, <2>3, <2>4, SendKept DEF BundleInv
<1>3. ASSUME NEW target \in Targets, Break(target) PROVE BundleInv'
  BY <1>0, <1>3 DEF Break, BundleInv, BundleTyped, SentInOrder, count
<1>4. CASE GiveUp
  BY <1>0, <1>4 DEF GiveUp, BundleInv, BundleTyped, SentInOrder, count
<1>5. CASE SendTail
  BY <1>5, TailKept
<1>6. CASE UNCHANGED bundleVars
  BY <1>6 DEF bundleVars, BundleInv, BundleTyped, SentInOrder, count
<1> QED
  BY <1>1, <1>2, <1>3, <1>4, <1>5, <1>6 DEF BundleNext

LEMMA BundleInvMeans == BundleInv => BundlesWhole
<1> SUFFICES ASSUME BundleInv PROVE BundlesWhole
  OBVIOUS
<1>1. /\ count \in Nat /\ cursor \in 0 .. count /\ sent \in Seq(Load) /\ DOMAIN sent = 1 .. Len(sent)
      /\ \A i \in 1 .. Len(sent) : sent[i] \in Load /\ sent[i].from \in Nat /\ sent[i].to \in Nat
  BY BatchAssumption DEF BundleInv, BundleTyped, count, Load
<1>2. \A i, j \in 1 .. Len(sent) : i < j => sent[i].to <= sent[j].from
  BY DEF BundleInv, SentInOrder
<1>3. ASSUME NEW n \in 1 .. count, n <= cursor PROVE \E i \in DOMAIN sent : Carriers(n) = {i}
  <2>1. PICK i \in 1 .. Len(sent) : sent[i].from < n /\ n <= sent[i].to
    BY <1>1, <1>3 DEF BundleInv, SentInOrder
  <2>2. ASSUME NEW j \in 1 .. Len(sent), sent[j].from < n, n <= sent[j].to PROVE j = i
    <3>1. ~ (i < j) /\ ~ (j < i)
      BY <1>1, <1>2, <2>1, <2>2
    <3> QED
      BY <1>1, <3>1
  <2> QED
    BY <1>1, <2>1, <2>2 DEF Carriers
<1>4. ASSUME NEW n \in 1 .. count, ~ n <= cursor PROVE Carriers(n) = {}
  <2>1. \A i \in DOMAIN sent : sent[i].to <= cursor /\ sent[i].to \in Nat
    BY <1>1 DEF BundleInv, SentInOrder
  <2> QED
    BY <1>1, <1>4, <2>1 DEF Carriers
<1>5. \A i \in DOMAIN sent :
        /\ sent[i].to - sent[i].from <= (IF sent[i].bundled THEN BundleMax ELSE 1)
        /\ sent[i].raw_len <= RawMax
  BY <1>1, BundleAssumption DEF Load
<1> QED
  BY <1>1, <1>2, <1>3, <1>4, <1>5 DEF BundlesWhole, BundleInv

\* However many packets a tick has for a receiver, whatever the compression makes of them
\* and however the chunks are cut and tried again: each packet is sent once, in order,
\* alone or in a bundle that its header can describe, and none is left behind.
THEOREM EachPacketOnce == BundleSpec => []BundlesWhole
<1> QED
  BY BundleInvStarts, BundleInvKept, BundleInvMeans, PTL DEF BundleSpec

-----------------------------------------------------------------------------
(* Repacked rotations *)

Bits == INSTANCE AvatarBits

LEMMA Quotient == ASSUME NEW a \in Nat, NEW S \in Nat \ {0}
  PROVE  a \div S \in Nat /\ S * (a \div S) <= a /\ a < S * (a \div S) + S
<1> DEFINE q == a \div S  r == a % S  m == S * q
<1>1. q \in Int /\ r \in 0 .. (S - 1) /\ a = m + r
  OBVIOUS
<1> HIDE DEF q, r
<1>2. m \in Int
  BY <1>1
<1>3. q <= -1 => m <= -S
  BY <1>1
<1> HIDE DEF m
<1>4. q \in Nat /\ m <= a /\ a < m + S
  BY <1>1, <1>2, <1>3
<1> QED
  BY <1>4 DEF m, q

(* What rescale_quant makes of a component fits the smaller size and is at most half *)
(* a step off, whatever the two sizes are. (The premises say that sizes are counted  *)
(* in bits, of which there is at least one to begin with.)                           *)
THEOREM RescaledIsNearest ==
  ASSUME NEW src_bits, NEW dst_bits,
         2 ^ src_bits - 1 \in Nat \ {0}, 2 ^ dst_bits - 1 \in Nat,
         NEW value \in 0 .. (2 ^ src_bits - 1)
  PROVE  LET src  == 2 ^ src_bits - 1
             dst  == 2 ^ dst_bits - 1
             seen == Bits!rescale_quant(value, src_bits, dst_bits)
         IN /\ seen \in 0 .. dst
            /\ 2 * (seen * src - value * dst) \in (-src) .. src
<1> DEFINE src == 2 ^ src_bits - 1
           dst == 2 ^ dst_bits - 1
           half == src \div 2
           a == value * dst + half
           q == a \div src
<1>1. src \in Nat \ {0} /\ dst \in Nat /\ value \in 0 .. src
  OBVIOUS
<1>2. Bits!rescale_quant(value, src_bits, dst_bits) = IF src_bits = dst_bits THEN value ELSE q
  BY Zenon DEF Bits!rescale_quant
<1>3. src_bits = dst_bits => src = dst
  OBVIOUS
<1> SUFFICES LET seen == IF src_bits = dst_bits THEN value ELSE q
             IN seen \in 0 .. dst /\ 2 * (seen * src - value * dst) \in (-src) .. src
  BY <1>2, Zenon
<1> HIDE DEF src, dst
<1>4. half \in Nat /\ 2 * half <= src /\ src <= 2 * half + 1
  BY <1>1
<1>5. value * dst \in Nat /\ value * dst <= src * dst /\ src * dst \in Nat
  <2>1. value \in Nat /\ src - value \in Nat /\ dst \in Nat
    BY <1>1
  <2>2. value * dst \in Nat /\ (src - value) * dst \in Nat
    BY <2>1
  <2>3. src * dst = value * dst + (src - value) * dst
    BY <1>1
  <2> QED
    BY <2>2, <2>3
<1> HIDE DEF half
<1>6. a \in Nat
  BY <1>4, <1>5
<1>7. q \in Nat /\ src * q <= a /\ a < src * q + src
  BY <1>1, <1>6, Quotient
<1>8. CASE src_bits = dst_bits
  <2>1. value * src - value * dst = 0
    BY <1>1, <1>3, <1>8
  <2> QED
    BY <1>1, <1>3, <1>8, <2>1
<1>9. CASE src_bits # dst_bits
  <2> DEFINE v == value * dst  m == src * q
  <2>1. /\ v \in Nat /\ m \in Nat /\ m <= v + half /\ v + half < m + src /\ v <= src * dst
        /\ q * src = m
    BY <1>1, <1>5, <1>7
  <2>2. q <= dst
    <3> SUFFICES ASSUME q >= dst + 1 PROVE FALSE
      BY <1>1, <1>7
    <3>1. src * q >= src * (dst + 1)
      <4>1. q - (dst + 1) \in Nat /\ src \in Nat
        BY <1>1, <1>7
      <4>2. src * (q - (dst + 1)) \in Nat
        BY <4>1
      <4>3. src * q = src * (dst + 1) + src * (q - (dst + 1))
        BY <1>1, <1>7
      <4> QED
        BY <1>1, <1>7, <4>2, <4>3
    <3>2. src * (dst + 1) = src * dst + src /\ src * dst \in Nat
      BY <1>1
    <3> HIDE DEF v, m, q
    <3>3. m >= src * dst + src
      BY <1>1, <1>7, <2>1, <3>1, <3>2 DEF m
    <3> QED
      BY <1>1, <1>4, <2>1, <3>2, <3>3
  <2> HIDE DEF v, m
  <2>3. 2 * (m - v) \in (-src) .. src
    BY <1>1, <1>4, <2>1
  <2>4. 2 * (q * src - value * dst) \in (-src) .. src
    BY <2>1, <2>3 DEF v
  <2> HIDE DEF q
  <2> QED
    BY <1>1, <1>7, <1>9, <2>2, <2>4
<1> QED
  BY <1>8, <1>9
=============================================================================

-------------------------- MODULE ConnectionProofs --------------------------
(* Theorems about the life of a connection, for every value of the constants: *)
(* what the table keeps (PeerTable), that it implements the life cycle of the *)
(* ids (PeerIds), and what the core knows of its peers (PeerSession).         *)
EXTENDS PeerSession, TLAPS

-----------------------------------------------------------------------------
(* The table: types *)

(* A thread that comes to a well-typed state while the tables stay well typed *)
(* keeps the type invariant: what every action below comes down to.           *)
LEMMA BecomeTyped ==
  ASSUME TypeInv, NEW x \in Threads, NEW r,
         r \in ThreadState, Ready(r), Become(x, r), TablesTyped'
  PROVE  TypeInv'
  BY DEF TypeInv, TypeOK, Become

(* A record given field by field *)
LEMMA RecordTyped ==
  ASSUME NEW pc \in PC, NEW a \in Addr \cup {None}, NEW t \in Time \cup {None},
         NEW i \in Id \cup {None}, NEW c \in Conn \cup {None}
  PROVE  [pc |-> pc, addr |-> a, time |-> t, id |-> i, held |-> c] \in ThreadState
  BY DEF ThreadState

LEMMA Fields ==
  ASSUME NEW q \in ThreadState
  PROVE  /\ q = [pc |-> q.pc, addr |-> q.addr, time |-> q.time, id |-> q.id, held |-> q.held]
         /\ q.pc \in PC /\ q.addr \in Addr \cup {None} /\ q.time \in Time \cup {None}
         /\ q.id \in Id \cup {None} /\ q.held \in Conn \cup {None}
  BY DEF ThreadState

(* What a thread state becomes when some of its fields are replaced *)
LEMMA NewPc ==
  ASSUME NEW q \in ThreadState, NEW pc
  PROVE  [q EXCEPT !.pc = pc]
           = [pc |-> pc, addr |-> q.addr, time |-> q.time, id |-> q.id, held |-> q.held]
  BY SMT DEF ThreadState

LEMMA NewPcAddr ==
  ASSUME NEW q \in ThreadState, NEW pc, NEW a
  PROVE  [q EXCEPT !.pc = pc, !.addr = a]
           = [pc |-> pc, addr |-> a, time |-> q.time, id |-> q.id, held |-> q.held]
<1> DEFINE r == [q EXCEPT !.pc = pc]
<1>1. r = [pc |-> pc, addr |-> q.addr, time |-> q.time, id |-> q.id, held |-> q.held]
  BY NewPc
<1> HIDE DEF r
<1>2. [r EXCEPT !.addr = a]
        = [pc |-> pc, addr |-> a, time |-> q.time, id |-> q.id, held |-> q.held]
  BY <1>1, SMT
<1> QED
  BY <1>2 DEF r

LEMMA NewPcId ==
  ASSUME NEW q \in ThreadState, NEW pc, NEW i
  PROVE  [q EXCEPT !.pc = pc, !.id = i]
           = [pc |-> pc, addr |-> q.addr, time |-> q.time, id |-> i, held |-> q.held]
<1> DEFINE r == [q EXCEPT !.pc = pc]
<1>1. r = [pc |-> pc, addr |-> q.addr, time |-> q.time, id |-> q.id, held |-> q.held]
  BY NewPc
<1> HIDE DEF r
<1>2. [r EXCEPT !.id = i]
        = [pc |-> pc, addr |-> q.addr, time |-> q.time, id |-> i, held |-> q.held]
  BY <1>1, SMT
<1> QED
  BY <1>2 DEF r

LEMMA NewPcHeld ==
  ASSUME NEW q \in ThreadState, NEW pc, NEW c
  PROVE  [q EXCEPT !.pc = pc, !.held = c]
           = [pc |-> pc, addr |-> q.addr, time |-> q.time, id |-> q.id, held |-> c]
<1> DEFINE r == [q EXCEPT !.pc = pc]
<1>1. r = [pc |-> pc, addr |-> q.addr, time |-> q.time, id |-> q.id, held |-> q.held]
  BY NewPc
<1> HIDE DEF r
<1>2. [r EXCEPT !.held = c]
        = [pc |-> pc, addr |-> q.addr, time |-> q.time, id |-> q.id, held |-> c]
  BY <1>1, SMT
<1> QED
  BY <1>2 DEF r

(* What a thread needs, by where it is *)
LEMMA Needs ==
  ASSUME NEW r, Ready(r)
  PROVE  /\ r.pc \in {"examine", "evict", "take", "map", "insert"} =>
              r.addr \in Addr /\ r.time \in Time /\ r.id \in Id
         /\ r.pc \in {"check", "admit", "decide", "allocate"} => r.addr \in Addr /\ r.time \in Time
         /\ r.pc = "restore" => r.addr \in Addr /\ r.id \in Id /\ r.held \in Conn
         /\ r.pc = "reinsert" => r.id \in Id /\ r.held \in Conn
         /\ r.pc = "unmap" => r.id \in Id /\ r.held \in Conn /\ (r.addr # None => r.time \in Time)
         /\ r.pc \in {"retire", "announce"} => r.id \in Id /\ (r.addr # None => r.time \in Time)
         /\ r.pc \in {"deliver", "accepted", "message", "cleanup", "recycle"} => r.id \in Id
  BY DEF Ready, WithAddr, WithTime, WithId, WithHeld, Carrying

LEMMA Suffices ==
  ASSUME NEW r,
         \/ r.pc = "idle"
         \/ r.pc \in {"examine", "evict", "take", "map", "insert"}
              /\ r.addr \in Addr /\ r.time \in Time /\ r.id \in Id
         \/ r.pc \in {"check", "admit", "decide", "allocate"} /\ r.addr \in Addr /\ r.time \in Time
         \/ r.pc = "restore" /\ r.addr \in Addr /\ r.id \in Id /\ r.held \in Conn
         \/ r.pc = "reinsert" /\ r.id \in Id /\ r.held \in Conn
         \/ r.pc = "unmap" /\ r.id \in Id /\ r.held \in Conn /\ (r.addr # None => r.time \in Time)
         \/ r.pc \in {"retire", "announce"} /\ r.id \in Id /\ (r.addr # None => r.time \in Time)
         \/ r.pc \in {"deliver", "accepted", "message", "cleanup", "recycle"} /\ r.id \in Id
  PROVE  Ready(r)
  BY DEF Ready, WithAddr, WithTime, WithId, WithHeld, Carrying

LEMMA IdleTyped == Idle \in ThreadState /\ Ready(Idle)
<1>1. Idle \in ThreadState
  BY RecordTyped DEF Idle, PC
<1>2. Idle.pc = "idle"
  BY DEF Idle
<1> QED
  BY <1>1, <1>2, Suffices

(* The states that start from Idle *)
LEMMA FromIdle ==
  ASSUME NEW pc, NEW i
  PROVE  [Idle EXCEPT !.pc = pc, !.id = i]
           = [pc |-> pc, addr |-> None, time |-> None, id |-> i, held |-> None]
<1>1. Idle.addr = None /\ Idle.time = None /\ Idle.held = None
  BY DEF Idle
<1>2. [Idle EXCEPT !.pc = pc, !.id = i]
        = [pc |-> pc, addr |-> Idle.addr, time |-> Idle.time, id |-> i, held |-> Idle.held]
  BY IdleTyped, NewPcId, Zenon
<1> QED
  BY <1>1, <1>2, Zenon

LEMMA TypeInit == Init => TypeInv
  BY IdAssumption, NoneAssumption, IdleTyped DEF Init, TypeInv, TypeOK, TablesTyped, Id

(* A thread that ends its work, and one that goes on with what it has *)
LEMMA RestTyped ==
  ASSUME TypeInv, NEW x \in Threads, Rest(x), TablesTyped'
  PROVE  TypeInv'
  BY IdleTyped, BecomeTyped DEF Rest

LEMMA GotoTyped ==
  ASSUME TypeInv, NEW x \in Threads, NEW pc, Goto(x, pc), TablesTyped',
         \/ thr[x].pc = "examine" /\ pc = "evict"
         \/ thr[x].pc = "check"   /\ pc = "admit"
         \/ thr[x].pc = "decide"  /\ pc = "allocate"
         \/ thr[x].pc = "map"     /\ pc = "insert"
         \/ thr[x].pc = "retire"  /\ pc = "announce"
         \/ thr[x].pc = "cleanup" /\ pc = "recycle"
  PROVE  TypeInv'
<1> DEFINE q == thr[x]
           r == [pc |-> pc, addr |-> q.addr, time |-> q.time, id |-> q.id, held |-> q.held]
<1>1. q \in ThreadState /\ Ready(q)
  BY DEF TypeInv, TypeOK
<1>2. pc \in PC
  BY DEF PC
<1>3. r \in ThreadState
  BY <1>1, <1>2, RecordTyped, Fields
<1>4. Ready(r)
  BY <1>1, Needs, Suffices
<1>5. [q EXCEPT !.pc = pc] = r
  BY <1>1, NewPc
<1>6. Become(x, r)
  BY <1>5 DEF Goto
<1> QED
  BY <1>3, <1>4, <1>6, BecomeTyped

(* A thread that goes to the state with these fields *)
LEMMA MoveTyped ==
  ASSUME TypeInv, NEW x \in Threads, TablesTyped',
         NEW pc \in PC, NEW a \in Addr \cup {None}, NEW t \in Time \cup {None},
         NEW i \in Id \cup {None}, NEW c \in Conn \cup {None},
         Become(x, [pc |-> pc, addr |-> a, time |-> t, id |-> i, held |-> c]),
         \/ pc \in {"examine", "evict", "take", "map", "insert"} /\ a \in Addr /\ t \in Time /\ i \in Id
         \/ pc \in {"check", "admit", "decide", "allocate"} /\ a \in Addr /\ t \in Time
         \/ pc = "restore" /\ a \in Addr /\ i \in Id /\ c \in Conn
         \/ pc = "reinsert" /\ i \in Id /\ c \in Conn
         \/ pc = "unmap" /\ i \in Id /\ c \in Conn /\ (a # None => t \in Time)
         \/ pc \in {"retire", "announce"} /\ i \in Id /\ (a # None => t \in Time)
         \/ pc \in {"deliver", "accepted", "message", "cleanup", "recycle"} /\ i \in Id
  PROVE  TypeInv'
<1> DEFINE r == [pc |-> pc, addr |-> a, time |-> t, id |-> i, held |-> c]
<1>1. r \in ThreadState
  BY RecordTyped
<1>2. Ready(r)
  BY Suffices
<1> QED
  BY <1>1, <1>2, BecomeTyped

(* The states in which a thread starts on an event or on closing a connection *)
LEMMA StartTyped ==
  ASSUME TypeInv, NEW x \in Threads, TablesTyped', NEW i \in Id,
         NEW pc \in {"message", "cleanup", "retire", "deliver", "accepted"},
         Become(x, [Idle EXCEPT !.pc = pc, !.id = i])
  PROVE  TypeInv'
<1>1. [Idle EXCEPT !.pc = pc, !.id = i] = [pc |-> pc, addr |-> None, time |-> None, id |-> i, held |-> None]
  BY FromIdle, Zenon
<1>2. pc \in PC
  BY DEF PC
<1> QED
  BY <1>1, <1>2, MoveTyped

LEMMA TypeWorker ==
  ASSUME TypeInv, NEW w \in Workers, WorkerStep(w)
  PROVE  TypeInv'
<1> DEFINE q == thr[w]
<1>a. w \in Threads
  BY DEF Threads
<1>b. q \in ThreadState /\ Ready(q) /\ TablesTyped
  BY <1>a DEF TypeInv, TypeOK
<1>c. /\ q = [pc |-> q.pc, addr |-> q.addr, time |-> q.time, id |-> q.id, held |-> q.held]
      /\ q.addr \in Addr \cup {None} /\ q.time \in Time \cup {None}
      /\ q.id \in Id \cup {None} /\ q.held \in Conn \cup {None}
  BY <1>b, Fields
<1>d. q \in ThreadState
  BY <1>b
<1> HIDE DEF q
<1>1. CASE ExamineExisting(w)
  <2>1. TablesTyped' /\ (Rest(w) \/ Goto(w, "evict")) /\ thr[w].pc = "examine"
    BY <1>1, <1>b DEF ExamineExisting, TablesTyped, tables, ids, events, At
  <2> QED
    BY <1>a, <2>1, RestTyped, GotoTyped
<1>2. CASE EvictExisting(w)
  <2>1. q.pc = "evict"
    BY <1>2 DEF EvictExisting, At, q
  <2>2. q.addr \in Addr /\ q.time \in Time /\ q.id \in Id
    BY <1>b, <2>1, Needs
  <2>3. TablesTyped' /\ peers[q.id] \in Conn \cup {None}
    BY <1>2, <1>b, <2>2 DEF EvictExisting, TablesTyped, tables, ids, events, q
  <2>4. CASE Live(q.id)
    <3>1. peers[q.id] \in Conn
      BY <2>3, <2>4 DEF Live
    <3>2. [q EXCEPT !.pc = "unmap", !.held = peers[q.id]]
             = [pc |-> "unmap", addr |-> q.addr, time |-> q.time, id |-> q.id, held |-> peers[q.id]]
      BY <1>d, NewPcHeld, Zenon
    <3>3. Become(w, [pc |-> "unmap", addr |-> q.addr, time |-> q.time, id |-> q.id, held |-> peers[q.id]])
      BY <1>2, <2>4, <3>2 DEF EvictExisting, q
    <3> QED
      BY <1>a, <2>2, <2>3, <3>1, <3>3, MoveTyped DEF PC
  <2>5. CASE ~Live(q.id)
    <3>1. [q EXCEPT !.pc = "check", !.id = None]
             = [pc |-> "check", addr |-> q.addr, time |-> q.time, id |-> None, held |-> q.held]
      BY <1>d, NewPcId, Zenon
    <3>2. Become(w, [pc |-> "check", addr |-> q.addr, time |-> q.time, id |-> None, held |-> q.held])
      BY <1>2, <2>5, <3>1 DEF EvictExisting, q
    <3> QED
      BY <1>a, <1>c, <2>2, <2>3, <3>2, MoveTyped DEF PC
  <2> QED
    BY <2>4, <2>5
<1>3. CASE CheckPending(w)
  <2>1. TablesTyped' /\ (Rest(w) \/ Goto(w, "admit")) /\ thr[w].pc = "check"
    BY <1>3, <1>b DEF CheckPending, TablesTyped, tables, ids, events, At
  <2> QED
    BY <1>a, <2>1, RestTyped, GotoTyped
<1>4. CASE AdmitRequest(w)
  <2>1. q.pc = "admit"
    BY <1>4 DEF AdmitRequest, At, q
  <2>2. q.addr \in Addr /\ q.time \in Time
    BY <1>b, <2>1, Needs
  <2>3. TablesTyped' /\ Rest(w)
    BY <1>4, <1>b, <2>2 DEF AdmitRequest, TablesTyped, ids, q
  <2> QED
    BY <1>a, <2>3, RestTyped
<1>5. CASE TakePeer(w)
  <2>1. q.pc = "take"
    BY <1>5 DEF TakePeer, At, q
  <2>2. q.addr \in Addr /\ q.time \in Time /\ q.id \in Id
    BY <1>b, <2>1, Needs
  <2>3. TablesTyped' /\ peers[q.id] \in Conn \cup {None}
    BY <1>5, <1>b, <2>2 DEF TakePeer, TablesTyped, ids, events, q
  <2>4. CASE Rest(w)
    BY <1>a, <2>3, <2>4, RestTyped
  <2>5. CASE Become(w, [Idle EXCEPT !.pc = "retire", !.id = q.id])
    BY <1>a, <2>2, <2>3, <2>5, StartTyped
  <2>6. CASE Live(q.id) /\ Become(w, [pc |-> "restore", addr |-> q.addr, time |-> None,
                                      id |-> q.id, held |-> peers[q.id]])
    <3>1. peers[q.id] \in Conn
      BY <2>3, <2>6 DEF Live
    <3> QED
      BY <1>a, <2>2, <2>3, <2>6, <3>1, MoveTyped DEF PC
  <2> QED
    BY <1>5, <2>4, <2>5, <2>6 DEF TakePeer, q
<1>6. CASE RestoreAddr(w)
  <2>1. q.pc = "restore"
    BY <1>6 DEF RestoreAddr, At, q
  <2>2. q.addr \in Addr /\ q.id \in Id /\ q.held \in Conn
    BY <1>b, <2>1, Needs
  <2>3. TablesTyped'
    BY <1>6, <1>b, <2>2 DEF RestoreAddr, TablesTyped, ids, events, q
  <2>4. [q EXCEPT !.pc = "reinsert", !.addr = None]
           = [pc |-> "reinsert", addr |-> None, time |-> q.time, id |-> q.id, held |-> q.held]
    BY <1>d, NewPcAddr, Zenon
  <2>5. Become(w, [pc |-> "reinsert", addr |-> None, time |-> q.time, id |-> q.id, held |-> q.held])
    BY <1>6, <2>4 DEF RestoreAddr, q
  <2> QED
    BY <1>a, <1>c, <2>2, <2>3, <2>5, MoveTyped DEF PC
<1>7. CASE RestorePeer(w)
  <2>1. q.pc = "reinsert"
    BY <1>7 DEF RestorePeer, At, q
  <2>2. q.id \in Id /\ q.held \in Conn
    BY <1>b, <2>1, Needs
  <2>3. TablesTyped' /\ Rest(w)
    BY <1>7, <1>b, <2>2 DEF RestorePeer, TablesTyped, ids, events, q
  <2> QED
    BY <1>a, <2>3, RestTyped
<1>8. CASE Deliver(w)
  <2>1. q.id \in Id
    BY <1>8, <1>b, Needs DEF Deliver, At, q
  <2>2. messages' = [messages EXCEPT ![q.id] = messages[q.id] + 1] /\ Rest(w)
        /\ UNCHANGED <<tables, ids, requests, closures>>
    BY <1>8 DEF Deliver, q
  <2>3. messages' \in [Id -> Nat]
    BY <1>b, <2>1, <2>2 DEF TablesTyped
  <2>4. TablesTyped'
    BY <1>b, <2>2, <2>3 DEF TablesTyped, tables, ids
  <2> QED
    BY <1>a, <2>2, <2>4, RestTyped
<1>9. CASE ShutdownOkFails(w)
  <2>1. q.pc = "announce"
    BY <1>9 DEF ShutdownOkFails, At, q
  <2>2. q.id \in Id
    BY <1>b, <2>1, Needs
  <2>3. TablesTyped' /\ Rest(w)
    BY <1>9, <1>b, <2>2 DEF ShutdownOkFails, TablesTyped, tables, events, q
  <2> QED
    BY <1>a, <2>3, RestTyped
<1> QED
  BY <1>1, <1>2, <1>3, <1>4, <1>5, <1>6, <1>7, <1>8, <1>9 DEF WorkerStep

LEMMA TypePacket ==
  ASSUME TypeInv, NEW w \in Workers, Packet(w)
  PROVE  TypeInv'
<1>a. w \in Threads
  BY DEF Threads
<1>b. TablesTyped
  BY DEF TypeInv, TypeOK
<1>1. ASSUME NEW a \in Addr, NEW t \in Time, ReceiveConnectRequest(w, a, t)
      PROVE  TypeInv'
  <2>1. TablesTyped' /\ by_addr[a] \in Id \cup {None}
    BY <1>1, <1>b DEF ReceiveConnectRequest, TablesTyped, tables, ids, events
  <2>2. CASE by_addr[a] = None
    <3>1. Become(w, [pc |-> "check", addr |-> a, time |-> t, id |-> None, held |-> None])
      BY <1>1, <2>2 DEF ReceiveConnectRequest
    <3> QED
      BY <1>a, <2>1, <3>1, MoveTyped DEF PC
  <2>3. CASE by_addr[a] # None
    <3>1. Become(w, [pc |-> "examine", addr |-> a, time |-> t, id |-> by_addr[a], held |-> None])
      BY <1>1, <2>3 DEF ReceiveConnectRequest
    <3> QED
      BY <1>a, <2>1, <2>3, <3>1, MoveTyped DEF PC
  <2> QED
    BY <2>2, <2>3
<1>2. ASSUME NEW a \in Addr, NEW t \in Time, ReceiveDisconnect(w, a, t)
      PROVE  TypeInv'
  <2>1. TablesTyped' /\ by_addr[a] \in Id
    BY <1>2, <1>b DEF ReceiveDisconnect, TablesTyped, ids, events
  <2>2. Become(w, [pc |-> "take", addr |-> a, time |-> t, id |-> by_addr[a], held |-> None])
    BY <1>2 DEF ReceiveDisconnect
  <2> QED
    BY <1>a, <2>1, <2>2, MoveTyped DEF PC
<1>3. ASSUME NEW a \in Addr, ReceiveMessage(w, a)
      PROVE  TypeInv'
  <2>1. TablesTyped' /\ by_addr[a] \in Id
    BY <1>3, <1>b DEF ReceiveMessage, TablesTyped, tables, ids, events
  <2>2. Become(w, [Idle EXCEPT !.pc = "deliver", !.id = by_addr[a]])
    BY <1>3 DEF ReceiveMessage
  <2> QED
    BY <1>a, <2>1, <2>2, StartTyped
<1> QED
  BY <1>1, <1>2, <1>3 DEF Packet

LEMMA TypeRemove ==
  ASSUME TypeInv, NEW x \in Threads, NEW i \in Id, RemovePeer(x, i)
  PROVE  TypeInv'
<1>1. TablesTyped
  BY DEF TypeInv, TypeOK
<1>2. TablesTyped' /\ peers[i] \in Conn
  BY <1>1 DEF RemovePeer, TablesTyped, Live, ids, events
<1>3. Become(x, [pc |-> "unmap", addr |-> None, time |-> None, id |-> i, held |-> peers[i]])
  BY DEF RemovePeer
<1> QED
  BY <1>2, <1>3, MoveTyped DEF PC

LEMMA TypeClose ==
  ASSUME TypeInv, NEW x \in Threads, CloseStep(x)
  PROVE  TypeInv'
<1> DEFINE q == thr[x]
<1>b. q \in ThreadState /\ Ready(q) /\ TablesTyped
  BY DEF TypeInv, TypeOK
<1>c. /\ q = [pc |-> q.pc, addr |-> q.addr, time |-> q.time, id |-> q.id, held |-> q.held]
      /\ q.addr \in Addr \cup {None} /\ q.time \in Time \cup {None}
      /\ q.id \in Id \cup {None} /\ q.held \in Conn \cup {None}
  BY <1>b, Fields
<1>d. q \in ThreadState
  BY <1>b
<1> HIDE DEF q
<1>1. CASE Unmap(x)
  <2>1. q.pc = "unmap"
    BY <1>1 DEF Unmap, At, q
  <2>2. q.id \in Id /\ q.held \in Conn /\ (q.addr # None => q.time \in Time)
    BY <1>b, <2>1, Needs
  <2>3. TablesTyped'
    BY <1>1, <1>b, <2>2 DEF Unmap, TablesTyped, ids, events, q
  <2>4. [q EXCEPT !.pc = "retire", !.held = None]
           = [pc |-> "retire", addr |-> q.addr, time |-> q.time, id |-> q.id, held |-> None]
    BY <1>d, NewPcHeld, Zenon
  <2>5. Become(x, [pc |-> "retire", addr |-> q.addr, time |-> q.time, id |-> q.id, held |-> None])
    BY <1>1, <2>4 DEF Unmap, q
  <2> QED
    BY <1>c, <2>2, <2>3, <2>5, MoveTyped DEF PC
<1>2. CASE Retire(x)
  <2>1. q.pc = "retire"
    BY <1>2 DEF Retire, At, q
  <2>2. q.id \in Id
    BY <1>b, <2>1, Needs
  <2>3. TablesTyped' /\ (Rest(x) \/ Goto(x, "announce"))
    BY <1>2, <1>b, <2>2 DEF Retire, TablesTyped, tables, events, q
  <2> QED
    BY <2>1, <2>3, RestTyped, GotoTyped DEF q
<1>3. CASE Announce(x)
  <2>1. q.pc = "announce"
    BY <1>3 DEF Announce, At, q
  <2>2. q.id \in Id /\ (q.addr # None => q.addr \in Addr /\ q.time \in Time)
    BY <1>b, <1>c, <2>1, Needs
  <2>3. TablesTyped'
    BY <1>3, <1>b, <2>2 DEF Announce, TablesTyped, tables, ids, q
  <2>4. CASE q.addr = None
    BY <1>3, <2>3, <2>4, RestTyped DEF Announce, q
  <2>5. CASE q.addr # None
    <3>1. [q EXCEPT !.pc = "check", !.id = None]
             = [pc |-> "check", addr |-> q.addr, time |-> q.time, id |-> None, held |-> q.held]
      BY <1>d, NewPcId, Zenon
    <3>2. Become(x, [pc |-> "check", addr |-> q.addr, time |-> q.time, id |-> None, held |-> q.held])
      BY <1>3, <2>5, <3>1 DEF Announce, q
    <3> QED
      BY <1>c, <2>2, <2>3, <2>5, <3>2, MoveTyped DEF PC
  <2> QED
    BY <2>4, <2>5
<1> QED
  BY <1>1, <1>2, <1>3 DEF CloseStep

LEMMA TypeHandler ==
  ASSUME TypeInv, NEW h \in Handlers,
         TakeEvent(h) \/ AcceptStep(h) \/ Finish(h) \/ RecycleStep(h)
  PROVE  TypeInv'
<1> DEFINE q == thr[h]
<1>a. h \in Threads
  BY DEF Threads
<1>b. q \in ThreadState /\ Ready(q) /\ TablesTyped
  BY <1>a DEF TypeInv, TypeOK
<1>c. /\ q = [pc |-> q.pc, addr |-> q.addr, time |-> q.time, id |-> q.id, held |-> q.held]
      /\ q.addr \in Addr \cup {None} /\ q.time \in Time \cup {None}
      /\ q.id \in Id \cup {None} /\ q.held \in Conn \cup {None}
  BY <1>b, Fields
<1>d. q \in ThreadState
  BY <1>b
<1> HIDE DEF q
<1>1. ASSUME NEW a \in Addr, NEW t \in Time, TakeRequest(h, a, t)
      PROVE  TypeInv'
  <2>1. TablesTyped'
    BY <1>1, <1>b DEF TakeRequest, TablesTyped, tables, ids
  <2>2. Become(h, [pc |-> "decide", addr |-> a, time |-> t, id |-> None, held |-> None])
    BY <1>1 DEF TakeRequest
  <2> QED
    BY <1>a, <2>1, <2>2, MoveTyped DEF PC
<1>2. ASSUME NEW i \in Id, TakeMessage(h, i)
      PROVE  TypeInv'
  <2>1. TablesTyped'
    BY <1>2, <1>b DEF TakeMessage, TablesTyped, tables, ids
  <2> QED
    BY <1>2, <1>a, <2>1, StartTyped DEF TakeMessage
<1>3. ASSUME NEW i \in Id, TakeClosure(h, i)
      PROVE  TypeInv'
  <2>1. TablesTyped'
    BY <1>3, <1>b DEF TakeClosure, TablesTyped, tables, ids
  <2> QED
    BY <1>3, <1>a, <2>1, StartTyped DEF TakeClosure
<1>4. CASE Accept(h)
  <2>1. TablesTyped' /\ Goto(h, "allocate") /\ thr[h].pc = "decide"
    BY <1>4, <1>b DEF Accept, TablesTyped, ids, events, At
  <2> QED
    BY <1>a, <2>1, GotoTyped
<1>5. CASE Reject(h)
  <2>1. TablesTyped' /\ Rest(h)
    BY <1>5, <1>b DEF Reject, TablesTyped, ids, events
  <2> QED
    BY <1>a, <2>1, RestTyped
<1>6. ASSUME NEW i \in Id, Candidate(h, i), TablesTyped', q.pc = "allocate"
      PROVE  TypeInv'
  <2>1. CASE UNCHANGED thr
    BY <1>6, <2>1 DEF TypeInv, TypeOK
  <2>2. CASE Become(h, [q EXCEPT !.pc = "map", !.id = i])
    <3>1. q.addr \in Addr /\ q.time \in Time
      BY <1>b, <1>6, Needs
    <3>2. [q EXCEPT !.pc = "map", !.id = i]
             = [pc |-> "map", addr |-> q.addr, time |-> q.time, id |-> i, held |-> q.held]
      BY <1>d, NewPcId, Zenon
    <3>3. Become(h, [pc |-> "map", addr |-> q.addr, time |-> q.time, id |-> i, held |-> q.held])
      BY <2>2, <3>2
    <3> QED
      BY <1>a, <1>c, <1>6, <3>1, <3>3, MoveTyped DEF PC
  <2> QED
    BY <1>6, <2>1, <2>2 DEF Candidate, q
<1>7. CASE AllocateReused(h)
  <2>1. Head(reusable_peer_ids) \in Id /\ Tail(reusable_peer_ids) \in Seq(Id)
    BY <1>7, <1>b DEF AllocateReused, TablesTyped
  <2>2. TablesTyped'
    BY <1>7, <1>b, <2>1 DEF AllocateReused, TablesTyped, tables, events
  <2> QED
    BY <1>6, <1>7, <2>1, <2>2 DEF AllocateReused, At, q
<1>8. CASE AllocateFresh(h)
  <2>1. next_peer_id \in Id /\ next_peer_id' \in Id /\ fetched' \in 0 .. MaxFetch
    BY <1>8, <1>b, IdAssumption DEF AllocateFresh, TablesTyped, Id
  <2>2. TablesTyped'
    BY <1>8, <1>b, <2>1 DEF AllocateFresh, TablesTyped, tables, events
  <2> QED
    BY <1>6, <1>8, <2>1, <2>2 DEF AllocateFresh, At, q
<1>9. CASE MapAddr(h)
  <2>1. q.pc = "map"
    BY <1>9 DEF MapAddr, At, q
  <2>2. q.addr \in Addr /\ q.id \in Id
    BY <1>b, <2>1, Needs
  <2>3. TablesTyped' /\ Goto(h, "insert")
    BY <1>9, <1>b, <2>2 DEF MapAddr, TablesTyped, ids, events, q
  <2> QED
    BY <1>a, <2>1, <2>3, GotoTyped DEF q
<1>10. CASE InsertPeer(h)
  <2>1. q.pc = "insert"
    BY <1>10 DEF InsertPeer, At, q
  <2>2. q.addr \in Addr /\ q.time \in Time /\ q.id \in Id
    BY <1>b, <2>1, Needs
  <2>3. [addr |-> q.addr, time |-> q.time] \in Conn
    BY <2>2 DEF Conn
  <2>4. TablesTyped' /\ Become(h, [Idle EXCEPT !.pc = "accepted", !.id = q.id])
    BY <1>10, <1>b, <2>2, <2>3 DEF InsertPeer, TablesTyped, ids, events, q
  <2> QED
    BY <1>a, <2>2, <2>4, StartTyped
<1>11. CASE Finish(h)
  <2>1. TablesTyped' /\ Rest(h)
    BY <1>11, <1>b DEF Finish, TablesTyped, tables, ids, events
  <2> QED
    BY <1>a, <2>1, RestTyped
<1>12. CASE ReleaseId(h)
  <2>1. TablesTyped' /\ (Rest(h) \/ Goto(h, "recycle")) /\ thr[h].pc = "cleanup"
    BY <1>12, <1>b DEF ReleaseId, TablesTyped, tables, events, At
  <2> QED
    BY <1>a, <2>1, RestTyped, GotoTyped
<1>13. CASE Recycle(h)
  <2>1. q.pc = "recycle"
    BY <1>13 DEF Recycle, At, q
  <2>2. q.id \in Id
    BY <1>b, <2>1, Needs
  <2>3. reusable_peer_ids' \in Seq(Id)
    BY <1>13, <1>b, <2>2 DEF Recycle, TablesTyped, q
  <2>4. TablesTyped' /\ Rest(h)
    BY <1>13, <1>b, <2>3 DEF Recycle, TablesTyped, tables, events
  <2> QED
    BY <1>a, <2>4, RestTyped
<1> QED
  BY <1>1, <1>2, <1>3, <1>4, <1>5, <1>7, <1>8, <1>9, <1>10, <1>11, <1>12, <1>13
  DEF TakeEvent, AcceptStep, RecycleStep

LEMMA TypeStep == TypeInv /\ [Next]_vars => TypeInv'
<1> SUFFICES ASSUME TypeInv, [Next]_vars PROVE TypeInv'
  OBVIOUS
<1>1. CASE UNCHANGED vars
  BY <1>1 DEF TypeInv, TypeOK, TablesTyped, Ready, vars, tables, ids, events
<1>2. CASE Next
  BY <1>2, TypePacket, TypeWorker, TypeHandler, TypeRemove, TypeClose
  DEF Next, Threads, Expire, Disconnect
<1> QED
  BY <1>1, <1>2

(* Every variable keeps its type, and a thread always has the address, time, *)
(* id and connection that the step it is at reads.                           *)
THEOREM TypeCorrect == Spec => []TypeInv
  BY TypeInit, TypeStep, PTL DEF Spec

(* Every table keeps its type, and no thread forgets what it still needs *)
THEOREM TypesHold == Spec => []TypeOK
<1>1. TypeInv => TypeOK
  BY DEF TypeInv
<1> QED
  BY <1>1, TypeCorrect, PTL

-----------------------------------------------------------------------------
(* Ids: how each kind of step moves an id from one place to another *)

(* A thread that carries no id goes on to a step that carries none *)
LEMMA QuietStep ==
  ASSUME IInv, NEW x \in Threads, NEW r, Become(x, r),
         thr[x].pc \notin Carrying, r.pc \notin Carrying, UNCHANGED <<peers, ids, closures>>
  PROVE  IdInv'
<1> \A y \in Threads : thr'[y] = IF y = x THEN r ELSE thr[y]
  BY DEF IInv, TypeInv, TypeOK, Become
<1> USE DEF IInv, IdInv, ids
<1>1. FreshInv' /\ RetiredInv'
  BY DEF FreshInv, RetiredInv
<1>2. CarriedInv'
  BY DEF CarriedInv, Live, Queued
<1>3. LiveInv' /\ ClosureInv' /\ QueueInv'
  BY DEF LiveInv, ClosureInv, QueueInv, Live, Queued, NoDuplicateReusable
<1>4. NoIdLost'
  BY DEF NoIdLost, Carriers, Live, Queued
<1> QED
  BY <1>1, <1>2, <1>3, <1>4

(* A thread keeps the id it carries *)
LEMMA CarryOn ==
  ASSUME IInv, NEW x \in Threads, NEW r, Become(x, r),
         thr[x].pc \in Carrying, r.pc \in Carrying, r.id = thr[x].id,
         thr[x].pc \in {"announce", "cleanup"} <=> r.pc \in {"announce", "cleanup"},
         UNCHANGED <<peers, ids, closures>>
  PROVE  IdInv'
<1> \A y \in Threads : thr'[y] = IF y = x THEN r ELSE thr[y]
  BY DEF IInv, TypeInv, TypeOK, Become
<1> USE DEF IInv, IdInv, ids
<1>1. FreshInv' /\ RetiredInv'
  BY DEF FreshInv, RetiredInv
<1>2. CarriedInv'
  BY DEF CarriedInv, Live, Queued
<1>3. LiveInv' /\ ClosureInv' /\ QueueInv'
  BY DEF LiveInv, ClosureInv, QueueInv, Live, Queued, NoDuplicateReusable
<1>4. NoIdLost'
  BY DEF NoIdLost, Carriers, Live, Queued
<1> QED
  BY <1>1, <1>2, <1>3, <1>4

(* A thread takes a live peer out of the table *)
LEMMA Seize ==
  ASSUME IInv, NEW x \in Threads, NEW i \in Id, NEW r, Become(x, r),
         thr[x].pc \notin Carrying, Live(i),
         r.pc \in {"unmap", "retire", "restore"}, r.id = i,
         peers' = [peers EXCEPT ![i] = None], UNCHANGED <<ids, closures>>
  PROVE  IdInv'
<1> \A y \in Threads : thr'[y] = IF y = x THEN r ELSE thr[y]
  BY DEF IInv, TypeInv, TypeOK, Become
<1> \A j \in Id : peers'[j] = IF j = i THEN None ELSE peers[j]
  BY DEF IInv, TypeInv, TypeOK, TablesTyped
<1> USE DEF IInv, IdInv, ids
<1>1. FreshInv' /\ RetiredInv'
  BY DEF FreshInv, RetiredInv
<1>2. \A y \in Threads : thr[y].pc \in Carrying => thr[y].id # i
  BY DEF CarriedInv
<1>3. i < fetched /\ closures[i] = 0 /\ ~Queued(i) /\ i \notin retired_peer_ids
  BY DEF LiveInv
<1>4. \A y \in Threads : thr[y].pc \in Carrying => thr[y].id \in Id
  BY DEF TypeInv, Ready, WithId
<1>5. r.pc \in Carrying /\ r.pc \notin {"announce", "cleanup"}
  BY DEF Carrying
<1>6. CarriedInv'
  BY <1>2, <1>3, <1>4, <1>5 DEF CarriedInv, Live, Queued
<1>7. LiveInv' /\ ClosureInv' /\ QueueInv'
  BY DEF LiveInv, ClosureInv, QueueInv, Live, Queued, NoDuplicateReusable
<1>8. NoIdLost'
  BY <1>5 DEF NoIdLost, Carriers, Live, Queued
<1> QED
  BY <1>1, <1>6, <1>7, <1>8

(* A thread puts the id it carries into the table *)
LEMMA Settle ==
  ASSUME IInv, NEW x \in Threads, NEW r, Become(x, r), NEW c \in Conn,
         thr[x].pc \in {"insert", "reinsert"}, r.pc \notin Carrying,
         peers' = [peers EXCEPT ![thr[x].id] = c], UNCHANGED <<ids, closures>>
  PROVE  IdInv'
<1> DEFINE i == thr[x].id
<1> \A y \in Threads : thr'[y] = IF y = x THEN r ELSE thr[y]
  BY DEF IInv, TypeInv, TypeOK, Become
<1> i \in Id
  BY DEF IInv, TypeInv, Ready, WithId, Carrying
<1> \A j \in Id : peers'[j] = IF j = i THEN c ELSE peers[j]
  BY DEF IInv, TypeInv, TypeOK, TablesTyped
<1> USE DEF IInv, IdInv, ids
<1>1. FreshInv' /\ RetiredInv'
  BY DEF FreshInv, RetiredInv
<1>2. thr[x].pc \in Carrying /\ thr[x].pc \notin {"announce", "cleanup"}
  BY DEF Carrying
<1>3. i < fetched /\ closures[i] = 0 /\ ~Queued(i) /\ i \notin retired_peer_ids
  BY <1>2 DEF CarriedInv
<1>4. \A y \in Threads : y # x /\ thr[y].pc \in Carrying => thr[y].id \in Id \ {i}
  BY <1>2 DEF CarriedInv, TypeInv, Ready, WithId
<1>5. CarriedInv'
  BY <1>4 DEF CarriedInv, Live, Queued
<1>6. LiveInv' /\ ClosureInv' /\ QueueInv'
  BY <1>3 DEF LiveInv, ClosureInv, QueueInv, Live, Queued, NoDuplicateReusable
<1>7. c # None
  BY NoneAssumption
<1>8. NoIdLost'
  BY <1>7 DEF NoIdLost, Carriers, Live, Queued
<1> QED
  BY <1>1, <1>5, <1>6, <1>8

(* A closed connection is retired; its thread goes on to tell the core, or    *)
(* the id is left behind.                                                     *)
LEMMA RetireStep ==
  ASSUME IInv, NEW x \in Threads, NEW r, Become(x, r), Retire(x)
  PROVE  IdInv'
<1> DEFINE i == thr[x].id
<1> thr[x].pc = "retire"
  BY DEF Retire, At
<1> \A y \in Threads : thr'[y] = IF y = x THEN r ELSE thr[y]
  BY DEF IInv, TypeInv, TypeOK, Become
<1> i \in Id
  BY DEF IInv, TypeInv, Ready, WithId, Carrying
<1> USE DEF IInv, IdInv
<1>0. /\ retired_peer_ids' = retired_peer_ids \cup {i}
      /\ UNCHANGED <<peers, closures, fetched, next_peer_id, reusable_peer_ids>>
  BY DEF Retire, tables, events
<1>1. (r = Idle /\ i \in orphaned') \/ r = [thr[x] EXCEPT !.pc = "announce"]
  BY DEF Retire, Rest, Goto, Become, TypeInv, TypeOK, TablesTyped
<1>2. orphaned \subseteq orphaned'
  BY DEF Retire
<1>3. i < fetched /\ closures[i] = 0 /\ ~Queued(i) /\ ~Live(i)
  BY DEF CarriedInv, Carrying
<1>4. \A y \in Threads : y # x /\ thr[y].pc \in Carrying => thr[y].id \in Id \ {i}
  BY DEF CarriedInv, TypeInv, Ready, WithId, Carrying
<1>5. FreshInv' /\ RetiredInv'
  BY <1>0, <1>3 DEF FreshInv, RetiredInv
<1>6. r.pc \in Carrying => r.pc = "announce" /\ r.id = i
  BY <1>1 DEF Idle, Carrying, TypeInv, TypeOK, ThreadState
<1>7. CarriedInv'
  BY <1>0, <1>3, <1>4, <1>6 DEF CarriedInv, Live, Queued
<1>8. LiveInv' /\ ClosureInv' /\ QueueInv'
  BY <1>0, <1>3 DEF LiveInv, ClosureInv, QueueInv, Live, Queued, NoDuplicateReusable
<1>9. i \in orphaned' \/ (r.pc \in Carrying /\ r.id = i)
  BY <1>1 DEF Carrying, TypeInv, TypeOK, ThreadState
<1>10. NoIdLost'
  BY <1>0, <1>2, <1>9 DEF NoIdLost, Carriers, Live, Queued
<1> QED
  BY <1>5, <1>7, <1>8, <1>10

(* The core is told *)
LEMMA AnnounceStep ==
  ASSUME IInv, NEW x \in Threads, NEW r, Become(x, r), Announce(x), r.pc \notin Carrying
  PROVE  IdInv'
<1> DEFINE i == thr[x].id
<1> thr[x].pc = "announce"
  BY DEF Announce, At
<1> \A y \in Threads : thr'[y] = IF y = x THEN r ELSE thr[y]
  BY DEF IInv, TypeInv, TypeOK, Become
<1> i \in Id
  BY DEF IInv, TypeInv, Ready, WithId, Carrying
<1> USE DEF IInv, IdInv
<1>0. UNCHANGED <<peers, retired_peer_ids, orphaned, fetched, next_peer_id, reusable_peer_ids>>
  BY DEF Announce, tables, ids
<1>1. \A j \in Id : closures'[j] = IF j = i THEN closures[i] + 1 ELSE closures[j]
  BY DEF Announce, TypeInv, TypeOK, TablesTyped
<1>2. i < fetched /\ closures[i] = 0 /\ ~Queued(i) /\ ~Live(i) /\ i \in retired_peer_ids
  BY DEF CarriedInv, Carrying
<1>3. \A y \in Threads : y # x /\ thr[y].pc \in Carrying => thr[y].id \in Id \ {i}
  BY DEF CarriedInv, TypeInv, Ready, WithId, Carrying
<1>4. FreshInv' /\ RetiredInv'
  BY <1>0 DEF FreshInv, RetiredInv
<1>5. CarriedInv'
  BY <1>0, <1>1, <1>3 DEF CarriedInv, Live, Queued
<1>6. LiveInv' /\ ClosureInv' /\ QueueInv'
  BY <1>0, <1>1, <1>2 DEF LiveInv, ClosureInv, QueueInv, Live, Queued, NoDuplicateReusable
<1>7. NoIdLost'
  BY <1>0, <1>1, <1>2 DEF NoIdLost, Carriers, Live, Queued
<1> QED
  BY <1>4, <1>5, <1>6, <1>7

(* The core is not told, and the id is left behind *)
LEMMA OrphanStep ==
  ASSUME IInv, NEW x \in Threads, ShutdownOkFails(x)
  PROVE  IdInv'
<1> DEFINE i == thr[x].id
           r == Idle
<1> thr[x].pc = "announce" /\ Become(x, r)
  BY DEF ShutdownOkFails, At, Rest
<1> \A y \in Threads : thr'[y] = IF y = x THEN r ELSE thr[y]
  BY DEF IInv, TypeInv, TypeOK, Become
<1> i \in Id
  BY DEF IInv, TypeInv, Ready, WithId, Carrying
<1> USE DEF IInv, IdInv
<1>0. /\ UNCHANGED <<peers, closures, retired_peer_ids, fetched, next_peer_id, reusable_peer_ids>>
      /\ orphaned' = orphaned \cup {i}
  BY DEF ShutdownOkFails, tables, events
<1>1. r.pc \notin Carrying
  BY DEF Idle, Carrying
<1>2. FreshInv' /\ RetiredInv'
  BY <1>0 DEF FreshInv, RetiredInv
<1>3. CarriedInv'
  BY <1>0, <1>1 DEF CarriedInv, Live, Queued
<1>4. LiveInv' /\ ClosureInv' /\ QueueInv'
  BY <1>0 DEF LiveInv, ClosureInv, QueueInv, Live, Queued, NoDuplicateReusable
<1>5. NoIdLost'
  BY <1>0 DEF NoIdLost, Carriers, Live, Queued
<1> QED
  BY <1>2, <1>3, <1>4, <1>5

(* A handler takes the announcement: its cleanup carries the id *)
LEMMA TakeClosureStep ==
  ASSUME IInv, NEW x \in Handlers, NEW i \in Id, TakeClosure(x, i)
  PROVE  IdInv'
<1> DEFINE r == [Idle EXCEPT !.pc = "cleanup", !.id = i]
<1> x \in Threads /\ thr[x].pc = "idle" /\ Become(x, r)
  BY DEF TakeClosure, At, Threads
<1> \A y \in Threads : thr'[y] = IF y = x THEN r ELSE thr[y]
  BY DEF IInv, TypeInv, TypeOK, Become
<1> r.pc = "cleanup" /\ r.id = i
  BY DEF Idle
<1> HIDE DEF r
<1> USE DEF IInv, IdInv
<1>0. UNCHANGED <<peers, retired_peer_ids, orphaned, fetched, next_peer_id, reusable_peer_ids>>
  BY DEF TakeClosure, tables, ids
<1>1. /\ \A j \in Id : closures'[j] = IF j = i THEN closures[i] - 1 ELSE closures[j]
      /\ closures[i] > 0 /\ \A j \in Id : closures[j] \in Nat
  BY DEF TakeClosure, TypeInv, TypeOK, TablesTyped
<1>2. /\ closures[i] = 1 /\ closures'[i] = 0
      /\ i < fetched /\ i \in retired_peer_ids /\ ~Queued(i) /\ ~Live(i)
  BY <1>1 DEF ClosureInv, LiveInv
<1>3. \A y \in Threads : thr[y].pc \in Carrying => thr[y].id \in Id \ {i}
  BY <1>2 DEF CarriedInv, TypeInv, Ready, WithId
<1>4. FreshInv' /\ RetiredInv'
  BY <1>0 DEF FreshInv, RetiredInv
<1>5. thr[x].pc \notin Carrying /\ r.pc \in Carrying
  BY DEF Carrying
<1>6. CarriedInv'
  BY <1>0, <1>1, <1>2, <1>3, <1>5 DEF CarriedInv, Live, Queued
<1>7. LiveInv' /\ ClosureInv' /\ QueueInv'
  BY <1>0, <1>1 DEF LiveInv, ClosureInv, QueueInv, Live, Queued, NoDuplicateReusable
<1>8. NoIdLost'
  BY <1>0, <1>1, <1>5 DEF NoIdLost, Carriers, Live, Queued
<1> QED
  BY <1>4, <1>6, <1>7, <1>8

(* The cleanup is over: the id leaves the retired set *)
LEMMA ReleaseStep ==
  ASSUME IInv, NEW x \in Threads, ReleaseId(x)
  PROVE  IdInv'
<1> DEFINE i == thr[x].id
           r == [thr[x] EXCEPT !.pc = "recycle"]
<1> USE DEF IInv, IdInv
<1> thr[x].pc = "cleanup" /\ thr[x].pc \in Carrying
  BY DEF ReleaseId, At, Carrying
<1> i \in Id
  BY DEF TypeInv, Ready, WithId, Carrying
<1>1. i < fetched /\ closures[i] = 0 /\ ~Queued(i) /\ ~Live(i) /\ i \in retired_peer_ids
  BY DEF CarriedInv
<1>2. Become(x, r)
  BY <1>1 DEF ReleaseId, Goto
<1> \A y \in Threads : thr'[y] = IF y = x THEN r ELSE thr[y]
  BY <1>2 DEF IInv, TypeInv, TypeOK, Become
<1>3. r.pc = "recycle" /\ r.id = i /\ r.pc \in Carrying
  BY DEF TypeInv, TypeOK, ThreadState, Carrying
<1> HIDE DEF r
<1>4. /\ UNCHANGED <<peers, closures, orphaned, fetched, next_peer_id, reusable_peer_ids>>
      /\ retired_peer_ids' = retired_peer_ids \ {i}
  BY <1>1 DEF ReleaseId, tables, events
<1>5. \A y \in Threads : y # x /\ thr[y].pc \in Carrying => thr[y].id \in Id \ {i}
  BY DEF CarriedInv, TypeInv, Ready, WithId
<1>6. FreshInv' /\ RetiredInv'
  BY <1>4 DEF FreshInv, RetiredInv
<1>7. CarriedInv'
  BY <1>1, <1>3, <1>4, <1>5 DEF CarriedInv, Live, Queued
<1>8. LiveInv' /\ ClosureInv' /\ QueueInv'
  BY <1>1, <1>4 DEF LiveInv, ClosureInv, QueueInv, Live, Queued, NoDuplicateReusable
<1>9. NoIdLost'
  BY <1>3, <1>4 DEF NoIdLost, Carriers, Live, Queued
<1> QED
  BY <1>6, <1>7, <1>8, <1>9

(* The id is queued to be used again *)
LEMMA RecycleIdStep ==
  ASSUME IInv, NEW x \in Threads, Recycle(x)
  PROVE  IdInv'
<1> DEFINE i == thr[x].id
           r == Idle
           q == reusable_peer_ids
<1> USE DEF IInv, IdInv
<1> thr[x].pc = "recycle" /\ thr[x].pc \in Carrying /\ Become(x, r) /\ r.pc \notin Carrying
  BY DEF Recycle, At, Carrying, Rest, Idle
<1> i \in Id /\ q \in Seq(Id)
  BY DEF TypeInv, TypeOK, TablesTyped, Ready, WithId, Carrying
<1> \A y \in Threads : thr'[y] = IF y = x THEN r ELSE thr[y]
  BY DEF IInv, TypeInv, TypeOK, Become
<1>1. i < fetched /\ closures[i] = 0 /\ ~Queued(i) /\ ~Live(i) /\ i \notin retired_peer_ids
  BY DEF CarriedInv
<1>2. /\ UNCHANGED <<peers, closures, orphaned, fetched, next_peer_id, retired_peer_ids>>
      /\ reusable_peer_ids' = Append(q, i)
  BY <1>1 DEF Recycle, tables, events
<1>3. /\ DOMAIN reusable_peer_ids' = 1 .. (Len(q) + 1) /\ DOMAIN q = 1 .. Len(q) /\ Len(q) \in Nat
      /\ \A k \in 1 .. Len(q) : reusable_peer_ids'[k] = q[k]
      /\ reusable_peer_ids'[Len(q) + 1] = i
  BY <1>2
<1>4. \A j \in Id : Queued(j)' <=> Queued(j) \/ j = i
  BY <1>3 DEF Queued
<1>5. \A y \in Threads : y # x /\ thr[y].pc \in Carrying => thr[y].id \in Id \ {i}
  BY DEF CarriedInv, TypeInv, Ready, WithId
<1>6. FreshInv' /\ RetiredInv'
  BY <1>2 DEF FreshInv, RetiredInv
<1>7. CarriedInv'
  BY <1>2, <1>4, <1>5 DEF CarriedInv, Live
<1>8. LiveInv' /\ ClosureInv'
  BY <1>1, <1>2, <1>4 DEF LiveInv, ClosureInv, Live
<1>9. QueueInv'
  <2>1. NoDuplicateReusable'
    BY <1>1, <1>3 DEF QueueInv, NoDuplicateReusable, Queued
  <2> QED
    BY <2>1, <1>1, <1>2, <1>4 DEF QueueInv
<1>10. NoIdLost'
  BY <1>2, <1>4 DEF NoIdLost, Carriers, Live
<1> QED
  BY <1>6, <1>7, <1>8, <1>9, <1>10

(* The front of the queue is gone once it is popped: it was there only once *)
LEMMA PopFront ==
  ASSUME IInv, reusable_peer_ids # <<>>, reusable_peer_ids' = Tail(reusable_peer_ids)
  PROVE  \A j \in Id : Queued(j)' <=> Queued(j) /\ j # Head(reusable_peer_ids)
<1> DEFINE q == reusable_peer_ids
           i == Head(q)
<1> SUFFICES ASSUME NEW j \in Id PROVE Queued(j)' <=> Queued(j) /\ j # i
  OBVIOUS
<1> USE DEF IInv, IdInv
<1>1. q \in Seq(Id)
  BY DEF TypeInv, TypeOK, TablesTyped
<1>2. /\ i = q[1] /\ 1 \in DOMAIN q /\ DOMAIN q = 1 .. Len(q) /\ Len(q) \in Nat
      /\ DOMAIN Tail(q) = 1 .. (Len(q) - 1)
      /\ \A k \in 1 .. (Len(q) - 1) : Tail(q)[k] = q[k + 1]
  BY <1>1
<1>3. ASSUME Queued(j)' PROVE Queued(j) /\ j # i
  <2>1. PICK k \in 1 .. (Len(q) - 1) : q[k + 1] = j
    BY <1>3, <1>2 DEF Queued
  <2>2. k + 1 \in DOMAIN q /\ k + 1 # 1
    BY <1>2
  <2> QED
    BY <2>1, <2>2, <1>2 DEF Queued, QueueInv, NoDuplicateReusable
<1>4. ASSUME Queued(j), j # i PROVE Queued(j)'
  <2>1. PICK k \in DOMAIN q : q[k] = j
    BY <1>4 DEF Queued
  <2>2. k - 1 \in 1 .. (Len(q) - 1) /\ (k - 1) + 1 = k
    BY <2>1, <1>4, <1>2
  <2> QED
    BY <2>1, <2>2, <1>2 DEF Queued
<1> QED
  BY <1>3, <1>4

(* A handler takes an id from the queue for a new connection *)
LEMMA ReuseStep ==
  ASSUME IInv, NEW x \in Threads, AllocateReused(x)
  PROVE  IdInv'
<1> DEFINE q == reusable_peer_ids
           i == Head(q)
           r == [thr[x] EXCEPT !.pc = "map", !.id = i]
<1> USE DEF IInv, IdInv
<1> thr[x].pc = "allocate" /\ thr[x].pc \notin Carrying
  BY DEF AllocateReused, At, Carrying
<1>1. q \in Seq(Id) /\ q # <<>>
  BY DEF AllocateReused, TypeInv, TypeOK, TablesTyped
<1>2. /\ i = q[1] /\ 1 \in DOMAIN q /\ DOMAIN q = 1 .. Len(q) /\ Len(q) \in Nat /\ i \in Id
      /\ DOMAIN Tail(q) = 1 .. (Len(q) - 1)
      /\ \A k \in 1 .. (Len(q) - 1) : Tail(q)[k] = q[k + 1]
  BY <1>1
<1>3. Queued(i)
  BY <1>2 DEF Queued
<1>4. i < fetched /\ closures[i] = 0 /\ ~Live(i) /\ i \notin retired_peer_ids
  BY <1>2, <1>3 DEF QueueInv, ClosureInv, LiveInv, TypeInv, TypeOK, TablesTyped
<1>5. Become(x, r)
  BY <1>4 DEF AllocateReused, Candidate
<1> \A y \in Threads : thr'[y] = IF y = x THEN r ELSE thr[y]
  BY <1>5 DEF TypeInv, TypeOK, Become
<1>6. r.pc = "map" /\ r.id = i /\ r.pc \in Carrying /\ r.pc \notin {"announce", "cleanup"}
  BY DEF TypeInv, TypeOK, ThreadState, Carrying
<1>7. /\ UNCHANGED <<peers, closures, orphaned, fetched, next_peer_id, retired_peer_ids>>
      /\ reusable_peer_ids' = Tail(q)
  BY DEF AllocateReused, tables, events
<1>8. \A j \in Id : Queued(j)' <=> Queued(j) /\ j # i
  BY <1>1, <1>7, PopFront
<1> HIDE DEF r
<1>9. \A y \in Threads : thr[y].pc \in Carrying => thr[y].id \in Id \ {i}
  BY <1>3 DEF CarriedInv, TypeInv, Ready, WithId
<1>10. FreshInv' /\ RetiredInv'
  BY <1>7 DEF FreshInv, RetiredInv
<1>11. CarriedInv'
  BY <1>2, <1>4, <1>6, <1>7, <1>8, <1>9 DEF CarriedInv, Live
<1>12. LiveInv' /\ ClosureInv'
  BY <1>7, <1>8 DEF LiveInv, ClosureInv, Live
<1>13. QueueInv'
  <2>1. NoDuplicateReusable'
    BY <1>2, <1>7 DEF QueueInv, NoDuplicateReusable
  <2> QED
    BY <2>1, <1>7, <1>8 DEF QueueInv
<1>14. NoIdLost'
  BY <1>6, <1>7, <1>8 DEF NoIdLost, Carriers, Live
<1> QED
  BY <1>10, <1>11, <1>12, <1>13, <1>14

(* A handler takes the next id for a new connection: until the counter wraps  *)
(* nothing has ever held it.                                                  *)
LEMMA FreshStep ==
  ASSUME NoWrap, IInv, NEW x \in Threads, AllocateFresh(x)
  PROVE  IdInv'
<1> DEFINE i == next_peer_id
           r == [thr[x] EXCEPT !.pc = "map", !.id = i]
<1> USE DEF IInv, IdInv
<1> thr[x].pc = "allocate" /\ thr[x].pc \notin Carrying
  BY DEF AllocateFresh, At, Carrying
<1>1. /\ fetched \in Nat /\ i \in Id /\ IdSpace \in Nat /\ MaxFetch \in Nat
      /\ \A j \in Id : closures[j] \in Nat
      /\ Id \subseteq Nat
  BY IdAssumption DEF TypeInv, TypeOK, TablesTyped, Id
<1>2. fetched < IdSpace /\ i = fetched
  BY <1>1 DEF AllocateFresh, NoWrap, FreshInv
<1>3. closures[i] = 0 /\ ~Live(i) /\ ~Queued(i) /\ i \notin retired_peer_ids
  BY <1>1, <1>2 DEF ClosureInv, LiveInv, QueueInv, RetiredInv
<1>4. Become(x, r)
  BY <1>3 DEF AllocateFresh, Candidate
<1> \A y \in Threads : thr'[y] = IF y = x THEN r ELSE thr[y]
  BY <1>4 DEF TypeInv, TypeOK, Become
<1>5. r.pc = "map" /\ r.id = i /\ r.pc \in Carrying /\ r.pc \notin {"announce", "cleanup"}
  BY DEF TypeInv, TypeOK, ThreadState, Carrying
<1>6. /\ UNCHANGED <<peers, closures, orphaned, reusable_peer_ids, retired_peer_ids>>
      /\ fetched' = fetched + 1
      /\ next_peer_id' = IF i + 1 = IdSpace THEN 0 ELSE i + 1
  BY DEF AllocateFresh, tables, events
<1> HIDE DEF r
<1>7. \A j \in Id : j < fetched => j < fetched'
  BY <1>1, <1>6
<1>8. \A y \in Threads : thr[y].pc \in Carrying => thr[y].id \in Id \ {i}
  BY <1>1, <1>2 DEF CarriedInv, TypeInv, Ready, WithId
<1>9. FreshInv' /\ RetiredInv'
  <2>1. FreshInv'
    BY <1>1, <1>2, <1>6 DEF FreshInv
  <2>2. RetiredInv'
    BY <1>6, <1>7 DEF RetiredInv, TypeInv, TypeOK, TablesTyped
  <2> QED
    BY <2>1, <2>2
<1>10. i < fetched'
  BY <1>1, <1>2, <1>6
<1>11. CarriedInv'
  <2>1. ASSUME NEW y \in Threads, NEW j \in Id, y # x, thr[y].pc \in Carrying, thr[y].id = j
        PROVE  /\ j < fetched' /\ j # i /\ peers'[j] = None /\ closures'[j] = 0 /\ ~Queued(j)'
               /\ j \in retired_peer_ids' <=> thr[y].pc \in {"announce", "cleanup"}
               /\ \A z \in Threads : thr[z].pc \in Carrying /\ thr[z].id = j => z = y
    BY <2>1, <1>6, <1>7, <1>8 DEF CarriedInv, Live, Queued
  <2>2. ASSUME NEW j \in Id, j = i
        PROVE  j < fetched' /\ peers'[j] = None /\ closures'[j] = 0 /\ ~Queued(j)' /\ j \notin retired_peer_ids'
    BY <2>2, <1>3, <1>6, <1>10 DEF Live, Queued
  <2>3. ASSUME NEW y \in Threads, thr'[y].pc \in Carrying
        PROVE  thr'[y].id \in Id
    BY <2>3, <1>1, <1>5, <1>8
  <2>4. ASSUME NEW y \in Threads, NEW j \in Id, thr'[y].pc \in Carrying, thr'[y].id = j
        PROVE  /\ j < fetched' /\ peers'[j] = None /\ closures'[j] = 0 /\ ~Queued(j)'
               /\ j \in retired_peer_ids' <=> thr'[y].pc \in {"announce", "cleanup"}
               /\ \A z \in Threads : thr'[z].pc \in Carrying /\ thr'[z].id = j => z = y
    <3>1. CASE y = x
      BY <2>4, <3>1, <2>2, <1>5, <1>8
    <3>2. CASE y # x
      BY <2>4, <3>2, <2>1, <1>5
    <3> QED
      BY <3>1, <3>2
  <2> QED
    BY <2>3, <2>4 DEF CarriedInv, Live
<1>12. LiveInv' /\ ClosureInv' /\ QueueInv'
  BY <1>6, <1>7 DEF LiveInv, ClosureInv, QueueInv, Live, Queued, NoDuplicateReusable
<1>13. \A j \in Id : j < fetched' => j < fetched \/ j = i
  BY <1>1, <1>2, <1>6
<1>14. NoIdLost'
  BY <1>5, <1>6, <1>13 DEF NoIdLost, Carriers, Live, Queued
<1> QED
  BY <1>9, <1>11, <1>12, <1>14

-----------------------------------------------------------------------------
(* The inductive invariant *)

LEMMA IdInit == Init => IdInv
<1> SUFFICES ASSUME Init PROVE IdInv
  OBVIOUS
<1>1. \A x \in Threads : thr[x].pc \notin Carrying
  BY DEF Init, Idle, Carrying
<1>2. \A i \in Id : ~Live(i) /\ closures[i] = 0 /\ ~Queued(i)
  BY DEF Init, Live, Queued
<1>3. FreshInv /\ RetiredInv /\ fetched = 0
  BY DEF Init, FreshInv, RetiredInv
<1>4. QueueInv
  BY <1>2 DEF Init, QueueInv, NoDuplicateReusable
<1>5. CarriedInv /\ LiveInv /\ ClosureInv
  BY <1>1, <1>2 DEF CarriedInv, LiveInv, ClosureInv
<1>6. NoIdLost
  BY <1>3, IdAssumption DEF NoIdLost, Id
<1> QED
  BY <1>3, <1>4, <1>5, <1>6 DEF IdInv

(* A packet only starts a worker *)
LEMMA IdPacket ==
  ASSUME IInv, NEW w \in Workers, Packet(w)
  PROVE  IdInv'
<1> w \in Threads
  BY DEF Threads
<1> DEFINE Quiet == \E r : /\ Become(w, r) /\ thr[w].pc \notin Carrying /\ r.pc \notin Carrying
                           /\ UNCHANGED <<peers, ids, closures>>
<1>1. ASSUME NEW a \in Addr, NEW t \in Time, ReceiveConnectRequest(w, a, t)
      PROVE  Quiet
  BY <1>1 DEF ReceiveConnectRequest, At, Carrying, tables, events
<1>2. ASSUME NEW a \in Addr, NEW t \in Time, ReceiveDisconnect(w, a, t)
      PROVE  Quiet
  BY <1>2 DEF ReceiveDisconnect, At, Carrying, events
<1>3. ASSUME NEW a \in Addr, ReceiveMessage(w, a)
      PROVE  Quiet
  BY <1>3 DEF ReceiveMessage, At, Carrying, Idle, tables, events
<1>4. Quiet
  BY <1>1, <1>2, <1>3 DEF Packet
<1> QED
  BY <1>4, QuietStep

LEMMA IdWorker ==
  ASSUME IInv, NEW w \in Workers, WorkerStep(w)
  PROVE  IdInv'
<1> w \in Threads
  BY DEF Threads
<1> DEFINE q == thr[w]
           i == q.id
           Quiet == \E r : /\ Become(w, r) /\ q.pc \notin Carrying /\ r.pc \notin Carrying
                           /\ UNCHANGED <<peers, ids, closures>>
<1> q \in ThreadState /\ Ready(q) /\ peers \in [Id -> Conn \cup {None}]
  BY DEF IInv, TypeInv, TypeOK, TablesTyped
<1>0. Idle.pc \notin Carrying
  BY DEF Idle, Carrying
<1>1. CASE ExamineExisting(w)
  <2>1. Rest(w) \/ Goto(w, "evict")
    BY <1>1 DEF ExamineExisting
  <2>2. Quiet
    BY <1>0, <1>1, <2>1 DEF ExamineExisting, At, Goto, Rest, Carrying, ThreadState, tables, events
  <2> QED
    BY <2>2, QuietStep
<1>2. CASE EvictExisting(w)
  <2>1. i \in Id /\ q.pc = "evict" /\ q.pc \notin Carrying
    BY <1>2 DEF EvictExisting, At, Ready, WithId, Carrying
  <2>2. CASE Live(i)
    <3> DEFINE r == [q EXCEPT !.pc = "unmap", !.held = peers[i]]
    <3>1. Become(w, r) /\ peers' = [peers EXCEPT ![i] = None] /\ UNCHANGED <<ids, closures>>
      BY <1>2, <2>2 DEF EvictExisting, events
    <3>2. r.pc = "unmap" /\ r.id = i
      BY DEF ThreadState
    <3> HIDE DEF r
    <3> QED
      BY <2>1, <2>2, <3>1, <3>2, Seize
  <2>3. CASE ~Live(i)
    <3> DEFINE r == [q EXCEPT !.pc = "check", !.id = None]
    <3>1. Become(w, r) /\ UNCHANGED <<peers, ids, closures>>
      BY <1>2, <2>1, <2>3 DEF EvictExisting, Live, events
    <3>2. r.pc \notin Carrying
      BY DEF ThreadState, Carrying
    <3> HIDE DEF r
    <3> QED
      BY <2>1, <3>1, <3>2, QuietStep
  <2> QED
    BY <2>2, <2>3
<1>3. CASE CheckPending(w)
  <2>1. Rest(w) \/ Goto(w, "admit")
    BY <1>3 DEF CheckPending
  <2>2. Quiet
    BY <1>0, <1>3, <2>1 DEF CheckPending, At, Goto, Rest, Carrying, ThreadState, tables, events
  <2> QED
    BY <2>2, QuietStep
<1>4. CASE AdmitRequest(w)
  <2>1. Quiet
    BY <1>0, <1>4 DEF AdmitRequest, At, Rest, Carrying
  <2> QED
    BY <2>1, QuietStep
<1>5. CASE TakePeer(w)
  <2>1. i \in Id /\ q.pc = "take" /\ q.pc \notin Carrying
    BY <1>5 DEF TakePeer, At, Ready, WithId, Carrying
  <2>2. CASE ~Live(i)
    <3>1. Become(w, Idle) /\ UNCHANGED <<peers, ids, closures>>
      BY <1>5, <2>1, <2>2 DEF TakePeer, Rest, Live, events
    <3> QED
      BY <1>0, <2>1, <3>1, QuietStep
  <2>3. CASE Live(i) /\ DisconnectMatches(w)
    <3> DEFINE r == [Idle EXCEPT !.pc = "retire", !.id = i]
    <3>1. Become(w, r) /\ peers' = [peers EXCEPT ![i] = None] /\ UNCHANGED <<ids, closures>>
      BY <1>5, <2>3 DEF TakePeer, events
    <3>2. r.pc = "retire" /\ r.id = i
      BY DEF Idle
    <3> HIDE DEF r
    <3> QED
      BY <2>1, <2>3, <3>1, <3>2, Seize
  <2>4. CASE Live(i) /\ ~DisconnectMatches(w)
    <3> DEFINE r == [pc |-> "restore", addr |-> q.addr, time |-> None, id |-> i, held |-> peers[i]]
    <3>1. Become(w, r) /\ peers' = [peers EXCEPT ![i] = None] /\ UNCHANGED <<ids, closures>>
      BY <1>5, <2>4 DEF TakePeer, events
    <3>2. r.pc = "restore" /\ r.id = i
      BY DEF ThreadState
    <3> HIDE DEF r
    <3> QED
      BY <2>1, <2>4, <3>1, <3>2, Seize
  <2> QED
    BY <2>2, <2>3, <2>4
<1>6. CASE RestoreAddr(w)
  <2> DEFINE r == [q EXCEPT !.pc = "reinsert", !.addr = None]
  <2>1. Become(w, r) /\ q.pc = "restore" /\ UNCHANGED <<peers, ids, closures>>
    BY <1>6 DEF RestoreAddr, At, events
  <2>2. r.pc = "reinsert" /\ r.id = i
    BY DEF ThreadState
  <2> HIDE DEF r
  <2> QED
    BY <2>1, <2>2, CarryOn DEF Carrying
<1>7. CASE RestorePeer(w)
  <2>1. q.pc = "reinsert" /\ q.held \in Conn /\ Become(w, Idle)
    BY <1>7 DEF RestorePeer, At, Ready, WithHeld, Rest
  <2>2. peers' = [peers EXCEPT ![i] = q.held] /\ UNCHANGED <<ids, closures>>
    BY <1>7 DEF RestorePeer, events
  <2> QED
    BY <1>0, <2>1, <2>2, Settle
<1>8. CASE Deliver(w)
  <2>1. Quiet
    BY <1>0, <1>8 DEF Deliver, At, Rest, Carrying, tables
  <2> QED
    BY <2>1, QuietStep
<1>9. CASE ShutdownOkFails(w)
  BY <1>9, OrphanStep
<1> QED
  BY <1>1, <1>2, <1>3, <1>4, <1>5, <1>6, <1>7, <1>8, <1>9 DEF WorkerStep

(* Timeouts and disconnect() take a live peer out of the table *)
LEMMA IdRemove ==
  ASSUME IInv, NEW x \in Threads, NEW i \in Id, RemovePeer(x, i)
  PROVE  IdInv'
<1> DEFINE r == [pc |-> "unmap", addr |-> None, time |-> None, id |-> i, held |-> peers[i]]
<1>1. Become(x, r) /\ peers' = [peers EXCEPT ![i] = None] /\ Live(i) /\ UNCHANGED <<ids, closures>>
  BY DEF RemovePeer, events
<1>2. thr[x].pc \notin Carrying
  BY DEF RemovePeer, At, Carrying
<1>3. r.pc = "unmap" /\ r.id = i
  BY DEF Idle
<1> HIDE DEF r
<1> QED
  BY <1>1, <1>2, <1>3, Seize

LEMMA IdClose ==
  ASSUME IInv, NEW x \in Threads, CloseStep(x)
  PROVE  IdInv'
<1> DEFINE q == thr[x]
<1> q \in ThreadState
  BY DEF IInv, TypeInv, TypeOK
<1>1. CASE Unmap(x)
  <2> DEFINE r == [q EXCEPT !.pc = "retire", !.held = None]
  <2>1. Become(x, r) /\ q.pc = "unmap" /\ UNCHANGED <<peers, ids, closures>>
    BY <1>1 DEF Unmap, At, events
  <2>2. r.pc = "retire" /\ r.id = q.id
    BY DEF ThreadState
  <2> HIDE DEF r
  <2> QED
    BY <2>1, <2>2, CarryOn DEF Carrying
<1>2. CASE Retire(x)
  <2>1. PICK r : Become(x, r)
    BY <1>2 DEF Retire, Rest, Goto
  <2> QED
    BY <1>2, <2>1, RetireStep
<1>3. CASE Announce(x)
  <2>1. Idle.pc \notin Carrying /\ [q EXCEPT !.pc = "check", !.id = None].pc \notin Carrying
    BY DEF Idle, Carrying, ThreadState
  <2>2. Become(x, Idle) \/ Become(x, [q EXCEPT !.pc = "check", !.id = None])
    BY <1>3 DEF Announce, Rest
  <2> QED
    BY <1>3, <2>1, <2>2, AnnounceStep
<1> QED
  BY <1>1, <1>2, <1>3 DEF CloseStep

LEMMA IdHandler ==
  ASSUME NoWrap, IInv, NEW h \in Handlers,
         TakeEvent(h) \/ AcceptStep(h) \/ Finish(h) \/ RecycleStep(h)
  PROVE  IdInv'
<1> h \in Threads
  BY DEF Threads
<1> DEFINE q == thr[h]
           Quiet == \E r : /\ Become(h, r) /\ q.pc \notin Carrying /\ r.pc \notin Carrying
                           /\ UNCHANGED <<peers, ids, closures>>
<1> q \in ThreadState /\ Ready(q)
  BY DEF IInv, TypeInv, TypeOK
<1>0. Idle.pc \notin Carrying
  BY DEF Idle, Carrying
<1>1. ASSUME NEW a \in Addr, NEW t \in Time, TakeRequest(h, a, t)
      PROVE  Quiet
  BY <1>1 DEF TakeRequest, At, Carrying, Idle, tables
<1>2. ASSUME NEW i \in Id, TakeMessage(h, i)
      PROVE  Quiet
  BY <1>2 DEF TakeMessage, At, Carrying, Idle, tables
<1>3. ASSUME Accept(h) PROVE Quiet
  BY <1>3 DEF Accept, At, Goto, Carrying, ThreadState, events
<1>4. ASSUME Reject(h) PROVE Quiet
  BY <1>0, <1>4 DEF Reject, At, Rest, Carrying, events
<1>5. ASSUME Finish(h) PROVE Quiet
  BY <1>0, <1>5 DEF Finish, At, Rest, Carrying, tables, events
<1>6. Quiet => IdInv'
  BY QuietStep
<1>7. CASE MapAddr(h)
  <2> DEFINE r == [q EXCEPT !.pc = "insert"]
  <2>1. Become(h, r) /\ q.pc = "map" /\ UNCHANGED <<peers, ids, closures>>
    BY <1>7 DEF MapAddr, At, Goto, events
  <2>2. r.pc = "insert" /\ r.id = q.id
    BY DEF ThreadState
  <2> HIDE DEF r
  <2> QED
    BY <2>1, <2>2, CarryOn DEF Carrying
<1>8. CASE InsertPeer(h)
  <2> DEFINE c == [addr |-> q.addr, time |-> q.time]
             r == [Idle EXCEPT !.pc = "accepted", !.id = q.id]
  <2>1. q.pc = "insert" /\ Become(h, r) /\ peers' = [peers EXCEPT ![q.id] = c] /\ UNCHANGED <<ids, closures>>
    BY <1>8 DEF InsertPeer, At, events
  <2>2. c \in Conn
    BY <2>1 DEF Ready, WithAddr, WithTime, Conn
  <2>3. r.pc \notin Carrying
    BY DEF Idle, Carrying
  <2> HIDE DEF c, r
  <2> QED
    BY <2>1, <2>2, <2>3, Settle
<1> QED
  BY <1>1, <1>2, <1>3, <1>4, <1>5, <1>6, <1>7, <1>8,
     TakeClosureStep, ReuseStep, FreshStep, ReleaseStep, RecycleIdStep
  DEF TakeEvent, AcceptStep, RecycleStep

LEMMA IInvStep == NoWrap /\ IInv /\ [Next]_vars => IInv'
<1> SUFFICES ASSUME NoWrap, IInv, [Next]_vars PROVE IInv'
  OBVIOUS
<1>1. TypeInv'
  BY TypeStep DEF IInv
<1>2. CASE UNCHANGED vars
  <2> USE <1>2 DEF IInv, IdInv, vars, tables, ids, events
  <2>1. CarriedInv' /\ NoIdLost'
    BY DEF CarriedInv, NoIdLost, Carriers, Live, Queued
  <2>2. FreshInv' /\ LiveInv' /\ ClosureInv' /\ QueueInv' /\ RetiredInv'
    BY DEF FreshInv, LiveInv, ClosureInv, QueueInv, RetiredInv, NoDuplicateReusable, Live, Queued
  <2> QED
    BY <1>1, <2>1, <2>2
<1>3. CASE Next
  <2>1. IdInv'
    BY <1>3, IdPacket, IdWorker, IdHandler, IdRemove, IdClose
    DEF Next, Threads, Expire, Disconnect
  <2> QED
    BY <1>1, <2>1 DEF IInv
<1> QED
  BY <1>2, <1>3

(* As long as next_peer_id has not wrapped, each id is in one place at a time *)
(* and none is lost: the invariant that everything about ids rests on.        *)
THEOREM IdsInOnePlace == ASSUME NoWrap PROVE Spec => []IInv
<1>1. Init => IInv
  BY TypeInit, IdInit DEF IInv
<1>2. IInv /\ [Next]_vars => IInv'
  BY IInvStep
<1> QED
  BY <1>1, <1>2, PTL DEF Spec

LEMMA IInvImplies ==
  IInv => ReuseOnlyAfterCleanup /\ OneClosurePerConnection /\ NoIdLost
<1> SUFFICES ASSUME IInv PROVE ReuseOnlyAfterCleanup /\ OneClosurePerConnection /\ NoIdLost
  OBVIOUS
<1> USE DEF IInv, IdInv
<1>1. ReuseOnlyAfterCleanup
  BY DEF ReuseOnlyAfterCleanup, CarriedInv, Carriers, Carrying, Threads
<1>2. OneClosurePerConnection
  <2> SUFFICES ASSUME NEW i \in Id
               PROVE  /\ closures[i] <= 1
                      /\ closures[i] > 0 => Doing("cleanup", i) = {} /\ Doing("announce", i) = {}
                      /\ \A x, y \in Doing("cleanup", i) \cup Doing("announce", i) : x = y
                      /\ closures[i] > 0 \/ Doing("cleanup", i) \cup Doing("announce", i) # {} => ~Live(i)
    BY DEF OneClosurePerConnection
  <2>1. closures[i] \in Nat
    BY DEF TypeInv, TypeOK, TablesTyped
  <2>2. closures[i] <= 1 /\ (closures[i] > 0 => ~Live(i))
    BY <2>1 DEF ClosureInv, LiveInv
  <2>3. \A x \in Doing("cleanup", i) \cup Doing("announce", i) :
          x \in Threads /\ thr[x].pc \in Carrying /\ thr[x].id = i
    BY DEF Doing, Carrying
  <2> QED
    BY <2>1, <2>2, <2>3 DEF CarriedInv
<1> QED
  BY <1>1, <1>2

(* A peer id is given to a new connection only after the connection that had  *)
(* it is gone and the core has cleaned up after it.                           *)
THEOREM ReuseIsSafe == ASSUME NoWrap PROVE Spec => []ReuseOnlyAfterCleanup
<1>1. Spec => []IInv
  BY IdsInOnePlace
<1> QED
  BY <1>1, IInvImplies, PTL

(* The core is told exactly once of each connection that ends *)
THEOREM ClosedOnce == ASSUME NoWrap PROVE Spec => []OneClosurePerConnection
<1>1. Spec => []IInv
  BY IdsInOnePlace
<1> QED
  BY <1>1, IInvImplies, PTL

(* No id leaks but by disconnect() and by a failed ShutdownOk *)
THEOREM NoLeak == ASSUME NoWrap PROVE Spec => []NoIdLost
<1>1. Spec => []IInv
  BY IdsInOnePlace
<1> QED
  BY <1>1, IInvImplies, PTL

-----------------------------------------------------------------------------
(* The table and the requests *)

LEMMA OverwriteStep ==
  ASSUME IInv, [Next]_vars, NEW i \in Id, peers[i] # None
  PROVE  peers'[i] \in {peers[i], None}
<1> USE DEF IInv, TypeInv, TypeOK, TablesTyped
<1>1. CASE UNCHANGED peers
  BY <1>1
<1>2. ASSUME NEW x \in Threads, thr[x].pc = "insert" \/ thr[x].pc = "reinsert"
      PROVE  thr[x].id # i
  BY <1>2 DEF IdInv, CarriedInv, Carrying, Live
<1>3. ASSUME NEW j, peers' = [peers EXCEPT ![j] = None]
      PROVE  peers'[i] \in {peers[i], None}
  BY <1>3
<1>4. ASSUME NEW w \in Workers, WorkerStep(w)
      PROVE  peers'[i] \in {peers[i], None}
  <2>1. CASE EvictExisting(w) \/ TakePeer(w)
    BY <2>1, <1>3 DEF EvictExisting, TakePeer
  <2>2. CASE RestorePeer(w)
    <3>1. w \in Threads /\ thr[w].pc = "reinsert"
      BY <2>2 DEF RestorePeer, At, Threads
    <3>2. thr[w].id # i
      BY <3>1, <1>2
    <3> QED
      BY <2>2, <3>2 DEF RestorePeer
  <2>3. ASSUME ~EvictExisting(w), ~TakePeer(w), ~RestorePeer(w)
        PROVE  UNCHANGED peers
    BY <1>4, <2>3
    DEF WorkerStep, ExamineExisting, CheckPending, AdmitRequest, RestoreAddr, Deliver,
        ShutdownOkFails, tables
  <2> QED
    BY <2>1, <2>2, <2>3, <1>1
<1>5. ASSUME NEW h \in Handlers, AcceptStep(h)
      PROVE  peers'[i] \in {peers[i], None}
  <2>1. CASE InsertPeer(h)
    <3>1. h \in Threads /\ thr[h].pc = "insert"
      BY <2>1 DEF InsertPeer, At, Threads
    <3>2. thr[h].id # i
      BY <3>1, <1>2
    <3> QED
      BY <2>1, <3>2 DEF InsertPeer
  <2>2. ASSUME ~InsertPeer(h) PROVE UNCHANGED peers
    BY <1>5, <2>2
    DEF AcceptStep, Accept, Reject, AllocateReused, AllocateFresh, MapAddr, tables
  <2> QED
    BY <2>1, <2>2, <1>1
<1>6. ASSUME NEW h \in Handlers, TakeEvent(h) \/ Finish(h) \/ RecycleStep(h)
      PROVE  UNCHANGED peers
  BY <1>6 DEF TakeEvent, TakeRequest, TakeMessage, TakeClosure, Finish, RecycleStep, ReleaseId, Recycle, tables
<1>7. ASSUME NEW w \in Workers, Packet(w)
      PROVE  UNCHANGED peers
  BY <1>7 DEF Packet, ReceiveConnectRequest, ReceiveDisconnect, ReceiveMessage, tables
<1>8. ASSUME NEW x \in Threads, CloseStep(x)
      PROVE  UNCHANGED peers
  BY <1>8 DEF CloseStep, Unmap, Retire, Announce, tables
<1>9. CASE UNCHANGED vars
  BY <1>1, <1>9 DEF vars, tables
<1> QED
  BY <1>1, <1>3, <1>4, <1>5, <1>6, <1>7, <1>8, <1>9 DEF Next, Expire, Disconnect, RemovePeer

(* No step replaces the connection of a live peer by another one *)
THEOREM NoOverwrite == ASSUME NoWrap PROVE Spec => NoLiveOverwrite
<1>1. Spec => []IInv
  BY IdsInOnePlace
<1>2. IInv /\ [Next]_vars => [\A i \in Id : peers[i] # None => peers'[i] \in {peers[i], None}]_vars
  BY OverwriteStep
<1> QED
  BY <1>1, <1>2, PTL DEF Spec, NoLiveOverwrite

(* A step takes away the request behind a pending mark only with the mark *)
LEMMA PendingStep == TypeInv /\ PendingHasRequest /\ [Next]_vars => PendingHasRequest'
<1> SUFFICES ASSUME TypeInv, PendingHasRequest, [Next]_vars, NEW b \in Addr, pending_requests'[b] # None
             PROVE  \/ \E t \in Time : requests'[b][t] > 0
                    \/ \E h \in Handlers : thr'[h].pc = "decide" /\ thr'[h].addr = b
  BY DEF PendingHasRequest, At
<1> USE DEF TypeInv, TypeOK, TablesTyped
<1> DEFINE Backed(n) == \/ \E t \in Time : requests[n][t] > 0
                        \/ \E h \in Handlers : thr[h].pc = "decide" /\ thr[h].addr = n
<1>0. pending_requests[b] # None => Backed(b)
  BY DEF PendingHasRequest, At
<1>1. ASSUME NEW x \in Threads, NEW r, Become(x, r), thr[x].pc # "decide",
             UNCHANGED <<pending_requests, requests>>
      PROVE  Backed(b)'
  BY <1>0, <1>1 DEF Become
<1>2. ASSUME NEW w \in Workers, Packet(w) PROVE Backed(b)'
  <2>1. PICK r : Become(w, r) /\ thr[w].pc # "decide" /\ UNCHANGED <<pending_requests, requests>>
    BY <1>2 DEF Packet, ReceiveConnectRequest, ReceiveDisconnect, ReceiveMessage, At, tables, events
  <2> QED
    BY <2>1, <1>1 DEF Threads
<1>3. ASSUME NEW w \in Workers, AdmitRequest(w) PROVE Backed(b)'
  <2> DEFINE a == thr[w].addr
             t == thr[w].time
  <2>1. /\ a \in Addr /\ t \in Time /\ thr[w].pc # "decide" /\ w \in Threads
        /\ Become(w, Idle)
        /\ pending_requests' = [pending_requests EXCEPT ![a] = t]
        /\ requests' = [requests EXCEPT ![a][t] = @ + 1]
    BY <1>3 DEF AdmitRequest, At, Ready, WithAddr, WithTime, Rest, Threads
  <2>2. CASE b = a
    BY <2>1, <2>2
  <2>3. CASE b # a
    BY <1>0, <2>1, <2>3 DEF Become
  <2> QED
    BY <2>2, <2>3
<1>4. ASSUME NEW w \in Workers, WorkerStep(w), ~AdmitRequest(w) PROVE Backed(b)'
  <2>1. PICK r : Become(w, r) /\ thr[w].pc # "decide" /\ UNCHANGED <<pending_requests, requests>>
    BY <1>4
    DEF WorkerStep, ExamineExisting, EvictExisting, CheckPending, TakePeer, RestoreAddr, RestorePeer,
        Deliver, ShutdownOkFails, At, Goto, Rest, tables, events
  <2> QED
    BY <2>1, <1>1 DEF Threads
<1>5. ASSUME NEW x \in Threads, CloseStep(x) \/ \E i \in Id : RemovePeer(x, i) PROVE Backed(b)'
  <2>1. PICK r : Become(x, r) /\ thr[x].pc # "decide" /\ UNCHANGED <<pending_requests, requests>>
    BY <1>5 DEF CloseStep, Unmap, Retire, Announce, RemovePeer, At, Goto, Rest, tables, events
  <2> QED
    BY <2>1, <1>1
<1>6. ASSUME NEW h \in Handlers, NEW a \in Addr, NEW t \in Time, TakeRequest(h, a, t) PROVE Backed(b)'
  <2> DEFINE r == [pc |-> "decide", addr |-> a, time |-> t, id |-> None, held |-> None]
  <2>1. /\ Become(h, r) /\ thr[h].pc # "decide" /\ h \in Threads
        /\ requests' = [requests EXCEPT ![a][t] = @ - 1]
        /\ UNCHANGED pending_requests
    BY <1>6 DEF TakeRequest, At, Threads, tables
  <2>2. r.pc = "decide" /\ r.addr = a
    BY DEF Idle
  <2> HIDE DEF r
  <2>3. CASE b = a
    BY <1>6, <2>1, <2>2, <2>3 DEF Become
  <2>4. CASE b # a
    BY <1>0, <2>1, <2>4 DEF Become
  <2> QED
    BY <2>3, <2>4
<1>7. ASSUME NEW h \in Handlers, Accept(h) \/ Reject(h) PROVE Backed(b)'
  <2>1. PICK r : /\ Become(h, r) /\ h \in Threads
                 /\ pending_requests' = [pending_requests EXCEPT ![thr[h].addr] = None]
                 /\ UNCHANGED requests
    BY <1>7 DEF Accept, Reject, Goto, Rest, Threads, events
  <2>2. b # thr[h].addr /\ pending_requests[b] # None
    BY <2>1
  <2> QED
    BY <1>0, <2>1, <2>2 DEF Become
<1>8. ASSUME NEW h \in Handlers,
             \/ \E i \in Id : TakeMessage(h, i) \/ TakeClosure(h, i)
             \/ AllocateReused(h) \/ AllocateFresh(h) \/ MapAddr(h) \/ InsertPeer(h)
             \/ Finish(h) \/ RecycleStep(h)
      PROVE  Backed(b)'
  <2>1. h \in Threads /\ thr[h].pc # "decide" /\ UNCHANGED <<pending_requests, requests>>
    BY <1>8
    DEF TakeMessage, TakeClosure, AllocateReused, AllocateFresh, MapAddr, InsertPeer, Finish,
        RecycleStep, ReleaseId, Recycle, At, Threads, tables, events
  <2>2. UNCHANGED thr \/ \E r : Become(h, r)
    BY <1>8
    DEF TakeMessage, TakeClosure, AllocateReused, AllocateFresh, Candidate, MapAddr, InsertPeer,
        Finish, RecycleStep, ReleaseId, Recycle, Goto, Rest
  <2>3. CASE UNCHANGED thr
    BY <1>0, <2>1, <2>3
  <2> QED
    BY <2>1, <2>2, <2>3, <1>1
<1>9. CASE UNCHANGED vars
  BY <1>0, <1>9 DEF vars, tables, events
<1>10. Backed(b)'
  BY <1>2, <1>3, <1>4, <1>5, <1>6, <1>7, <1>8, <1>9
  DEF Next, TakeEvent, AcceptStep, Expire, Disconnect, Threads
<1> QED
  BY <1>10

(* Whoever is marked as pending is answered: its request is in the channel or *)
(* in the hands of a handler.                                                 *)
THEOREM PendingBacked == Spec => []PendingHasRequest
<1>1. Init => PendingHasRequest
  BY DEF Init, PendingHasRequest
<1> QED
  BY <1>1, TypeCorrect, PendingStep, PTL DEF Spec

(* Only Recycle adds to the queue, and it searches the queue first *)
LEMMA QueueStep == TypeInv /\ NoDuplicateReusable /\ [Next]_vars => NoDuplicateReusable'
<1> SUFFICES ASSUME TypeInv, NoDuplicateReusable, [Next]_vars PROVE NoDuplicateReusable'
  OBVIOUS
<1> DEFINE q == reusable_peer_ids
<1>0. q \in Seq(Id)
  BY DEF TypeInv, TypeOK, TablesTyped
<1>1. ASSUME UNCHANGED q PROVE NoDuplicateReusable'
  BY <1>1 DEF NoDuplicateReusable
<1>2. ASSUME NEW h \in Handlers, AllocateReused(h) PROVE NoDuplicateReusable'
  <2>1. q # <<>> /\ q' = Tail(q)
    BY <1>2 DEF AllocateReused
  <2>2. Len(q') = Len(q) - 1 /\ \A k \in 1 .. Len(q') : q'[k] = q[k + 1]
    BY <1>0, <2>1
  <2> QED
    BY <1>0, <2>1, <2>2 DEF NoDuplicateReusable
<1>3. ASSUME NEW h \in Handlers, Recycle(h) PROVE NoDuplicateReusable'
  <2>1. CASE Queued(thr[h].id)
    BY <1>1, <1>3, <2>1 DEF Recycle
  <2>2. CASE ~Queued(thr[h].id)
    <3>1. thr[h].id \in Id
      BY <1>3 DEF TypeInv, Ready, WithId, Carrying, Recycle, At, Threads
    <3>2. q' = Append(q, thr[h].id)
      BY <1>3, <2>2 DEF Recycle
    <3>3. /\ Len(q') = Len(q) + 1 /\ q'[Len(q) + 1] = thr[h].id
          /\ \A k \in 1 .. Len(q) : q'[k] = q[k] /\ q[k] # thr[h].id
      BY <1>0, <2>2, <3>1, <3>2 DEF Queued
    <3> QED
      BY <1>0, <3>1, <3>2, <3>3 DEF NoDuplicateReusable
  <2> QED
    BY <2>1, <2>2
<1>4. ASSUME NEW w \in Workers, Packet(w) \/ WorkerStep(w) PROVE UNCHANGED q
  BY <1>4 DEF Packet, ReceiveConnectRequest, ReceiveDisconnect, ReceiveMessage, WorkerStep,
       ExamineExisting, EvictExisting, CheckPending, AdmitRequest, TakePeer, RestoreAddr,
       RestorePeer, Deliver, ShutdownOkFails, ids
<1>5. ASSUME NEW h \in Handlers, TakeEvent(h) \/ Accept(h) \/ Reject(h) \/ AllocateFresh(h)
                                 \/ MapAddr(h) \/ InsertPeer(h) \/ Finish(h) \/ ReleaseId(h)
      PROVE  UNCHANGED q
  BY <1>5 DEF TakeEvent, TakeRequest, TakeMessage, TakeClosure, Accept, Reject, AllocateFresh,
       MapAddr, InsertPeer, Finish, ReleaseId, ids
<1>6. ASSUME NEW x \in Threads, CloseStep(x) PROVE UNCHANGED q
  BY <1>6 DEF CloseStep, Unmap, Retire, Announce, ids
<1>7. ASSUME NEW x \in Threads, NEW i \in Id, RemovePeer(x, i) PROVE UNCHANGED q
  BY <1>7 DEF RemovePeer, ids
<1>8. CASE UNCHANGED vars
  BY <1>1, <1>8 DEF vars, ids
<1> QED
  BY <1>1, <1>2, <1>3, <1>4, <1>5, <1>6, <1>7, <1>8
  DEF Next, AcceptStep, RecycleStep, Expire, Disconnect, Threads

(* The queue of reusable ids never holds an id twice, also after next_peer_id *)
(* has wrapped: a handler that recycles an id searches the queue for it under *)
(* the lock with which it adds the id.                                        *)
THEOREM NoDuplicates == Spec => []NoDuplicateReusable
<1>1. Init => NoDuplicateReusable
  BY DEF Init, NoDuplicateReusable
<1> QED
  BY <1>1, TypeCorrect, QueueStep, PTL DEF Spec

-----------------------------------------------------------------------------
(* PeerTable implements PeerIds: each step moves one id along its life cycle, *)
(* or none.                                                                   *)

Carries(x, i) == thr[x].pc \in Carrying /\ thr[x].id = i

(* Where an id is, its phase and its connection go together *)
Placed ==
  /\ \A x \in Threads, i \in Id : Carries(x, i) =>
       /\ PhaseOf(i) = PhaseAt[thr[x].pc]
       /\ ConnOf(i) = IF PhaseAt[thr[x].pc] = "held" THEN thr[x].held ELSE None
  /\ \A i \in Id : Live(i) => PhaseOf(i) = "live" /\ ConnOf(i) = peers[i]
  /\ \A i \in Id : closures[i] > 0 => PhaseOf(i) = "told" /\ ConnOf(i) = None
  /\ \A i \in Id : ~Live(i) /\ ~(closures[i] > 0) /\ (\A x \in Threads : ~Carries(x, i)) =>
       /\ PhaseOf(i) = IF Queued(i) \/ ~(i < fetched) THEN "free" ELSE "lost"
       /\ ConnOf(i) = None

LEMMA PlacedNow == IInv => Placed
<1> SUFFICES ASSUME IInv PROVE Placed
  OBVIOUS
<1> USE DEF IInv, TypeInv, TypeOK, TablesTyped, IdInv
<1>1. ASSUME NEW x \in Threads, NEW i \in Id, Carries(x, i)
      PROVE  /\ PhaseOf(i) = PhaseAt[thr[x].pc]
             /\ ConnOf(i) = IF PhaseAt[thr[x].pc] = "held" THEN thr[x].held ELSE None
  <2>1. Carriers(i) = {x}
    BY <1>1 DEF Carries, Carriers, CarriedInv
  <2>2. Carrier(i) = thr[x]
    BY <2>1 DEF Carrier
  <2>3. ~Live(i) /\ closures[i] = 0
    BY <1>1 DEF Carries, CarriedInv
  <2>4. PhaseOf(i) = PhaseAt[thr[x].pc]
    BY <2>1, <2>2, <2>3 DEF PhaseOf
  <2> QED
    BY <2>2, <2>3, <2>4 DEF ConnOf, Live
<1>2. ASSUME NEW i \in Id, Live(i) PROVE PhaseOf(i) = "live" /\ ConnOf(i) = peers[i]
  BY <1>2 DEF PhaseOf, ConnOf
<1>3. ASSUME NEW i \in Id, closures[i] > 0 PROVE PhaseOf(i) = "told" /\ ConnOf(i) = None
  <2>1. ~Live(i)
    BY <1>3 DEF LiveInv
  <2> QED
    BY <1>3, <2>1 DEF PhaseOf, ConnOf, Live
<1>4. ASSUME NEW i \in Id, ~Live(i), ~(closures[i] > 0), \A x \in Threads : ~Carries(x, i)
      PROVE  /\ PhaseOf(i) = IF Queued(i) \/ ~(i < fetched) THEN "free" ELSE "lost"
             /\ ConnOf(i) = None
  <2>1. Carriers(i) = {}
    BY <1>4 DEF Carriers, Carries
  <2> QED
    BY <1>4, <2>1 DEF PhaseOf, ConnOf, Live
<1> QED
  BY <1>1, <1>2, <1>3, <1>4 DEF Placed

LEMMA PlacedNext == IInv' => Placed'
  BY PlacedNow, PTL

-----------------------------------------------------------------------------

Same(i) == PhaseOf(i)' = PhaseOf(i) /\ ConnOf(i)' = ConnOf(i)

(* A step of one thread that does not touch an id leaves it in its phase *)
LEMMA Frame ==
  ASSUME IInv, IInv', NEW x \in Threads, \A y \in Threads \ {x} : thr'[y] = thr[y],
         NEW i \in Id, peers'[i] = peers[i], closures'[i] = closures[i],
         Queued(i)' <=> Queued(i), (i < fetched') <=> (i < fetched),
         Carries(x, i)' <=> Carries(x, i),
         Carries(x, i) => /\ PhaseAt[thr'[x].pc] = PhaseAt[thr[x].pc]
                          /\ PhaseAt[thr[x].pc] = "held" => thr'[x].held = thr[x].held
  PROVE  Same(i)
<1> Placed /\ Placed'
  BY PlacedNow, PlacedNext
<1>1. CASE Live(i)
  BY <1>1 DEF Placed, Same, Live
<1>2. CASE closures[i] > 0
  BY <1>2 DEF Placed, Same
<1>3. CASE Carries(x, i)
  BY <1>3 DEF Placed, Same
<1>4. ASSUME NEW y \in Threads \ {x}, Carries(y, i) PROVE Same(i)
  <2>1. Carries(y, i)'
    BY <1>4 DEF Carries
  <2> QED
    BY <1>4, <2>1 DEF Placed, Same
<1>5. CASE ~Live(i) /\ ~(closures[i] > 0) /\ \A y \in Threads : ~Carries(y, i)
  <2>1. ~Live(i)' /\ ~(closures'[i] > 0)
    BY <1>5 DEF Live
  <2>2. \A y \in Threads : ~Carries(y, i)'
    BY <1>5 DEF Carries
  <2> QED
    BY <1>5, <2>1, <2>2 DEF Placed, Same
<1> QED
  BY <1>1, <1>2, <1>3, <1>4, <1>5

Stutter == UNCHANGED <<[i \in Id |-> PhaseOf(i)], [i \in Id |-> ConnOf(i)]>>

LEMMA AllSame == ASSUME \A i \in Id : Same(i) PROVE Stutter
  BY DEF Same, Stutter

LEMMA OneMoves ==
  ASSUME NEW i \in Id, \A j \in Id \ {i} : Same(j),
         PhaseOf(i)' \in Ids!After[PhaseOf(i)],
         ConnOf(i)' \in IF PhaseOf(i) = "claimed" THEN Conn
                        ELSE IF PhaseOf(i)' = "closing" THEN {None} ELSE {ConnOf(i)}
  PROVE  Ids!Next
<1> Ids!Step(i)
  BY DEF Ids!Step, Ids!ConnAfter, Same
<1> QED
  BY DEF Ids!Next

-----------------------------------------------------------------------------
(* The kinds of step *)

(* What a step of thread x, which becomes r, leaves as it was for the ids of  *)
(* the others.                                                                *)
LEMMA Others ==
  ASSUME IInv, IInv', NEW x \in Threads, NEW r, Become(x, r), NEW i \in Id,
         thr[x].pc \in Carrying => thr[x].id = i, r.pc \in Carrying => r.id = i,
         \A j \in Id \ {i} : /\ peers'[j] = peers[j] /\ closures'[j] = closures[j]
                             /\ Queued(j)' <=> Queued(j)
                             /\ (j < fetched') <=> (j < fetched)
  PROVE  \A j \in Id \ {i} : Same(j)
<1> \A y \in Threads : thr'[y] = IF y = x THEN r ELSE thr[y]
  BY DEF IInv, TypeInv, TypeOK, Become
<1> SUFFICES ASSUME NEW j \in Id \ {i} PROVE Same(j)
  OBVIOUS
<1>1. ~Carries(x, j) /\ ~Carries(x, j)'
  BY DEF Carries
<1> QED
  BY <1>1, Frame

LEMMA QuietIsSame ==
  ASSUME IInv, IInv', NEW x \in Threads, NEW r, Become(x, r),
         thr[x].pc \notin Carrying, r.pc \notin Carrying, UNCHANGED <<peers, ids, closures>>
  PROVE  Stutter
<1> \A y \in Threads : thr'[y] = IF y = x THEN r ELSE thr[y]
  BY DEF IInv, TypeInv, TypeOK, Become
<1> SUFFICES ASSUME NEW j \in Id PROVE Same(j)
  BY AllSame
<1>1. ~Carries(x, j) /\ ~Carries(x, j)' /\ (Queued(j)' <=> Queued(j))
  BY DEF Carries, Queued, ids
<1> QED
  BY <1>1, Frame DEF ids

(* A thread goes on with the id it carries, in the same phase or the next *)
LEMMA CarryOnMoves ==
  ASSUME IInv, IInv', NEW x \in Threads, NEW r, Become(x, r),
         thr[x].pc \in Carrying, r.pc \in Carrying, r.id = thr[x].id,
         UNCHANGED <<peers, fetched, reusable_peer_ids, closures>>,
         \/ PhaseAt[r.pc] = PhaseAt[thr[x].pc] /\ (PhaseAt[r.pc] = "held" => r.held = thr[x].held)
         \/ PhaseAt[thr[x].pc] = "closing" /\ PhaseAt[r.pc] = "retired"
  PROVE  Stutter \/ Ids!Next
<1> DEFINE i == thr[x].id
<1> \A y \in Threads : thr'[y] = IF y = x THEN r ELSE thr[y]
  BY DEF IInv, TypeInv, TypeOK, Become
<1> i \in Id
  BY DEF IInv, TypeInv, Ready, WithId
<1>1. ASSUME NEW k \in Id, k = i PROVE Stutter \/ Ids!Next
  <2>1. \A j \in Id \ {k} : Same(j)
    BY <1>1, Others DEF Queued
  <2>2. Placed /\ Placed'
    BY PlacedNow, PlacedNext
  <2>3. Carries(x, k) /\ Carries(x, k)'
    BY <1>1 DEF Carries
  <2>4. /\ PhaseOf(k) = PhaseAt[thr[x].pc] /\ PhaseOf(k)' = PhaseAt[r.pc]
        /\ ConnOf(k) = IF PhaseAt[thr[x].pc] = "held" THEN thr[x].held ELSE None
        /\ ConnOf(k)' = IF PhaseAt[r.pc] = "held" THEN r.held ELSE None
    BY <2>2, <2>3 DEF Placed
  <2>5. CASE PhaseAt[r.pc] = PhaseAt[thr[x].pc] /\ (PhaseAt[r.pc] = "held" => r.held = thr[x].held)
    <3>1. Same(k)
      BY <2>4, <2>5 DEF Same
    <3> QED
      BY <2>1, <3>1, AllSame
  <2>6. CASE PhaseAt[thr[x].pc] = "closing" /\ PhaseAt[r.pc] = "retired"
    BY <2>1, <2>4, <2>6, OneMoves DEF Ids!After
  <2> QED
    BY <2>5, <2>6
<1> QED
  BY <1>1

(* A live connection is taken out of the table *)
LEMMA SeizeMoves ==
  ASSUME IInv, IInv', NEW x \in Threads, NEW i \in Id, NEW r, Become(x, r),
         thr[x].pc \notin Carrying, Live(i), r.pc \in {"unmap", "retire", "restore"}, r.id = i,
         r.pc = "restore" => r.held = peers[i],
         peers' = [peers EXCEPT ![i] = None], UNCHANGED <<ids, closures>>
  PROVE  Ids!Next
<1> \A y \in Threads : thr'[y] = IF y = x THEN r ELSE thr[y]
  BY DEF IInv, TypeInv, TypeOK, Become
<1>1. \A j \in Id \ {i} : Same(j)
  BY Others DEF Queued, ids, IInv, TypeInv, TypeOK, TablesTyped
<1>2. PhaseOf(i) = "live" /\ ConnOf(i) = peers[i]
  BY PlacedNow DEF Placed
<1>3. Carries(x, i)'
  BY DEF Carries, Carrying
<1>4. /\ PhaseOf(i)' = IF r.pc = "restore" THEN "held" ELSE "closing"
      /\ ConnOf(i)' = IF r.pc = "restore" THEN peers[i] ELSE None
  BY <1>3, PlacedNext DEF Placed, PhaseAt
<1> QED
  BY <1>1, <1>2, <1>4, OneMoves DEF Ids!After

(* A connection is entered in the table, or put back *)
LEMMA SettleMoves ==
  ASSUME IInv, IInv', NEW x \in Threads, NEW r, Become(x, r), NEW c \in Conn,
         thr[x].pc \in {"insert", "reinsert"}, r.pc \notin Carrying,
         thr[x].pc = "reinsert" => c = thr[x].held,
         peers' = [peers EXCEPT ![thr[x].id] = c], UNCHANGED <<ids, closures>>
  PROVE  Ids!Next
<1> \A y \in Threads : thr'[y] = IF y = x THEN r ELSE thr[y]
  BY DEF IInv, TypeInv, TypeOK, Become
<1> thr[x].id \in Id /\ thr[x].pc \in Carrying
  BY DEF IInv, TypeInv, Ready, WithId, Carrying
<1>1. ASSUME NEW i \in Id, i = thr[x].id PROVE Ids!Next
  <2>1. \A j \in Id \ {i} : Same(j)
    BY <1>1, Others DEF Queued, ids, IInv, TypeInv, TypeOK, TablesTyped
  <2>2. Carries(x, i) /\ peers'[i] = c /\ c # None
    BY <1>1, NoneAssumption DEF Carries, IInv, TypeInv, TypeOK, TablesTyped
  <2>3. /\ PhaseOf(i) = IF thr[x].pc = "insert" THEN "claimed" ELSE "held"
        /\ ConnOf(i) = IF thr[x].pc = "insert" THEN None ELSE thr[x].held
    BY <2>2, PlacedNow DEF Placed, PhaseAt
  <2>4. PhaseOf(i)' = "live" /\ ConnOf(i)' = c
    BY <2>2, PlacedNext DEF Placed, Live
  <2> QED
    BY <2>1, <2>3, <2>4, OneMoves DEF Ids!After
<1> QED
  BY <1>1

(* A thread lets go of the id it carries *)
LEMMA LetGo ==
  ASSUME IInv, NEW x \in Threads, NEW r, Become(x, r), NEW i \in Id,
         thr[x].pc \in Carrying, thr[x].id = i, r.pc \notin Carrying
  PROVE  /\ PhaseOf(i) = PhaseAt[thr[x].pc]
         /\ PhaseAt[thr[x].pc] # "held" => ConnOf(i) = None
         /\ \A y \in Threads : ~Carries(y, i)'
<1> \A y \in Threads : thr'[y] = IF y = x THEN r ELSE thr[y]
  BY DEF IInv, TypeInv, TypeOK, Become
<1>1. Carries(x, i) /\ \A y \in Threads : Carries(y, i) => y = x
  BY DEF Carries, IInv, IdInv, CarriedInv
<1> QED
  BY <1>1, PlacedNow DEF Placed, Carries

LEMMA TellMoves ==
  ASSUME IInv, IInv', NEW x \in Threads, NEW r, Become(x, r), r.pc \notin Carrying, Announce(x)
  PROVE  Ids!Next
<1> thr[x].pc = "announce" /\ thr[x].id \in Id /\ thr[x].pc \in Carrying
  BY DEF Announce, At, IInv, TypeInv, Ready, WithId, Carrying
<1>1. ASSUME NEW i \in Id, i = thr[x].id PROVE Ids!Next
  <2>1. UNCHANGED <<peers, fetched, reusable_peer_ids>>
    BY DEF Announce, tables, ids
  <2>2. \A j \in Id : closures'[j] = IF j = i THEN closures[i] + 1 ELSE closures[j]
    BY <1>1 DEF Announce, IInv, TypeInv, TypeOK, TablesTyped
  <2>3. \A j \in Id \ {i} : Same(j)
    BY <1>1, <2>1, <2>2, Others DEF Queued
  <2>4. PhaseOf(i) = "retired" /\ ConnOf(i) = None
    BY <1>1, LetGo DEF PhaseAt
  <2>5. closures'[i] > 0
    BY <2>2 DEF IInv, TypeInv, TypeOK, TablesTyped
  <2>6. PhaseOf(i)' = "told" /\ ConnOf(i)' = None
    BY <2>5, PlacedNext DEF Placed
  <2> QED
    BY <2>3, <2>4, <2>6, OneMoves DEF Ids!After
<1> QED
  BY <1>1

(* An id that nothing tells the core of is lost *)
LEMMA LoseMoves ==
  ASSUME IInv, IInv', NEW x \in Threads, NEW r, Become(x, r), r.pc \notin Carrying,
         thr[x].pc \in {"retire", "announce"},
         UNCHANGED <<peers, fetched, reusable_peer_ids, closures>>
  PROVE  Ids!Next
<1> thr[x].id \in Id /\ thr[x].pc \in Carrying
  BY DEF IInv, TypeInv, Ready, WithId, Carrying
<1>1. ASSUME NEW i \in Id, i = thr[x].id PROVE Ids!Next
  <2>1. \A j \in Id \ {i} : Same(j)
    BY <1>1, Others DEF Queued
  <2>2. PhaseOf(i) \in {"closing", "retired"} /\ ConnOf(i) = None /\ \A y \in Threads : ~Carries(y, i)'
    BY <1>1, LetGo DEF PhaseAt
  <2>3. i < fetched /\ ~Live(i) /\ closures[i] = 0 /\ ~Queued(i)
    BY <1>1 DEF IInv, IdInv, CarriedInv
  <2>4. i < fetched' /\ ~Live(i)' /\ ~(closures'[i] > 0) /\ ~Queued(i)'
    BY <2>3 DEF Live, Queued
  <2>5. PhaseOf(i)' = "lost" /\ ConnOf(i)' = None
    BY <2>2, <2>4, PlacedNext DEF Placed
  <2> QED
    BY <2>1, <2>2, <2>5, OneMoves DEF Ids!After
<1> QED
  BY <1>1

LEMMA CleanMoves ==
  ASSUME IInv, IInv', NEW h \in Handlers, NEW i \in Id, TakeClosure(h, i)
  PROVE  Ids!Next
<1> DEFINE r == [Idle EXCEPT !.pc = "cleanup", !.id = i]
<1>1. h \in Threads /\ Become(h, r) /\ UNCHANGED <<peers, fetched, reusable_peer_ids>> /\ closures[i] > 0
  BY DEF TakeClosure, Threads, tables, ids
<1>2. \A j \in Id \ {i} : closures'[j] = closures[j]
  BY DEF TakeClosure, IInv, TypeInv, TypeOK, TablesTyped
<1>3. r.pc = "cleanup" /\ r.id = i /\ thr[h].pc \notin Carrying
  BY DEF Idle, TakeClosure, At, Carrying
<1> HIDE DEF r
<1> \A y \in Threads : thr'[y] = IF y = h THEN r ELSE thr[y]
  BY <1>1 DEF IInv, TypeInv, TypeOK, Become
<1>4. \A j \in Id \ {i} : Same(j)
  BY <1>1, <1>2, <1>3, Others DEF Queued
<1>5. PhaseOf(i) = "told" /\ ConnOf(i) = None
  BY <1>1, PlacedNow DEF Placed
<1>6. Carries(h, i)'
  BY <1>1, <1>3 DEF Carries, Carrying
<1>7. PhaseOf(i)' = "cleaning" /\ ConnOf(i)' = None
  BY <1>1, <1>3, <1>6, PlacedNext DEF Placed, PhaseAt
<1> QED
  BY <1>4, <1>5, <1>7, OneMoves DEF Ids!After

LEMMA FreeMoves ==
  ASSUME IInv, IInv', NEW h \in Threads, Recycle(h)
  PROVE  Ids!Next
<1> thr[h].pc = "recycle" /\ thr[h].id \in Id /\ thr[h].pc \in Carrying
  BY DEF Recycle, At, IInv, TypeInv, Ready, WithId, Carrying
<1>1. ASSUME NEW i \in Id, i = thr[h].id PROVE Ids!Next
  <2>1. Become(h, Idle) /\ Idle.pc \notin Carrying /\ UNCHANGED <<peers, fetched, closures>>
    BY DEF Recycle, Rest, Idle, Carrying, tables, events
  <2>2. ~Live(i) /\ closures[i] = 0 /\ ~Queued(i)
    BY <1>1 DEF IInv, IdInv, CarriedInv
  <2>3. reusable_peer_ids \in Seq(Id) /\ reusable_peer_ids' = Append(reusable_peer_ids, i)
    BY <1>1, <2>2 DEF Recycle, IInv, TypeInv, TypeOK, TablesTyped
  <2>4. \A j \in Id : Queued(j)' <=> Queued(j) \/ j = i
    BY <2>3 DEF Queued
  <2>5. \A j \in Id \ {i} : Same(j)
    BY <1>1, <2>1, <2>4, Others
  <2>6. PhaseOf(i) = "cleaning" /\ ConnOf(i) = None /\ \A y \in Threads : ~Carries(y, i)'
    BY <1>1, <2>1, LetGo DEF PhaseAt
  <2>7. ~Live(i)' /\ ~(closures'[i] > 0) /\ Queued(i)'
    BY <2>1, <2>2, <2>4 DEF Live
  <2>8. PhaseOf(i)' = "free" /\ ConnOf(i)' = None
    BY <2>6, <2>7, PlacedNext DEF Placed
  <2> QED
    BY <2>5, <2>6, <2>8, OneMoves DEF Ids!After
<1> QED
  BY <1>1

(* An id that is queued, or was never fetched, is claimed *)
LEMMA ClaimMoves ==
  ASSUME IInv, IInv', NEW h \in Threads, NEW i \in Id, NEW r, Become(h, r),
         thr[h].pc \notin Carrying, r.pc = "map", r.id = i,
         ~Live(i), closures[i] = 0, Queued(i) \/ ~(i < fetched), UNCHANGED <<peers, closures>>,
         \A j \in Id \ {i} : (Queued(j)' <=> Queued(j)) /\ ((j < fetched') <=> (j < fetched))
  PROVE  Ids!Next
<1> \A y \in Threads : thr'[y] = IF y = h THEN r ELSE thr[y]
  BY DEF IInv, TypeInv, TypeOK, Become
<1>1. \A j \in Id \ {i} : Same(j)
  BY Others
<1>2. \A y \in Threads : ~Carries(y, i)
  BY DEF Carries, IInv, IdInv, CarriedInv
<1>3. PhaseOf(i) = "free" /\ ConnOf(i) = None
  BY <1>2, PlacedNow DEF Placed
<1>4. Carries(h, i)'
  BY DEF Carries, Carrying
<1>5. PhaseOf(i)' = "claimed" /\ ConnOf(i)' = None
  BY <1>4, PlacedNext DEF Placed, PhaseAt
<1> QED
  BY <1>1, <1>3, <1>5, OneMoves DEF Ids!After

LEMMA ReuseMoves ==
  ASSUME IInv, IInv', NEW h \in Threads, AllocateReused(h)
  PROVE  Ids!Next
<1> DEFINE i == Head(reusable_peer_ids)
           r == [thr[h] EXCEPT !.pc = "map", !.id = i]
<1>1. /\ thr[h].pc = "allocate" /\ reusable_peer_ids # <<>> /\ reusable_peer_ids' = Tail(reusable_peer_ids)
      /\ Candidate(h, i) /\ UNCHANGED <<peers, closures, fetched>>
  BY DEF AllocateReused, At, tables, events
<1>2. reusable_peer_ids \in Seq(Id)
  BY DEF IInv, TypeInv, TypeOK, TablesTyped
<1>3. i \in Id /\ Queued(i)
  BY <1>1, <1>2 DEF Queued
<1>4. i < fetched /\ closures[i] = 0 /\ ~Live(i)
  BY <1>3 DEF IInv, IdInv, QueueInv, ClosureInv, LiveInv, TypeInv, TypeOK, TablesTyped
<1>5. Become(h, r)
  BY <1>1, <1>4 DEF Candidate
<1>6. r.pc = "map" /\ r.id = i
  BY DEF IInv, TypeInv, TypeOK, ThreadState
<1>7. \A j \in Id : Queued(j)' <=> Queued(j) /\ j # i
  BY <1>1, PopFront
<1>8. thr[h].pc \notin Carrying
  BY <1>1 DEF Carrying
<1> HIDE DEF r, i
<1> QED
  BY <1>1, <1>3, <1>4, <1>5, <1>6, <1>7, <1>8, ClaimMoves

LEMMA FreshMoves ==
  ASSUME NoWrap, IInv, IInv', NEW h \in Threads, AllocateFresh(h)
  PROVE  Ids!Next
<1> DEFINE i == next_peer_id
           r == [thr[h] EXCEPT !.pc = "map", !.id = i]
<1>1. /\ thr[h].pc = "allocate" /\ fetched < MaxFetch /\ fetched' = fetched + 1
      /\ Candidate(h, i) /\ UNCHANGED <<peers, closures, reusable_peer_ids>>
  BY DEF AllocateFresh, At, tables, events
<1>2. fetched \in Nat /\ i \in Id /\ IdSpace \in Nat /\ MaxFetch \in Nat /\ Id \subseteq Nat
  BY IdAssumption DEF IInv, TypeInv, TypeOK, TablesTyped, Id
<1>3. i = fetched
  BY <1>1, <1>2 DEF NoWrap, IInv, IdInv, FreshInv
<1>4. closures[i] = 0 /\ ~Live(i)
  BY <1>2, <1>3 DEF IInv, IdInv, ClosureInv, LiveInv, TypeInv, TypeOK, TablesTyped
<1>5. Become(h, r)
  BY <1>1, <1>4 DEF Candidate
<1>6. r.pc = "map" /\ r.id = i
  BY DEF IInv, TypeInv, TypeOK, ThreadState
<1>7. \A j \in Id \ {i} : (j < fetched') <=> (j < fetched)
  BY <1>1, <1>2, <1>3
<1>8. ~(i < fetched) /\ thr[h].pc \notin Carrying
  BY <1>1, <1>2, <1>3 DEF Carrying
<1> HIDE DEF r, i
<1> QED
  BY <1>1, <1>2, <1>4, <1>5, <1>6, <1>7, <1>8, ClaimMoves DEF Queued

-----------------------------------------------------------------------------
(* The actions *)

LEMMA PacketMoves ==
  ASSUME IInv, IInv', NEW w \in Workers, Packet(w)
  PROVE  Stutter
<1> w \in Threads
  BY DEF Threads
<1> DEFINE Quiet == \E r : /\ Become(w, r) /\ thr[w].pc \notin Carrying /\ r.pc \notin Carrying
                           /\ UNCHANGED <<peers, ids, closures>>
<1>1. ASSUME NEW a \in Addr, NEW t \in Time, ReceiveConnectRequest(w, a, t)
      PROVE  Quiet
  BY <1>1 DEF ReceiveConnectRequest, At, Carrying, tables, events
<1>2. ASSUME NEW a \in Addr, NEW t \in Time, ReceiveDisconnect(w, a, t)
      PROVE  Quiet
  BY <1>2 DEF ReceiveDisconnect, At, Carrying, events
<1>3. ASSUME NEW a \in Addr, ReceiveMessage(w, a)
      PROVE  Quiet
  BY <1>3 DEF ReceiveMessage, At, Carrying, Idle, tables, events
<1> QED
  BY <1>1, <1>2, <1>3, QuietIsSame DEF Packet

LEMMA TakePeerMoves ==
  ASSUME IInv, IInv', NEW w \in Workers, TakePeer(w)
  PROVE  Stutter \/ Ids!Next
<1> w \in Threads
  BY DEF Threads
<1> DEFINE q == thr[w]
           i == q.id
<1> q \in ThreadState /\ Ready(q)
  BY DEF IInv, TypeInv, TypeOK, TablesTyped
<1>1. i \in Id /\ q.pc = "take" /\ q.pc \notin Carrying
  BY DEF TakePeer, At, Ready, WithId, Carrying
<1>2. CASE ~Live(i)
  <2>1. Become(w, Idle) /\ UNCHANGED <<peers, ids, closures>>
    BY <1>1, <1>2 DEF TakePeer, Rest, Live, events, IInv, TypeInv, TypeOK, TablesTyped
  <2>2. Idle.pc \notin Carrying
    BY DEF Idle, Carrying
  <2> QED
    BY <1>1, <2>1, <2>2, QuietIsSame
<1>3. CASE Live(i) /\ DisconnectMatches(w)
  <2> DEFINE r == [Idle EXCEPT !.pc = "retire", !.id = i]
  <2>1. Become(w, r) /\ peers' = [peers EXCEPT ![i] = None] /\ UNCHANGED <<ids, closures>>
    BY <1>3 DEF TakePeer, events
  <2>2. r.pc = "retire" /\ r.id = i
    BY DEF Idle
  <2> HIDE DEF r
  <2> QED
    BY <1>1, <1>3, <2>1, <2>2, SeizeMoves
<1>4. CASE Live(i) /\ ~DisconnectMatches(w)
  <2> DEFINE r == [pc |-> "restore", addr |-> q.addr, time |-> None, id |-> i, held |-> peers[i]]
  <2>1. Become(w, r) /\ peers' = [peers EXCEPT ![i] = None] /\ UNCHANGED <<ids, closures>>
    BY <1>4 DEF TakePeer, events
  <2>2. r.pc = "restore" /\ r.id = i /\ r.held = peers[i]
    BY DEF ThreadState
  <2> HIDE DEF r
  <2> QED
    BY <1>1, <1>4, <2>1, <2>2, SeizeMoves
<1> QED
  BY <1>2, <1>3, <1>4

LEMMA WorkerMoves ==
  ASSUME IInv, IInv', NEW w \in Workers, WorkerStep(w)
  PROVE  Stutter \/ Ids!Next
<1> w \in Threads
  BY DEF Threads
<1> DEFINE q == thr[w]
           i == q.id
           Quiet == \E r : /\ Become(w, r) /\ q.pc \notin Carrying /\ r.pc \notin Carrying
                           /\ UNCHANGED <<peers, ids, closures>>
<1> q \in ThreadState /\ Ready(q) /\ peers \in [Id -> Conn \cup {None}]
  BY DEF IInv, TypeInv, TypeOK, TablesTyped
<1>0. Idle.pc \notin Carrying
  BY DEF Idle, Carrying
<1>1. ASSUME ExamineExisting(w) PROVE Quiet
  BY <1>0, <1>1 DEF ExamineExisting, At, Goto, Rest, Carrying, ThreadState, tables, events
<1>2. CASE EvictExisting(w)
  <2>1. i \in Id /\ q.pc = "evict" /\ q.pc \notin Carrying
    BY <1>2 DEF EvictExisting, At, Ready, WithId, Carrying
  <2>2. CASE Live(i)
    <3> DEFINE r == [q EXCEPT !.pc = "unmap", !.held = peers[i]]
    <3>1. Become(w, r) /\ peers' = [peers EXCEPT ![i] = None] /\ UNCHANGED <<ids, closures>>
      BY <1>2, <2>2 DEF EvictExisting, events
    <3>2. r.pc = "unmap" /\ r.id = i
      BY DEF ThreadState
    <3> HIDE DEF r
    <3> QED
      BY <2>1, <2>2, <3>1, <3>2, SeizeMoves
  <2>3. CASE ~Live(i)
    <3> DEFINE r == [q EXCEPT !.pc = "check", !.id = None]
    <3>1. Become(w, r) /\ UNCHANGED <<peers, ids, closures>>
      BY <1>2, <2>1, <2>3 DEF EvictExisting, Live, events
    <3>2. r.pc \notin Carrying
      BY DEF ThreadState, Carrying
    <3> HIDE DEF r
    <3> QED
      BY <2>1, <3>1, <3>2, QuietIsSame
  <2> QED
    BY <2>2, <2>3
<1>3. ASSUME CheckPending(w) PROVE Quiet
  BY <1>0, <1>3 DEF CheckPending, At, Goto, Rest, Carrying, ThreadState, tables, events
<1>4. ASSUME AdmitRequest(w) PROVE Quiet
  BY <1>0, <1>4 DEF AdmitRequest, At, Rest, Carrying
<1>6. CASE RestoreAddr(w)
  <2> DEFINE r == [q EXCEPT !.pc = "reinsert", !.addr = None]
  <2>1. Become(w, r) /\ q.pc = "restore" /\ UNCHANGED <<peers, fetched, reusable_peer_ids, closures>>
    BY <1>6 DEF RestoreAddr, At, events, ids
  <2>2. r.pc = "reinsert" /\ r.id = i /\ r.held = q.held
    BY DEF ThreadState
  <2> HIDE DEF r
  <2> QED
    BY <2>1, <2>2, CarryOnMoves DEF Carrying, PhaseAt
<1>7. CASE RestorePeer(w)
  <2>1. q.pc = "reinsert" /\ q.held \in Conn /\ Become(w, Idle)
    BY <1>7 DEF RestorePeer, At, Ready, WithHeld, Rest
  <2>2. peers' = [peers EXCEPT ![i] = q.held] /\ UNCHANGED <<ids, closures>>
    BY <1>7 DEF RestorePeer, events
  <2> QED
    BY <1>0, <2>1, <2>2, SettleMoves
<1>8. ASSUME Deliver(w) PROVE Quiet
  BY <1>0, <1>8 DEF Deliver, At, Rest, Carrying, tables
<1>9. CASE ShutdownOkFails(w)
  <2>1. /\ Become(w, Idle) /\ q.pc \in {"retire", "announce"}
        /\ UNCHANGED <<peers, fetched, reusable_peer_ids, closures>>
    BY <1>9 DEF ShutdownOkFails, At, Rest, tables, events
  <2> QED
    BY <1>0, <2>1, LoseMoves
<1>10. Quiet => Stutter
  BY QuietIsSame
<1> QED
  BY <1>1, <1>2, <1>3, <1>4, <1>6, <1>7, <1>8, <1>9, <1>10, TakePeerMoves DEF WorkerStep

LEMMA RemoveMoves ==
  ASSUME IInv, IInv', NEW x \in Threads, NEW i \in Id, RemovePeer(x, i)
  PROVE  Ids!Next
<1> DEFINE r == [pc |-> "unmap", addr |-> None, time |-> None, id |-> i, held |-> peers[i]]
<1>1. Become(x, r) /\ peers' = [peers EXCEPT ![i] = None] /\ Live(i) /\ UNCHANGED <<ids, closures>>
  BY DEF RemovePeer, events
<1>2. thr[x].pc \notin Carrying
  BY DEF RemovePeer, At, Carrying
<1>3. r.pc = "unmap" /\ r.id = i
  BY DEF Idle
<1> HIDE DEF r
<1> QED
  BY <1>1, <1>2, <1>3, SeizeMoves

LEMMA CloseMoves ==
  ASSUME IInv, IInv', NEW x \in Threads, CloseStep(x)
  PROVE  Stutter \/ Ids!Next
<1> DEFINE q == thr[x]
<1> q \in ThreadState
  BY DEF IInv, TypeInv, TypeOK
<1>0. Idle.pc \notin Carrying
  BY DEF Idle, Carrying
<1>1. CASE Unmap(x)
  <2> DEFINE r == [q EXCEPT !.pc = "retire", !.held = None]
  <2>1. Become(x, r) /\ q.pc = "unmap" /\ UNCHANGED <<peers, fetched, reusable_peer_ids, closures>>
    BY <1>1 DEF Unmap, At, events, ids
  <2>2. r.pc = "retire" /\ r.id = q.id
    BY DEF ThreadState
  <2> HIDE DEF r
  <2> QED
    BY <2>1, <2>2, CarryOnMoves DEF Carrying, PhaseAt
<1>2. CASE Retire(x)
  <2>1. q.pc = "retire" /\ UNCHANGED <<peers, fetched, reusable_peer_ids, closures>>
    BY <1>2 DEF Retire, At, tables, events
  <2>2. CASE x \in Operators
    <3>1. Become(x, Idle)
      BY <1>2, <2>2 DEF Retire, Rest
    <3> QED
      BY <1>0, <2>1, <3>1, LoseMoves
  <2>3. CASE x \notin Operators
    <3> DEFINE r == [q EXCEPT !.pc = "announce"]
    <3>1. Become(x, r)
      BY <1>2, <2>3 DEF Retire, Goto
    <3>2. r.pc = "announce" /\ r.id = q.id
      BY DEF ThreadState
    <3> HIDE DEF r
    <3> QED
      BY <2>1, <3>1, <3>2, CarryOnMoves DEF Carrying, PhaseAt
  <2> QED
    BY <2>2, <2>3
<1>3. CASE Announce(x)
  <2>1. Idle.pc \notin Carrying /\ [q EXCEPT !.pc = "check", !.id = None].pc \notin Carrying
    BY DEF Idle, Carrying, ThreadState
  <2>2. Become(x, Idle) \/ Become(x, [q EXCEPT !.pc = "check", !.id = None])
    BY <1>3 DEF Announce, Rest
  <2> QED
    BY <1>3, <2>1, <2>2, TellMoves
<1> QED
  BY <1>1, <1>2, <1>3 DEF CloseStep

LEMMA HandlerMoves ==
  ASSUME NoWrap, IInv, IInv', NEW h \in Handlers,
         TakeEvent(h) \/ AcceptStep(h) \/ Finish(h) \/ RecycleStep(h)
  PROVE  Stutter \/ Ids!Next
<1> h \in Threads
  BY DEF Threads
<1> DEFINE q == thr[h]
           Quiet == \E r : /\ Become(h, r) /\ q.pc \notin Carrying /\ r.pc \notin Carrying
                           /\ UNCHANGED <<peers, ids, closures>>
<1> q \in ThreadState /\ Ready(q)
  BY DEF IInv, TypeInv, TypeOK
<1>0. Idle.pc \notin Carrying
  BY DEF Idle, Carrying
<1>1. ASSUME NEW a \in Addr, NEW t \in Time, TakeRequest(h, a, t)
      PROVE  Quiet
  BY <1>1 DEF TakeRequest, At, Carrying, Idle, tables
<1>2. ASSUME NEW i \in Id, TakeMessage(h, i)
      PROVE  Quiet
  BY <1>2 DEF TakeMessage, At, Carrying, Idle, tables
<1>3. ASSUME Accept(h) PROVE Quiet
  BY <1>3 DEF Accept, At, Goto, Carrying, ThreadState, events
<1>4. ASSUME Reject(h) PROVE Quiet
  BY <1>0, <1>4 DEF Reject, At, Rest, Carrying, events
<1>5. ASSUME Finish(h) PROVE Quiet
  BY <1>0, <1>5 DEF Finish, At, Rest, Carrying, tables, events
<1>6. Quiet => Stutter
  BY QuietIsSame
<1>7. CASE MapAddr(h)
  <2> DEFINE r == [q EXCEPT !.pc = "insert"]
  <2>1. Become(h, r) /\ q.pc = "map" /\ UNCHANGED <<peers, fetched, reusable_peer_ids, closures>>
    BY <1>7 DEF MapAddr, At, Goto, events, ids
  <2>2. r.pc = "insert" /\ r.id = q.id
    BY DEF ThreadState
  <2> HIDE DEF r
  <2> QED
    BY <2>1, <2>2, CarryOnMoves DEF Carrying, PhaseAt
<1>8. CASE InsertPeer(h)
  <2> DEFINE c == [addr |-> q.addr, time |-> q.time]
             r == [Idle EXCEPT !.pc = "accepted", !.id = q.id]
  <2>1. q.pc = "insert" /\ Become(h, r) /\ peers' = [peers EXCEPT ![q.id] = c] /\ UNCHANGED <<ids, closures>>
    BY <1>8 DEF InsertPeer, At, events
  <2>2. c \in Conn
    BY <2>1 DEF Ready, WithAddr, WithTime, Conn
  <2>3. r.pc \notin Carrying
    BY DEF Idle, Carrying
  <2> HIDE DEF c, r
  <2> QED
    BY <2>1, <2>2, <2>3, SettleMoves
<1>9. CASE ReleaseId(h)
  <2> DEFINE r == [q EXCEPT !.pc = "recycle"]
  <2>1. q.pc = "cleanup" /\ q.id \in Id
    BY <1>9 DEF ReleaseId, At, Ready, WithId, Carrying
  <2>2. ~Live(q.id) /\ q.id \in retired_peer_ids
    BY <2>1 DEF IInv, IdInv, CarriedInv, Carrying
  <2>3. Become(h, r) /\ UNCHANGED <<peers, fetched, reusable_peer_ids, closures>>
    BY <1>9, <2>2 DEF ReleaseId, Goto, tables, events
  <2>4. r.pc = "recycle" /\ r.id = q.id
    BY DEF ThreadState
  <2> HIDE DEF r
  <2> QED
    BY <2>1, <2>3, <2>4, CarryOnMoves DEF Carrying, PhaseAt
<1> QED
  BY <1>1, <1>2, <1>3, <1>4, <1>5, <1>6, <1>7, <1>8, <1>9,
     CleanMoves, ReuseMoves, FreshMoves, FreeMoves
  DEF TakeEvent, AcceptStep, RecycleStep

LEMMA StepMoves == NoWrap /\ IInv /\ IInv' /\ [Next]_vars => Stutter \/ Ids!Next
<1> SUFFICES ASSUME NoWrap, IInv, IInv', [Next]_vars PROVE Stutter \/ Ids!Next
  OBVIOUS
<1>1. CASE UNCHANGED vars
  <2> USE <1>1 DEF vars, tables, ids, events
  <2> SUFFICES ASSUME NEW i \in Id PROVE Same(i)
    BY AllSame
  <2>1. PhaseOf(i)' = PhaseOf(i)
    BY DEF PhaseOf, Live, Queued, Carriers, Carrier
  <2>2. ConnOf(i)' = ConnOf(i)
    BY <2>1 DEF ConnOf, Carrier, Carriers
  <2> QED
    BY <2>1, <2>2 DEF Same
<1>2. CASE Next
  BY <1>2, PacketMoves, WorkerMoves, HandlerMoves, RemoveMoves, CloseMoves
  DEF Next, Threads, Expire, Disconnect
<1> QED
  BY <1>1, <1>2

LEMMA StartsFree == Init => Ids!Init
<1> SUFFICES ASSUME Init PROVE \A i \in Id : PhaseOf(i) = "free" /\ ConnOf(i) = None
  BY DEF Ids!Init
<1> SUFFICES ASSUME NEW i \in Id PROVE PhaseOf(i) = "free" /\ ConnOf(i) = None
  OBVIOUS
<1>1. ~Live(i) /\ ~(closures[i] > 0) /\ peers[i] = None
  BY DEF Init, Live
<1>2. Carriers(i) = {}
  BY DEF Init, Carriers, Carrying, Idle
<1>3. ~(i < fetched)
  BY IdAssumption DEF Init, Id
<1>4. PhaseOf(i) = "free"
  BY <1>1, <1>2, <1>3 DEF PhaseOf
<1> QED
  BY <1>1, <1>4 DEF ConnOf

(* As long as next_peer_id has not wrapped, the connection table implements   *)
(* the life cycle of peer ids: one connection at a time, its end told once,   *)
(* the id free again only after the core has cleaned up.                      *)
THEOREM Implements == ASSUME NoWrap PROVE Spec => Lifecycle
<1>1. Init => Ids!Init
  BY StartsFree
<1>2. IInv /\ IInv' /\ [Next]_vars =>
        [Ids!Next]_<<[i \in Id |-> PhaseOf(i)], [i \in Id |-> ConnOf(i)]>>
  BY StepMoves DEF Stutter
<1>3. Spec => []IInv
  BY IdsInOnePlace
<1> QED
  BY <1>1, <1>2, <1>3, PTL DEF Spec, Lifecycle, Ids!Spec

-----------------------------------------------------------------------------
(* The session: what the core knows of its peers never parts from the          *)
(* connection table but in the ways that are named.                           *)

(* The session takes the steps of the table and no others *)
LEMMA SessionStep == [NextSession]_sessionVars => [Next]_vars
<1> SUFFICES ASSUME [NextSession]_sessionVars PROVE [Next]_vars
  OBVIOUS
<1>1. ASSUME TableStep PROVE Next
  BY <1>1 DEF TableStep, Next, AcceptStep, RecycleStep
<1>2. ASSUME NEW h \in Handlers, RequestStep(h) PROVE Next
  BY <1>2 DEF RequestStep, AcceptBelowLimit, Insert, ConnectAcceptFails, Challenge, FinalizeAccept,
              Next, AcceptStep
<1>3. ASSUME NEW h \in Handlers, MessageStep(h) PROVE [Next]_vars
  BY <1>3 DEF MessageStep, AuthIdentity, OtherMessage, Next
<1>4. ASSUME NEW h \in Handlers, CleanupStep(h) PROVE [Next]_vars
  BY <1>4 DEF CleanupStep, ForgetPending, ForgetPeer, Release, Next, RecycleStep
<1>5. CASE UNCHANGED sessionVars
  BY <1>5 DEF sessionVars
<1> QED
  BY <1>1, <1>2, <1>3, <1>4, <1>5 DEF NextSession

(* The core's handlers use the connection table as its specification allows,
   so that what is proved of the table holds of the session. *)
THEOREM SessionIsTable == SpecSession => Spec
<1>1. InitSession => Init
  BY DEF InitSession
<1> QED
  BY <1>1, SessionStep, PTL DEF SpecSession, Spec

-----------------------------------------------------------------------------
(* Threads *)

HandlerOnly == {"accepted", "message", "cleanup"}

(* The steps of the table leave alone the handlers that are at the core's own *)
(* steps, and bring no handler to "accepted".                                 *)
LEMMA TableThread ==
  ASSUME TypeInv, TableStep
  PROVE  \E x \in Threads : /\ \A y \in Threads \ {x} : thr'[y] = thr[y]
                            /\ thr[x].pc \notin HandlerOnly
                            /\ thr'[x].pc # "accepted"
<1> DEFINE Free(x) == /\ \A y \in Threads \ {x} : thr'[y] = thr[y]
                      /\ thr[x].pc \notin HandlerOnly
                      /\ thr'[x].pc # "accepted"
<1> USE DEF TypeInv, TypeOK
<1>0. Idle.pc # "accepted"
  BY DEF Idle
<1>1. ASSUME NEW x \in Threads, NEW r, Become(x, r), r.pc # "accepted", thr[x].pc \notin HandlerOnly
      PROVE  Free(x)
  BY <1>1 DEF Become
<1>2. ASSUME NEW x \in Threads, NEW s, Goto(x, s), s # "accepted", thr[x].pc \notin HandlerOnly
      PROVE  Free(x)
  BY <1>2 DEF Goto, Become, ThreadState
<1>3. ASSUME NEW x \in Threads, Rest(x), thr[x].pc \notin HandlerOnly
      PROVE  Free(x)
  BY <1>3, <1>0, <1>1 DEF Rest
<1> HIDE DEF Free
<1>4. ASSUME NEW w \in Workers, Packet(w) PROVE Free(w)
  <2>1. w \in Threads /\ thr[w].pc \notin HandlerOnly
    BY <1>4 DEF Packet, ReceiveConnectRequest, ReceiveDisconnect, ReceiveMessage, At, Threads, HandlerOnly
  <2>2. ASSUME NEW a \in Addr, NEW t \in Time, ReceiveConnectRequest(w, a, t) PROVE Free(w)
    <3> DEFINE r == [pc   |-> IF by_addr[a] = None THEN "check" ELSE "examine",
                     addr |-> a, time |-> t, id |-> by_addr[a], held |-> None]
    <3>1. Become(w, r) /\ r.pc # "accepted"
      BY <2>2 DEF ReceiveConnectRequest
    <3> QED
      BY <1>1, <2>1, <3>1
  <2>3. ASSUME NEW a \in Addr, NEW t \in Time, ReceiveDisconnect(w, a, t) PROVE Free(w)
    <3> DEFINE r == [pc |-> "take", addr |-> a, time |-> t, id |-> by_addr[a], held |-> None]
    <3>1. Become(w, r) /\ r.pc # "accepted"
      BY <2>3 DEF ReceiveDisconnect
    <3> QED
      BY <1>1, <2>1, <3>1
  <2>4. ASSUME NEW a \in Addr, ReceiveMessage(w, a) PROVE Free(w)
    <3> DEFINE r == [Idle EXCEPT !.pc = "deliver", !.id = by_addr[a]]
    <3>1. Become(w, r) /\ r.pc # "accepted"
      BY <2>4 DEF ReceiveMessage, Idle
    <3> QED
      BY <1>1, <2>1, <3>1
  <2> QED
    BY <1>4, <2>2, <2>3, <2>4 DEF Packet
<1>5. ASSUME NEW w \in Workers, WorkerStep(w) PROVE Free(w)
  <2>1. w \in Threads /\ thr[w].pc \notin HandlerOnly
    BY <1>5 DEF WorkerStep, ExamineExisting, EvictExisting, CheckPending, AdmitRequest, TakePeer,
                RestoreAddr, RestorePeer, Deliver, ShutdownOkFails, At, Threads, HandlerOnly
  <2>2. CASE EvictExisting(w) \/ TakePeer(w) \/ RestoreAddr(w)
    <3> DEFINE q == thr[w]
               evicted  == [q EXCEPT !.pc = "unmap", !.held = peers[q.id]]
               gone     == [q EXCEPT !.pc = "check", !.id = None]
               matched  == [Idle EXCEPT !.pc = "retire", !.id = q.id]
               taken    == [pc |-> "restore", addr |-> q.addr, time |-> None, id |-> q.id, held |-> peers[q.id]]
               restored == [q EXCEPT !.pc = "reinsert", !.addr = None]
    <3>1. \/ Rest(w) \/ Become(w, evicted) \/ Become(w, gone) \/ Become(w, matched)
          \/ Become(w, taken) \/ Become(w, restored)
      BY <2>2 DEF EvictExisting, TakePeer, RestoreAddr
    <3>2. "accepted" \notin {evicted.pc, gone.pc, matched.pc, taken.pc, restored.pc}
      BY <2>1 DEF Idle, ThreadState
    <3> HIDE DEF evicted, gone, matched, taken, restored
    <3> QED
      BY <1>1, <1>3, <2>1, <3>1, <3>2
  <2>3. CASE ~(EvictExisting(w) \/ TakePeer(w) \/ RestoreAddr(w))
    <3>1. Rest(w) \/ Goto(w, "evict") \/ Goto(w, "admit")
      BY <1>5, <2>3 DEF WorkerStep, ExamineExisting, CheckPending, AdmitRequest,
                        RestorePeer, Deliver, ShutdownOkFails
    <3> QED
      BY <1>2, <1>3, <2>1, <3>1
  <2> QED
    BY <2>2, <2>3
<1>6. ASSUME NEW x \in Threads, CloseStep(x) PROVE Free(x)
  <2>1. thr[x].pc \notin HandlerOnly
    BY <1>6 DEF CloseStep, Unmap, Retire, Announce, At, HandlerOnly
  <2>2. CASE Unmap(x) \/ Announce(x)
    <3> DEFINE unmapped  == [thr[x] EXCEPT !.pc = "retire", !.held = None]
               announced == [thr[x] EXCEPT !.pc = "check", !.id = None]
    <3>1. Rest(x) \/ Become(x, unmapped) \/ Become(x, announced)
      BY <2>2 DEF Unmap, Announce
    <3>2. "accepted" \notin {unmapped.pc, announced.pc}
      BY DEF ThreadState
    <3> HIDE DEF unmapped, announced
    <3> QED
      BY <1>1, <1>3, <2>1, <3>1, <3>2
  <2>3. CASE Retire(x)
    BY <1>2, <1>3, <2>1, <2>3 DEF Retire
  <2> QED
    BY <1>6, <2>2, <2>3 DEF CloseStep
<1>7. ASSUME NEW x \in Threads, NEW i \in Id, RemovePeer(x, i) PROVE Free(x)
  <2> DEFINE r == [pc |-> "unmap", addr |-> None, time |-> None, id |-> i, held |-> peers[i]]
  <2>1. thr[x].pc \notin HandlerOnly /\ Become(x, r) /\ r.pc # "accepted"
    BY <1>7 DEF RemovePeer, At, HandlerOnly, Idle
  <2> QED
    BY <1>1, <2>1
<1>8. ASSUME NEW h \in Handlers, TakeEvent(h) PROVE Free(h)
  <2>1. h \in Threads /\ thr[h].pc \notin HandlerOnly
    BY <1>8 DEF TakeEvent, TakeRequest, TakeMessage, TakeClosure, At, HandlerOnly, Threads
  <2>2. ASSUME NEW a \in Addr, NEW t \in Time, TakeRequest(h, a, t) PROVE Free(h)
    <3> DEFINE r == [pc |-> "decide", addr |-> a, time |-> t, id |-> None, held |-> None]
    <3>1. Become(h, r) /\ r.pc # "accepted"
      BY <2>2 DEF TakeRequest, Idle
    <3> QED
      BY <1>1, <2>1, <3>1
  <2>3. ASSUME NEW i \in Id, TakeMessage(h, i) \/ TakeClosure(h, i) PROVE Free(h)
    <3> DEFINE m == [Idle EXCEPT !.pc = "message", !.id = i]
               c == [Idle EXCEPT !.pc = "cleanup", !.id = i]
    <3>1. Become(h, m) \/ Become(h, c)
      BY <2>3 DEF TakeMessage, TakeClosure
    <3>2. m.pc # "accepted" /\ c.pc # "accepted"
      BY DEF Idle
    <3> HIDE DEF m, c
    <3> QED
      BY <1>1, <2>1, <3>1, <3>2
  <2> QED
    BY <1>8, <2>2, <2>3 DEF TakeEvent
<1>9. ASSUME NEW h \in Handlers, Reject(h) \/ MapAddr(h) \/ Recycle(h) PROVE Free(h)
  <2>1. h \in Threads /\ thr[h].pc \notin HandlerOnly
    BY <1>9 DEF Reject, MapAddr, Recycle, At, HandlerOnly, Threads
  <2> QED
    BY <1>2, <1>3, <1>9, <2>1 DEF Reject, MapAddr, Recycle
<1>10. ASSUME NEW h \in Handlers, AllocateReused(h) \/ AllocateFresh(h) PROVE Free(h)
  <2>1. h \in Threads /\ thr[h].pc = "allocate"
    BY <1>10 DEF AllocateReused, AllocateFresh, At, Threads
  <2>2. UNCHANGED thr \/ \E i : Become(h, [thr[h] EXCEPT !.pc = "map", !.id = i])
    BY <1>10 DEF AllocateReused, AllocateFresh, Candidate
  <2>3. CASE UNCHANGED thr
    BY <2>1, <2>3 DEF Free, HandlerOnly
  <2>4. ASSUME NEW i, Become(h, [thr[h] EXCEPT !.pc = "map", !.id = i]) PROVE Free(h)
    <3>1. [thr[h] EXCEPT !.pc = "map", !.id = i].pc # "accepted"
      BY <2>1 DEF ThreadState
    <3> QED
      BY <1>1, <2>1, <2>4, <3>1 DEF HandlerOnly
  <2> QED
    BY <2>2, <2>3, <2>4
<1>11. \E x \in Threads : Free(x)
  BY <1>4, <1>5, <1>6, <1>7, <1>8, <1>9, <1>10 DEF TableStep, Threads, Expire, Disconnect
<1> QED
  BY <1>11 DEF Free

-----------------------------------------------------------------------------
(* The invariant *)

(* The stage of a handler's task goes with its place in the table's actions *)
TaskInv ==
  \A h \in Handlers :
    /\ Stage(h, "accepted") <=> At(h, "accepted")
    /\ Stage(h, "finalize") => At(h, "message")
    /\ task[h].stage \in {"forget", "release"} => At(h, "cleanup")
    /\ task[h].stage \in {"accepted", "finalize"} => task[h].ready \in Conn

CoreTyped ==
  /\ pending_identity \in [Id -> Conn \cup {None}]
  /\ authenticated_peers \in [Id -> Conn \cup {None}]
  /\ task \in [Handlers -> [stage : {"none", "accepted", "finalize", "forget", "release"},
                            ready : Conn \cup {None}]]
  /\ unregistered \subseteq Id /\ late \subseteq Id

Tracked(i) == \/ pending_identity[i] # None \/ authenticated_peers[i] # None
              \/ Registering(i) \/ i \in unregistered

(* Also while a Disconnect packet holds the connection to look at it *)
TrackedInv == \A i \in Id : PhaseOf(i) \in {"live", "held"} => Tracked(i)

Removing(h, i) == h \in Handlers /\ thr[h].id = i /\ At(h, "cleanup") /\ task[h].stage \in {"none", "forget"}

Backed(i) ==
  \/ ConnOf(i) = authenticated_peers[i]
  \/ PhaseOf(i) \in {"closing", "retired", "told"}
  \/ \E h \in Handlers : Removing(h, i)

GhostInv == \A i \in Players : i \notin late /\ i \notin orphaned => Backed(i)

SessionInv == IInv /\ CoreTyped /\ TaskInv /\ TrackedInv /\ GhostInv

(* A step of PeerIds, seen at one id *)
LEMMA OneStep ==
  ASSUME NoWrap, IInv, IInv', [Next]_vars, NEW i \in Id
  PROVE  \/ Same(i)
         \/ /\ PhaseOf(i)' \in Ids!After[PhaseOf(i)]
            /\ ConnOf(i)' \in IF PhaseOf(i) = "claimed" THEN Conn
                              ELSE IF PhaseOf(i)' = "closing" THEN {None} ELSE {ConnOf(i)}
<1>1. CASE Stutter
  BY <1>1 DEF Stutter, Same
<1>2. CASE Ids!Next
  <2>1. PICK k \in Id : Ids!Step(k)
    BY <1>2 DEF Ids!Next
  <2>2. CASE k = i
    BY <2>1, <2>2 DEF Ids!Step, Ids!ConnAfter
  <2>3. CASE k # i
    BY <2>1, <2>3 DEF Ids!Step, Ids!ConnAfter, Same
  <2> QED
    BY <2>2, <2>3
<1> QED
  BY <1>1, <1>2, StepMoves

(* A phase is that of the place where the id is *)
PhaseRange ==
  \A i \in Id :
    /\ PhaseOf(i) = "live" <=> Live(i)
    /\ PhaseOf(i) = "told" <=> closures[i] > 0
    /\ PhaseOf(i) = "lost" => i \in orphaned
    /\ ConnOf(i) # None => PhaseOf(i) \in {"live", "held"}

LEMMA PhaseRangeNow == IInv => PhaseRange
<1> SUFFICES ASSUME IInv, NEW i \in Id
             PROVE  /\ PhaseOf(i) = "live" <=> Live(i)
                    /\ PhaseOf(i) = "told" <=> closures[i] > 0
                    /\ PhaseOf(i) = "lost" => i \in orphaned
                    /\ ConnOf(i) # None => PhaseOf(i) \in {"live", "held"}
  BY DEF PhaseRange
<1> Placed
  BY PlacedNow
<1>1. CASE Live(i)
  BY <1>1 DEF Placed, IInv, IdInv, LiveInv
<1>2. CASE closures[i] > 0
  BY <1>2 DEF Placed, IInv, IdInv, ClosureInv, LiveInv
<1>3. ASSUME NEW x \in Threads, Carries(x, i)
      PROVE  /\ PhaseOf(i) \notin {"live", "told", "lost"} /\ ~Live(i) /\ ~(closures[i] > 0)
             /\ ConnOf(i) # None => PhaseOf(i) \in {"live", "held"}
  BY <1>3 DEF Placed, Carries, Carrying, PhaseAt, IInv, IdInv, CarriedInv
<1>4. CASE ~Live(i) /\ ~(closures[i] > 0) /\ \A x \in Threads : ~Carries(x, i)
  <2>1. Carriers(i) = {}
    BY <1>4 DEF Carriers, Carries
  <2> QED
    BY <1>4, <2>1 DEF Placed, IInv, IdInv, NoIdLost
<1> QED
  BY <1>1, <1>2, <1>3, <1>4

LEMMA PhaseRangeNext == IInv' => PhaseRange'
  BY PhaseRangeNow, PTL

(* Only accepting brings a connection to an id that had none *)
LEMMA Arrival ==
  ASSUME NoWrap, IInv, IInv', [Next]_vars, NEW i \in Id,
         PhaseOf(i)' \in {"live", "held"}, PhaseOf(i) \notin {"live", "held"}
  PROVE  PhaseOf(i) = "claimed" /\ ~Live(i) /\ Live(i)'
<1>1. PhaseOf(i)' \in Ids!After[PhaseOf(i)]
  BY OneStep DEF Same
<1>2. PhaseOf(i) \in {"free", "claimed", "live", "held", "closing", "retired", "told", "cleaning", "lost"}
  <2> Placed
    BY PlacedNow
  <2>1. ASSUME NEW x \in Threads, Carries(x, i)
        PROVE  PhaseOf(i) \in {"claimed", "held", "closing", "retired", "cleaning"}
    BY <2>1 DEF Placed, Carries, Carrying, PhaseAt
  <2> QED
    BY <2>1 DEF Placed
<1>3. PhaseOf(i) = "claimed" /\ PhaseOf(i)' = "live"
  BY <1>1, <1>2 DEF Ids!After
<1>4. IInv' => (PhaseOf(i)' = "live" => Live(i)')
  <2>1. Placed'
    BY PlacedNext
  <2>2. ASSUME NEW x \in Threads, Carries(x, i)', ~Live(i)'
        PROVE  PhaseOf(i)' # "live"
    BY <2>1, <2>2 DEF Placed, Carries, Carrying, PhaseAt
  <2> QED
    BY <2>1, <2>2 DEF Placed
<1>5. ~Live(i)
  BY <1>3, PhaseRangeNow DEF PhaseRange
<1> QED
  BY <1>3, <1>4, <1>5

-----------------------------------------------------------------------------
(* The steps of the table *)

LEMMA TableNext == TableStep => Next
  BY DEF TableStep, Next, AcceptStep, RecycleStep

(* The table's own steps put a connection in only where one was taken out *)
LEMMA TableInserts ==
  ASSUME IInv, TableStep, NEW i \in Id, ~Live(i), Live(i)'
  PROVE  PhaseOf(i) = "held"
<1> USE DEF Live
<1> peers \in [Id -> Conn \cup {None}]
  BY DEF IInv, TypeInv, TypeOK, TablesTyped
<1>1. ASSUME NEW w \in Workers, WorkerStep(w) PROVE PhaseOf(i) = "held"
  <2>1. CASE RestorePeer(w)
    <3>1. thr[w].pc = "reinsert" /\ w \in Threads /\ peers' = [peers EXCEPT ![thr[w].id] = thr[w].held]
      BY <2>1 DEF RestorePeer, At, Threads
    <3>2. thr[w].id = i
      BY <3>1
    <3>3. Carries(w, i)
      BY <3>1, <3>2 DEF Carries, Carrying
    <3> QED
      BY <3>1, <3>3, PlacedNow DEF Placed, PhaseAt
  <2>2. CASE EvictExisting(w) \/ TakePeer(w)
    <3>1. \E j : peers' = [peers EXCEPT ![j] = None]
      BY <2>2 DEF EvictExisting, TakePeer
    <3> QED
      BY <3>1
  <2>3. CASE ~(RestorePeer(w) \/ EvictExisting(w) \/ TakePeer(w))
    <3>1. UNCHANGED peers
      BY <1>1, <2>3 DEF WorkerStep, ExamineExisting, CheckPending, AdmitRequest, RestoreAddr, Deliver,
                        ShutdownOkFails, tables
    <3> QED
      BY <3>1
  <2> QED
    BY <2>1, <2>2, <2>3
<1>2. ASSUME NEW x \in Threads, NEW j \in Id, RemovePeer(x, j) PROVE PhaseOf(i) = "held"
  BY <1>2 DEF RemovePeer
<1>3. ASSUME NEW w \in Workers, Packet(w) PROVE UNCHANGED peers
  BY <1>3 DEF Packet, ReceiveConnectRequest, ReceiveDisconnect, ReceiveMessage, tables
<1>4. ASSUME NEW h \in Handlers,
             TakeEvent(h) \/ Reject(h) \/ AllocateReused(h) \/ AllocateFresh(h) \/ MapAddr(h) \/ Recycle(h)
      PROVE  UNCHANGED peers
  BY <1>4 DEF TakeEvent, TakeRequest, TakeMessage, TakeClosure, Reject, AllocateReused, AllocateFresh,
              MapAddr, Recycle, tables
<1>5. ASSUME NEW x \in Threads, CloseStep(x) PROVE UNCHANGED peers
  BY <1>5 DEF CloseStep, Unmap, Retire, Announce, tables
<1> QED
  BY <1>1, <1>2, <1>3, <1>4, <1>5 DEF TableStep, Threads, Expire, Disconnect

(* The table's steps take a closure from its queue only for a handler *)
LEMMA TableTells ==
  ASSUME IInv, TableStep, NEW i \in Id, closures[i] > 0, ~(closures'[i] > 0)
  PROVE  \E h \in Handlers : /\ thr[h].pc = "idle" /\ thr'[h].pc = "cleanup" /\ thr'[h].id = i
<1> closures \in [Id -> Nat] /\ thr \in [Threads -> ThreadState]
  BY DEF IInv, TypeInv, TypeOK, TablesTyped
<1>1. ASSUME NEW h \in Handlers, NEW j \in Id, TakeClosure(h, j)
      PROVE  thr[h].pc = "idle" /\ thr'[h].pc = "cleanup" /\ thr'[h].id = i
  <2>1. j = i
    BY <1>1 DEF TakeClosure
  <2> DEFINE r == [Idle EXCEPT !.pc = "cleanup", !.id = i]
  <2>2. r.pc = "cleanup" /\ r.id = i
    BY DEF Idle
  <2>3. thr[h].pc = "idle" /\ Become(h, r) /\ h \in Threads
    BY <1>1, <2>1 DEF TakeClosure, At, Threads
  <2> HIDE DEF r
  <2> QED
    BY <2>2, <2>3 DEF Become
<1>2. ASSUME NEW x \in Threads, CloseStep(x) PROVE closures'[i] > 0
  <2>1. CASE Announce(x)
    BY <2>1 DEF Announce
  <2>2. CASE Unmap(x) \/ Retire(x)
    BY <2>2 DEF Unmap, Retire, events
  <2> QED
    BY <1>2, <2>1, <2>2 DEF CloseStep
<1>3. ASSUME NEW w \in Workers, Packet(w) \/ WorkerStep(w) PROVE UNCHANGED closures
  BY <1>3 DEF Packet, ReceiveConnectRequest, ReceiveDisconnect, ReceiveMessage, WorkerStep, ExamineExisting,
              EvictExisting, CheckPending, AdmitRequest, TakePeer, RestoreAddr, RestorePeer, Deliver,
              ShutdownOkFails, events
<1>4. ASSUME NEW h \in Handlers,
             \/ \E a \in Addr, t \in Time : TakeRequest(h, a, t)
             \/ \E j \in Id : TakeMessage(h, j)
             \/ Reject(h) \/ AllocateReused(h) \/ AllocateFresh(h) \/ MapAddr(h) \/ Recycle(h)
      PROVE  UNCHANGED closures
  BY <1>4 DEF TakeRequest, TakeMessage, Reject, AllocateReused, AllocateFresh, MapAddr, Recycle, events
<1>5. ASSUME NEW x \in Threads, NEW j \in Id, RemovePeer(x, j) PROVE UNCHANGED closures
  BY <1>5 DEF RemovePeer, events
<1> QED
  BY <1>1, <1>2, <1>3, <1>4, <1>5 DEF TableStep, TakeEvent, Threads, Expire, Disconnect

(* What is orphaned stays orphaned *)
LEMMA TableOrphans ==
  ASSUME TableStep
  PROVE  orphaned \subseteq orphaned'
<1>1. ASSUME NEW w \in Workers, Packet(w) PROVE UNCHANGED orphaned
  BY <1>1 DEF Packet, ReceiveConnectRequest, ReceiveDisconnect, ReceiveMessage, ids
<1>2. ASSUME NEW w \in Workers, WorkerStep(w) PROVE orphaned \subseteq orphaned'
  <2>1. CASE ShutdownOkFails(w)
    BY <2>1 DEF ShutdownOkFails
  <2>2. CASE ~ShutdownOkFails(w)
    BY <1>2, <2>2 DEF WorkerStep, ExamineExisting, EvictExisting, CheckPending, AdmitRequest, TakePeer,
                      RestoreAddr, RestorePeer, Deliver, ids
  <2> QED
    BY <2>1, <2>2
<1>3. ASSUME NEW x \in Threads, CloseStep(x) PROVE orphaned \subseteq orphaned'
  BY <1>3 DEF CloseStep, Unmap, Retire, Announce, ids
<1>4. ASSUME NEW x \in Threads, NEW j \in Id, RemovePeer(x, j) PROVE UNCHANGED orphaned
  BY <1>4 DEF RemovePeer, ids
<1>5. ASSUME NEW h \in Handlers, TakeEvent(h) PROVE UNCHANGED orphaned
  BY <1>5 DEF TakeEvent, TakeRequest, TakeMessage, TakeClosure, ids
<1>6. ASSUME NEW h \in Handlers,
             Reject(h) \/ AllocateReused(h) \/ AllocateFresh(h) \/ MapAddr(h) \/ Recycle(h)
      PROVE  UNCHANGED orphaned
  BY <1>6 DEF Reject, AllocateReused, AllocateFresh, MapAddr, Recycle, ids
<1> QED
  BY <1>1, <1>2, <1>3, <1>4, <1>5, <1>6 DEF TableStep, Threads, Expire, Disconnect

LEMMA TableTask ==
  ASSUME SessionInv, TableStep, UNCHANGED core
  PROVE  TaskInv'
<1>1. PICK x \in Threads : /\ \A y \in Threads \ {x} : thr'[y] = thr[y]
                           /\ thr[x].pc \notin HandlerOnly
                           /\ thr'[x].pc # "accepted"
  BY TableThread DEF SessionInv, IInv
<1>2. task' = task
  BY DEF core
<1> QED
  BY <1>1, <1>2 DEF SessionInv, TaskInv, Stage, At, HandlerOnly, Threads

LEMMA TableTracked ==
  ASSUME NoWrap, SessionInv, IInv', TableStep, UNCHANGED core
  PROVE  TrackedInv'
<1> SUFFICES ASSUME NEW i \in Id, PhaseOf(i)' \in {"live", "held"}
             PROVE  Tracked(i)'
  BY DEF TrackedInv
<1>1. PhaseOf(i) \in {"live", "held"}
  BY TableNext, TableInserts, Arrival DEF SessionInv
<1>2. Tracked(i)
  BY <1>1 DEF SessionInv, TrackedInv
<1>3. PICK x \in Threads : /\ \A y \in Threads \ {x} : thr'[y] = thr[y]
                           /\ thr[x].pc \notin HandlerOnly
  BY TableThread DEF SessionInv, IInv
<1>4. ASSUME NEW h \in Handlers, task[h].stage \in {"accepted", "finalize"}
      PROVE  thr'[h] = thr[h]
  BY <1>3, <1>4 DEF SessionInv, TaskInv, Stage, At, HandlerOnly, Threads
<1>5. Registering(i) => Registering(i)'
  BY <1>4 DEF Registering, core
<1> QED
  BY <1>2, <1>5 DEF Tracked, core, registry

LEMMA TableGhost ==
  ASSUME NoWrap, SessionInv, IInv', TableStep, UNCHANGED core
  PROVE  GhostInv'
<1> SUFFICES ASSUME NEW i \in Id, authenticated_peers[i] # None, i \notin late, i \notin orphaned'
             PROVE  Backed(i)'
  BY DEF GhostInv, Players, core, registry
<1> USE DEF SessionInv
<1>0. i \notin orphaned
  BY TableOrphans
<1>1. Backed(i)
  BY <1>0 DEF GhostInv, Players
<1>2. PICK x \in Threads : /\ \A y \in Threads \ {x} : thr'[y] = thr[y]
                           /\ thr[x].pc \notin HandlerOnly
  BY TableThread DEF IInv
<1>3. [Next]_vars
  BY TableNext
<1>4. UNCHANGED <<task, authenticated_peers>>
  BY DEF core, registry
<1>5. ASSUME NEW h \in Handlers, Removing(h, i) PROVE Removing(h, i)'
  BY <1>2, <1>4, <1>5 DEF Removing, At, HandlerOnly, Threads
<1>6. CASE ConnOf(i) = authenticated_peers[i]
  <2>1. PhaseOf(i) \in {"live", "held"}
    BY <1>6, PhaseRangeNow DEF PhaseRange
  <2>2. ConnOf(i)' = ConnOf(i) \/ PhaseOf(i)' = "closing"
    BY <1>3, <2>1, OneStep DEF Same
  <2> QED
    BY <1>4, <1>6, <2>2 DEF Backed
<1>7. CASE PhaseOf(i) \in {"closing", "retired", "told"}
  <2>1. \/ PhaseOf(i)' \in {"closing", "retired", "told", "lost"}
        \/ PhaseOf(i) = "told" /\ PhaseOf(i)' = "cleaning"
    BY <1>3, <1>7, OneStep DEF Same, Ids!After
  <2>2. PhaseOf(i)' # "lost"
    BY PhaseRangeNext DEF PhaseRange
  <2>3. CASE PhaseOf(i) = "told" /\ PhaseOf(i)' = "cleaning"
    <3>1. closures[i] > 0
      BY <2>3, PhaseRangeNow DEF PhaseRange
    <3>2. ~(closures'[i] > 0)
      BY <2>3, PlacedNext DEF Placed
    <3>3. PICK h \in Handlers : thr[h].pc = "idle" /\ thr'[h].pc = "cleanup" /\ thr'[h].id = i
      BY <3>1, <3>2, TableTells
    <3>4. task[h].stage = "none"
      BY <3>3 DEF TaskInv, CoreTyped, Stage, At
    <3>5. Removing(h, i)'
      BY <1>4, <3>3, <3>4 DEF Removing, At
    <3> QED
      BY <3>5 DEF Backed
  <2> QED
    BY <2>1, <2>2, <2>3 DEF Backed
<1> QED
  BY <1>1, <1>5, <1>6, <1>7 DEF Backed

-----------------------------------------------------------------------------
(* The steps of the core *)

CoreStep(h) == RequestStep(h) \/ MessageStep(h) \/ CleanupStep(h)

(* What a step of the core does to the handlers, by its own handler's places *)
LEMMA CoreThread ==
  ASSUME IInv, CoreTyped, NEW h \in Handlers, CoreStep(h)
  PROVE  /\ h \in Threads
         /\ \A g \in Handlers \ {h} : thr'[g] = thr[g] /\ task'[g] = task[g]
<1> thr \in [Threads -> ThreadState] /\ h \in Threads
  BY DEF IInv, TypeInv, TypeOK, Threads
<1>1. \A g \in Handlers \ {h} : thr'[g] = thr[g]
  BY DEF CoreStep, RequestStep, MessageStep, CleanupStep, AcceptBelowLimit, Accept, Insert, InsertPeer,
         ConnectAcceptFails, Challenge, FinalizeAccept, AuthIdentity, OtherMessage, ForgetPending,
         ForgetPeer, Release, ReleaseId, Finish, Goto, Rest, Become, Threads, vars
<1>2. \A g \in Handlers \ {h} : task'[g] = task[g]
  BY DEF CoreStep, RequestStep, MessageStep, CleanupStep, AcceptBelowLimit, Insert,
         ConnectAcceptFails, Challenge, FinalizeAccept, AuthIdentity, OtherMessage, ForgetPending,
         ForgetPeer, Release, Hold, Done, core, CoreTyped
<1> QED
  BY <1>1, <1>2

LEMMA CoreTables ==
  ASSUME NEW h \in Handlers, CoreStep(h)
  PROVE  /\ UNCHANGED <<closures, orphaned>>
         /\ ~Insert(h) => UNCHANGED peers
<1>1. UNCHANGED <<closures, orphaned>>
  BY DEF CoreStep, RequestStep, MessageStep, CleanupStep, AcceptBelowLimit, Accept, Insert, InsertPeer,
         ConnectAcceptFails, Challenge, FinalizeAccept, AuthIdentity, OtherMessage, ForgetPending,
         ForgetPeer, Release, ReleaseId, Finish, vars, ids, events
<1>2. ~Insert(h) => UNCHANGED peers
  BY DEF CoreStep, RequestStep, MessageStep, CleanupStep, AcceptBelowLimit, Accept,
         ConnectAcceptFails, Challenge, FinalizeAccept, AuthIdentity, OtherMessage, ForgetPending,
         ForgetPeer, Release, ReleaseId, Finish, vars, tables
<1> QED
  BY <1>1, <1>2

LEMMA CoreTask ==
  ASSUME SessionInv, NEW h \in Handlers, CoreStep(h)
  PROVE  TaskInv' /\ CoreTyped'
<1> USE DEF SessionInv
<1> thr \in [Threads -> ThreadState] /\ h \in Threads /\ Ready(thr[h])
  BY DEF IInv, TypeInv, TypeOK, Threads
<1> DEFINE Mine == /\ Stage(h, "accepted")' <=> At(h, "accepted")'
                   /\ Stage(h, "finalize")' => At(h, "message")'
                   /\ task'[h].stage \in {"forget", "release"} => At(h, "cleanup")'
                   /\ task'[h].stage \in {"accepted", "finalize"} => task'[h].ready \in Conn
<1>1. Mine => TaskInv'
  <2>1. ASSUME NEW g \in Handlers \ {h}
        PROVE  thr'[g] = thr[g] /\ task'[g] = task[g]
    BY <2>1, CoreThread
  <2> QED
    BY <2>1 DEF TaskInv, Stage, At
<1>2. NoTask = [stage |-> "none", ready |-> None]
  BY DEF NoTask
<1>3. CASE AcceptBelowLimit(h)
  <2>1. At(h, "decide") /\ At(h, "allocate")' /\ task' = task /\ CoreTyped'
    BY <1>3 DEF AcceptBelowLimit, Accept, Goto, Become, At, core, registry, CoreTyped, ThreadState
  <2>2. Mine
    BY <2>1 DEF TaskInv, Stage, At
  <2> QED
    BY <1>1, <2>1, <2>2
<1>4. CASE Insert(h)
  <2> DEFINE c == [addr |-> thr[h].addr, time |-> thr[h].time]
  <2>1. c \in Conn
    BY <1>4 DEF Insert, InsertPeer, At, Ready, WithAddr, WithTime, Conn
  <2>2. task' = [task EXCEPT ![h] = [stage |-> "accepted", ready |-> c]]
    BY <1>4 DEF Insert, Hold
  <2>3. At(h, "accepted")'
    <3>1. thr'[h] = [Idle EXCEPT !.pc = "accepted", !.id = thr[h].id]
      BY <1>4 DEF Insert, InsertPeer, Become
    <3> QED
      BY <3>1 DEF At, Idle
  <2> HIDE DEF c
  <2>4. task'[h] = [stage |-> "accepted", ready |-> c] /\ CoreTyped'
    BY <1>4, <2>1, <2>2 DEF CoreTyped, Insert, registry
  <2>5. Mine
    BY <2>1, <2>3, <2>4 DEF Stage, At
  <2> QED
    BY <1>1, <2>4, <2>5
<1>5. ASSUME Finish(h), Done(h) PROVE Mine
  <2>1. thr'[h] = Idle /\ task'[h] = NoTask
    BY <1>5 DEF Finish, Rest, Become, Done, CoreTyped
  <2> QED
    BY <1>2, <2>1 DEF Stage, At, Idle
<1>6. ASSUME ConnectAcceptFails(h) \/ Challenge(h) \/ FinalizeAccept(h)
      PROVE  Mine /\ CoreTyped'
  <2>1. Finish(h) /\ Done(h)
    BY <1>6 DEF ConnectAcceptFails, Challenge, FinalizeAccept
  <2>2. thr[h].id \in Id
    BY <2>1 DEF Finish, At, Ready, WithId
  <2>3. task' = [task EXCEPT ![h] = NoTask]
    BY <2>1 DEF Done
  <2>4. task' \in [Handlers -> [stage : {"none", "accepted", "finalize", "forget", "release"},
                                ready : Conn \cup {None}]]
    BY <1>2, <2>3 DEF CoreTyped
  <2>5. CASE ConnectAcceptFails(h)
    BY <1>5, <2>1, <2>2, <2>4, <2>5 DEF CoreTyped, ConnectAcceptFails
  <2>6. CASE Challenge(h)
    <3>1. task[h].ready \in Conn
      BY <2>6 DEF Challenge, Stage, TaskInv
    <3> QED
      BY <1>5, <2>1, <2>2, <2>4, <2>6, <3>1 DEF CoreTyped, Challenge
  <2>7. CASE FinalizeAccept(h)
    <3>1. task[h].ready \in Conn
      BY <2>7 DEF FinalizeAccept, Stage, TaskInv
    <3> QED
      BY <1>5, <2>1, <2>2, <2>4, <2>7, <3>1 DEF CoreTyped, FinalizeAccept
  <2> QED
    BY <1>6, <2>5, <2>6, <2>7
<1>7. CASE AuthIdentity(h)
  <2>1. /\ At(h, "message") /\ thr' = thr /\ thr[h].id \in Id
        /\ pending_identity[thr[h].id] \in Conn
        /\ task' = [task EXCEPT ![h] = [stage |-> "finalize", ready |-> pending_identity[thr[h].id]]]
    BY <1>7 DEF AuthIdentity, At, Hold, vars, CoreTyped, Ready, WithId
  <2>2. CoreTyped'
    BY <1>7, <2>1 DEF AuthIdentity, CoreTyped
  <2>3. Mine
    BY <2>1 DEF At, Stage, CoreTyped
  <2> QED
    BY <1>1, <2>2, <2>3
<1>8. CASE OtherMessage(h)
  <2>1. thr'[h] = Idle /\ task' = task /\ Stage(h, "none") /\ CoreTyped'
    BY <1>8 DEF OtherMessage, Finish, Rest, Become, core, registry, CoreTyped
  <2>2. Mine
    BY <2>1 DEF At, Stage, Idle
  <2> QED
    BY <1>1, <2>1, <2>2
<1>9. CASE ForgetPending(h) \/ ForgetPeer(h)
  <2>1. At(h, "cleanup") /\ thr' = thr /\ thr[h].id \in Id
    BY <1>9 DEF ForgetPending, ForgetPeer, TaskInv, Stage, At, vars, Ready, WithId, Carrying
  <2>2. task' = [task EXCEPT ![h] = [stage |-> "forget", ready |-> None]]
        \/ task' = [task EXCEPT ![h] = [stage |-> "release", ready |-> None]]
    BY <1>9 DEF ForgetPending, ForgetPeer, Hold
  <2>3. CoreTyped'
    BY <1>9, <2>1, <2>2 DEF ForgetPending, ForgetPeer, CoreTyped
  <2>4. Mine
    BY <2>1, <2>2 DEF At, Stage, CoreTyped
  <2> QED
    BY <1>1, <2>3, <2>4
<1>10. CASE Release(h)
  <2>1. thr'[h].pc # "accepted"
    BY <1>10 DEF Release, ReleaseId, Rest, Goto, Become, Idle, ThreadState
  <2>2. task' = [task EXCEPT ![h] = NoTask]
    BY <1>10 DEF Release, Done
  <2>3. CoreTyped'
    BY <1>2, <1>10, <2>2 DEF Release, CoreTyped, registry
  <2>4. Mine
    BY <1>2, <2>1, <2>2 DEF At, Stage, CoreTyped
  <2> QED
    BY <1>1, <2>3, <2>4
<1> QED
  BY <1>1, <1>3, <1>4, <1>6, <1>7, <1>8, <1>9, <1>10 DEF CoreStep, RequestStep, MessageStep, CleanupStep

(* A handler that cleans up holds the id, so that it is no live connection's *)
LEMMA CleaningIsAlone ==
  ASSUME IInv, NEW h \in Handlers, At(h, "cleanup")
  PROVE  thr[h].id \in Id /\ PhaseOf(thr[h].id) = "cleaning"
<1>1. h \in Threads /\ thr[h].id \in Id
  BY DEF IInv, TypeInv, Ready, WithId, Carrying, At, Threads
<1>2. Carries(h, thr[h].id)
  BY DEF Carries, Carrying, At
<1> QED
  BY <1>1, <1>2, PlacedNow DEF Placed, PhaseAt, At

LEMMA CoreTracked ==
  ASSUME NoWrap, SessionInv, IInv', NEW h \in Handlers, CoreStep(h)
  PROVE  TrackedInv'
<1> SUFFICES ASSUME NEW i \in Id, PhaseOf(i)' \in {"live", "held"}
             PROVE  Tracked(i)'
  BY DEF TrackedInv
<1> USE DEF SessionInv
<1>1. [Next]_vars
  <2>1. NextSession
    BY DEF CoreStep, NextSession
  <2> QED
    BY <2>1, SessionStep
<1>2. \A g \in Handlers \ {h} : thr'[g] = thr[g] /\ task'[g] = task[g]
  BY CoreThread
<1>3. CASE Insert(h) /\ i = thr[h].id
  <2>1. h \in Threads /\ thr \in [Threads -> ThreadState] /\ task \in [Handlers -> [stage : {"none", "accepted", "finalize", "forget", "release"},
                            ready : Conn \cup {None}]]
    BY DEF Threads, IInv, TypeInv, TypeOK, CoreTyped
  <2>2. thr'[h].id = i
    BY <1>3, <2>1 DEF Insert, InsertPeer, Become, Idle
  <2>3. task'[h].stage = "accepted"
    BY <1>3, <2>1 DEF Insert, Hold
  <2> QED
    BY <2>2, <2>3 DEF Tracked, Registering
<1>4. CASE ~(Insert(h) /\ i = thr[h].id)
  <2>1. peers'[i] = peers[i]
    <3>1. CASE Insert(h)
      BY <1>4, <3>1 DEF Insert, InsertPeer, IInv, TypeInv, TypeOK, TablesTyped
    <3>2. CASE ~Insert(h)
      BY <3>2, CoreTables
    <3> QED
      BY <3>1, <3>2
  <2>2. PhaseOf(i) \in {"live", "held"}
    BY <1>1, <2>1, Arrival DEF Live
  <2>3. Tracked(i)
    BY <2>2 DEF TrackedInv
  <2>4. At(h, "cleanup") => i # thr[h].id
    BY <2>2, CleaningIsAlone
  <2>5. ASSUME task[h].stage \notin {"accepted", "finalize"}, Registering(i)
        PROVE  Registering(i)'
    BY <1>2, <2>5 DEF Registering
  <2>6. CASE AcceptBelowLimit(h) \/ Insert(h) \/ OtherMessage(h)
    <3>1. UNCHANGED registry /\ ~(At(h, "accepted"))
      BY <2>6 DEF AcceptBelowLimit, Accept, Insert, InsertPeer, OtherMessage, core, At
    <3>2. task[h].stage \notin {"accepted", "finalize"}
      BY <2>6, <3>1 DEF AcceptBelowLimit, Accept, Insert, InsertPeer, OtherMessage, TaskInv, Stage, At
    <3> QED
      BY <2>3, <2>5, <3>1, <3>2 DEF Tracked, registry
  <2>7. CASE ConnectAcceptFails(h) \/ Challenge(h) \/ FinalizeAccept(h)
    <3>1. CASE thr[h].id = i
      <4>1. task[h].ready \in Conn /\ task[h].ready # None
        BY <2>7, NoneAssumption DEF ConnectAcceptFails, Challenge, FinalizeAccept, Stage, TaskInv
      <4> QED
        BY <2>7, <3>1, <4>1 DEF ConnectAcceptFails, Challenge, FinalizeAccept, Tracked, CoreTyped
    <3>2. CASE thr[h].id # i
      <4>1. Registering(i) => Registering(i)'
        BY <1>2, <3>2 DEF Registering
      <4>2. pending_identity[i] # None => pending_identity'[i] # None
        BY <2>7, <3>2 DEF ConnectAcceptFails, Challenge, FinalizeAccept, CoreTyped
      <4>3. authenticated_peers[i] # None => authenticated_peers'[i] # None
        BY <2>7, <3>2 DEF ConnectAcceptFails, Challenge, FinalizeAccept, CoreTyped
      <4>4. unregistered \subseteq unregistered'
        BY <2>7 DEF ConnectAcceptFails, Challenge, FinalizeAccept
      <4> QED
        BY <2>3, <4>1, <4>2, <4>3, <4>4 DEF Tracked
    <3> QED
      BY <3>1, <3>2
  <2>8. CASE AuthIdentity(h)
    <3>1. task[h].stage = "none" /\ thr' = thr /\ UNCHANGED <<authenticated_peers, unregistered>>
      BY <2>8 DEF AuthIdentity, Stage, vars
    <3>2. CASE thr[h].id = i
      <4>1. task'[h].stage = "finalize"
        BY <2>8 DEF AuthIdentity, Hold, CoreTyped
      <4> QED
        BY <3>1, <3>2, <4>1 DEF Tracked, Registering
    <3>3. CASE thr[h].id # i
      <4>1. pending_identity'[i] = pending_identity[i]
        BY <2>8, <3>3 DEF AuthIdentity, CoreTyped
      <4> QED
        BY <2>3, <2>5, <3>1, <4>1 DEF Tracked
    <3> QED
      BY <3>2, <3>3
  <2>9. CASE ForgetPending(h) \/ ForgetPeer(h) \/ Release(h)
    <3>1. At(h, "cleanup") /\ task[h].stage \notin {"accepted", "finalize"}
      BY <2>9 DEF ForgetPending, ForgetPeer, Release, Stage, TaskInv
    <3>2. thr[h].id # i
      BY <2>4, <3>1
    <3>3. pending_identity'[i] = pending_identity[i]
      BY <2>9, <3>2 DEF ForgetPending, ForgetPeer, Release, registry, CoreTyped
    <3>4. authenticated_peers'[i] = authenticated_peers[i]
      BY <2>9, <3>2 DEF ForgetPending, ForgetPeer, Release, registry, CoreTyped
    <3>5. i \in unregistered => i \in unregistered'
      BY <2>9, <3>2 DEF ForgetPending, ForgetPeer, Release, registry
    <3> QED
      BY <2>3, <2>5, <3>1, <3>3, <3>4, <3>5 DEF Tracked
  <2> QED
    BY <2>6, <2>7, <2>8, <2>9 DEF CoreStep, RequestStep, MessageStep, CleanupStep
<1> QED
  BY <1>3, <1>4

LEMMA CoreGhost ==
  ASSUME NoWrap, SessionInv, IInv', NEW h \in Handlers, CoreStep(h)
  PROVE  GhostInv'
<1> SUFFICES ASSUME NEW i \in Id, authenticated_peers'[i] # None, i \notin late', i \notin orphaned'
             PROVE  Backed(i)'
  BY DEF GhostInv, Players
<1> USE DEF SessionInv
<1>1. [Next]_vars
  <2>1. NextSession
    BY DEF CoreStep, NextSession
  <2> QED
    BY <2>1, SessionStep
<1>2. \A g \in Handlers \ {h} : thr'[g] = thr[g] /\ task'[g] = task[g]
  BY CoreThread
<1>3. CASE FinalizeAccept(h) /\ i = thr[h].id
  <2>1. peers[i] = task[h].ready /\ authenticated_peers'[i] = task[h].ready /\ peers' = peers
    BY <1>3 DEF FinalizeAccept, Finish, tables, CoreTyped
  <2>2. ConnOf(i)' = peers'[i]
    <3>1. Placed'
      BY PlacedNext
    <3>2. peers'[i] # None
      BY <2>1
    <3> QED
      BY <3>1, <3>2 DEF Placed, Live
  <2> QED
    BY <2>1, <2>2 DEF Backed
<1>4. CASE ~(FinalizeAccept(h) /\ i = thr[h].id)
  <2>1. ~(ForgetPeer(h) /\ i = thr[h].id)
    BY DEF ForgetPeer, CoreTyped
  <2>2. authenticated_peers'[i] = authenticated_peers[i]
    BY <1>4, <2>1 DEF CoreStep, RequestStep, MessageStep, CleanupStep, AcceptBelowLimit, Insert,
         ConnectAcceptFails, Challenge, FinalizeAccept, AuthIdentity, OtherMessage, ForgetPending,
         ForgetPeer, Release, core, registry, CoreTyped
  <2>3. i \notin late
    BY <1>4, <2>1 DEF CoreStep, RequestStep, MessageStep, CleanupStep, AcceptBelowLimit, Insert,
         ConnectAcceptFails, Challenge, FinalizeAccept, AuthIdentity, OtherMessage, ForgetPending,
         ForgetPeer, Release, core, registry
  <2>4. i \notin orphaned /\ closures'[i] = closures[i]
    BY CoreTables
  <2>5. Backed(i)
    BY <2>2, <2>3, <2>4 DEF GhostInv, Players
  <2>6. ASSUME NEW g \in Handlers, Removing(g, i) PROVE Removing(g, i)'
    <3>1. CASE g # h
      BY <1>2, <2>6, <3>1 DEF Removing, At
    <3>2. CASE g = h
      <4>1. ForgetPending(h)
        <5>1. ~ForgetPeer(h) /\ ~Release(h)
          BY <2>1, <2>6, <3>2 DEF Removing, Release, Stage
        <5>2. ~RequestStep(h) /\ ~MessageStep(h)
          BY <2>6, <3>2 DEF Removing, RequestStep, MessageStep, AcceptBelowLimit, Accept, Insert, InsertPeer,
               ConnectAcceptFails, Challenge, FinalizeAccept, AuthIdentity, OtherMessage, TaskInv, Stage, At
        <5> QED
          BY <5>1, <5>2 DEF CoreStep, CleanupStep
      <4>2. task'[h].stage = "forget" /\ thr' = thr
        BY <4>1 DEF ForgetPending, Hold, CoreTyped, vars
      <4> QED
        BY <2>6, <3>2, <4>2 DEF Removing, At
    <3> QED
      BY <3>1, <3>2
  <2>7. CASE ConnOf(i) = authenticated_peers[i]
    <3>1. PhaseOf(i) \in {"live", "held"}
      BY <2>2, <2>7, PhaseRangeNow DEF PhaseRange
    <3>2. ConnOf(i)' = ConnOf(i) \/ PhaseOf(i)' = "closing"
      BY <1>1, <3>1, OneStep DEF Same
    <3> QED
      BY <2>2, <2>7, <3>2 DEF Backed
  <2>8. CASE PhaseOf(i) \in {"closing", "retired", "told"}
    <3>1. PhaseOf(i)' \in {"closing", "retired", "told", "lost"} \/ PhaseOf(i) = "told"
      BY <1>1, <2>8, OneStep DEF Same, Ids!After
    <3>2. PhaseOf(i)' # "lost"
      BY PhaseRangeNext DEF PhaseRange
    <3>3. ASSUME PhaseOf(i) = "told" PROVE PhaseOf(i)' = "told"
      <4>1. closures[i] > 0
        BY <3>3, PhaseRangeNow DEF PhaseRange
      <4>2. closures'[i] > 0
        BY <2>4, <4>1
      <4> QED
        BY <4>2, PhaseRangeNext DEF PhaseRange
    <3> QED
      BY <3>1, <3>2, <3>3 DEF Backed
  <2> QED
    BY <2>5, <2>6, <2>7, <2>8 DEF Backed
<1> QED
  BY <1>3, <1>4

-----------------------------------------------------------------------------
(* The theorems *)

LEMMA SessionInvInit == InitSession => SessionInv
<1> SUFFICES ASSUME InitSession PROVE SessionInv
  OBVIOUS
<1>1. IInv
  BY TypeInit, IdInit DEF InitSession, IInv
<1>2. CoreTyped /\ TaskInv
  BY DEF InitSession, Init, CoreTyped, TaskInv, NoTask, Stage, At, Idle, Threads
<1>3. TrackedInv
  <2> SUFFICES ASSUME NEW i \in Id PROVE PhaseOf(i) = "free"
    BY DEF TrackedInv
  <2>1. ~Live(i) /\ ~(closures[i] > 0) /\ \A x \in Threads : ~Carries(x, i)
    BY DEF InitSession, Init, Live, Carries, Carrying, Idle
  <2>2. ~(i < fetched)
    BY DEF InitSession, Init, Id
  <2> QED
    BY <1>1, <2>1, <2>2, PlacedNow DEF Placed
<1>4. GhostInv
  BY DEF GhostInv, Players, InitSession
<1> QED
  BY <1>1, <1>2, <1>3, <1>4 DEF SessionInv

LEMMA SessionInvNext ==
  ASSUME NoWrap
  PROVE  SessionInv /\ [NextSession]_sessionVars => SessionInv'
<1> SUFFICES ASSUME SessionInv, [NextSession]_sessionVars PROVE SessionInv'
  OBVIOUS
<1>1. IInv'
  BY SessionStep, IInvStep DEF SessionInv
<1>2. CASE TableStep /\ UNCHANGED core
  <2>1. CoreTyped'
    BY <1>2 DEF SessionInv, CoreTyped, core, registry
  <2> QED
    BY <1>1, <1>2, <2>1, TableTask, TableTracked, TableGhost DEF SessionInv
<1>3. ASSUME NEW h \in Handlers, CoreStep(h) PROVE SessionInv'
  BY <1>1, <1>3, CoreTask, CoreTracked, CoreGhost DEF SessionInv
<1>4. CASE UNCHANGED sessionVars
  <2>1. /\ UNCHANGED <<tables, ids, events, thr>>
        /\ UNCHANGED <<pending_identity, authenticated_peers, task, unregistered, late>>
    BY <1>4 DEF sessionVars, vars, core, registry
  <2>2. ASSUME NEW i \in Id PROVE PhaseOf(i)' = PhaseOf(i) /\ ConnOf(i)' = ConnOf(i)
    BY <2>1 DEF PhaseOf, ConnOf, Carrier, Carriers, Live, Queued, tables, ids, events
  <2>3. CoreTyped' /\ TaskInv'
    BY <2>1 DEF SessionInv, CoreTyped, TaskInv, Stage, At
  <2>4. TrackedInv'
    BY <2>1, <2>2 DEF SessionInv, TrackedInv, Tracked, Registering
  <2>5. GhostInv'
    BY <2>1, <2>2 DEF SessionInv, GhostInv, Players, Backed, Removing, At, ids
  <2> QED
    BY <1>1, <2>3, <2>4, <2>5 DEF SessionInv
<1> QED
  BY <1>2, <1>3, <1>4 DEF NextSession, CoreStep

LEMMA SessionInvImplies ==
  SessionInv => LiveIsTracked /\ GhostsExplained
<1> SUFFICES ASSUME SessionInv PROVE LiveIsTracked /\ GhostsExplained
  OBVIOUS
<1> Placed /\ PhaseRange
  BY PlacedNow, PhaseRangeNow DEF SessionInv
<1>1. LiveIsTracked
  BY DEF LiveIsTracked, SessionInv, TrackedInv, Tracked, Placed
<1>2. GhostsExplained
  <2> SUFFICES ASSUME NEW i \in Players, i \notin late, i \notin orphaned
               PROVE  \/ peers[i] = authenticated_peers[i]
                      \/ closures[i] > 0
                      \/ \E x \in Threads : thr[x].id = i /\ thr[x].pc \in {"unmap", "retire", "announce"}
                      \/ \E x \in Threads : thr[x].id = i /\ thr[x].pc \in {"restore", "reinsert"}
                                            /\ thr[x].held = authenticated_peers[i]
                      \/ \E h \in Handlers : /\ thr[h].id = i /\ At(h, "cleanup")
                                             /\ task[h].stage \in {"none", "forget"}
    BY DEF GhostsExplained
  <2> i \in Id /\ authenticated_peers[i] # None
    BY DEF Players
  <2>1. Backed(i)
    BY DEF SessionInv, GhostInv
  <2>2. ASSUME NEW x \in Threads, Carries(x, i), ~(\E h \in Handlers : Removing(h, i))
        PROVE  \/ thr[x].pc \in {"unmap", "retire", "announce"}
               \/ thr[x].pc \in {"restore", "reinsert"} /\ thr[x].held = authenticated_peers[i]
    <3>1. PhaseOf(i) = PhaseAt[thr[x].pc]
      BY <2>2 DEF Placed
    <3>2. ConnOf(i) = IF PhaseAt[thr[x].pc] = "held" THEN thr[x].held ELSE None
      BY <2>2 DEF Placed
    <3> QED
      BY <2>1, <2>2, <3>1, <3>2 DEF Backed, Carries, Carrying, PhaseAt
  <2>3. CASE \E h \in Handlers : Removing(h, i)
    BY <2>3 DEF Removing
  <2>4. CASE \E x \in Threads : Carries(x, i)
    BY <2>2, <2>3, <2>4 DEF Carries
  <2>5. CASE (\A x \in Threads : ~Carries(x, i)) /\ ~(\E h \in Handlers : Removing(h, i))
    <3>1. CASE Live(i)
      BY <2>1, <2>5, <3>1 DEF Placed, Backed
    <3>2. CASE closures[i] > 0
      BY <3>2
    <3>3. CASE ~Live(i) /\ ~(closures[i] > 0)
      <4>1. PhaseOf(i) \in {"free", "lost"} /\ ConnOf(i) = None
        BY <2>5, <3>3 DEF Placed
      <4> QED
        BY <2>1, <2>5, <4>1 DEF Backed
    <3> QED
      BY <3>1, <3>2, <3>3
  <2> QED
    BY <2>3, <2>4, <2>5
<1> QED
  BY <1>1, <1>2

LEMMA SessionSafe == ASSUME NoWrap PROVE SpecSession => []SessionInv
<1>1. InitSession => SessionInv
  BY SessionInvInit
<1>2. SessionInv /\ [NextSession]_sessionVars => SessionInv'
  BY SessionInvNext
<1> QED
  BY <1>1, <1>2, PTL DEF SpecSession

(* No interleaving of accepting, authenticating and cleaning up leaves a live *)
(* connection that the core neither knows nor waits for.                      *)
THEOREM Tracking == ASSUME NoWrap PROVE SpecSession => []LiveIsTracked
<1>1. SessionInv => LiveIsTracked
  BY SessionInvImplies
<1> QED
  BY <1>1, SessionSafe, PTL

(* A player without its connection is one that the core was not told of, one  *)
(* that it entered too late, or one that is being removed.                    *)
THEOREM NoOtherGhosts == ASSUME NoWrap PROVE SpecSession => []GhostsExplained
<1>1. SessionInv => GhostsExplained
  BY SessionInvImplies
<1> QED
  BY <1>1, SessionSafe, PTL

(* The core's tables and tasks keep their types *)
THEOREM SessionTypes == ASSUME NoWrap PROVE SpecSession => []SessionTypeOK
<1>1. InitSession => use_auth_identity \in BOOLEAN
  BY DEF InitSession
<1>2. use_auth_identity \in BOOLEAN /\ [NextSession]_sessionVars => (use_auth_identity \in BOOLEAN)'
  BY DEF NextSession, RequestStep, MessageStep, CleanupStep, AcceptBelowLimit, Insert, ConnectAcceptFails,
         Challenge, FinalizeAccept, AuthIdentity, OtherMessage, ForgetPending, ForgetPeer, Release, core,
         sessionVars
<1>3. SpecSession => [](use_auth_identity \in BOOLEAN)
  BY <1>1, <1>2, PTL DEF SpecSession
<1>4. SessionInv /\ use_auth_identity \in BOOLEAN => SessionTypeOK
  BY DEF SessionTypeOK, SessionInv, CoreTyped, IInv, TypeInv
<1> QED
  BY <1>3, <1>4, SessionSafe, PTL

(* Seen from its ids, the core with its table still behaves as PeerIds does *)
THEOREM SessionLifecycle == ASSUME NoWrap PROVE SpecSession => Lifecycle
  BY SessionIsTable, Implements, PTL
=============================================================================

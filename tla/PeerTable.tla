------------------------------ MODULE PeerTable ------------------------------
(****************************************************************************)
(* The connection table of basis-transport: which peer id stands for which *)
(* remote connection, and how ids are given out, retired and used again.   *)
(*                                                                          *)
(* Several threads work on the table at once and every access to a         *)
(* DashMap, a mutex or an atomic is one step:                               *)
(*   - Workers run read_loop and handle one packet at a time;               *)
(*   - TimeoutLoop removes the peers that have been silent for too long;    *)
(*   - Operators call TransportHandle::disconnect (kick, ban, headless      *)
(*     sweep, shutdown);                                                    *)
(*   - Handlers are the tasks the server core spawns, one per event.        *)
(*                                                                          *)
(* The event channel is three families of counters, one per kind of event: *)
(* the core spawns a task for each event, so events start in any order.    *)
(****************************************************************************)
EXTENDS Naturals, Sequences, FiniteSets

CONSTANTS
  Addr,         \* remote socket addresses
  Time,         \* connect_time of a connection request
  IdSpace,      \* how many peer ids there are: 2^16 in the program
  Workers, Handlers, Operators, TimeoutLoop,
  None,
  MaxFetch,     \* bound: fetch_adds of next_peer_id
  MaxQueue,     \* bound: equal ConnectionRequest or PeerDisconnected events waiting
  MaxMessages   \* bound: Message events waiting, per id

Id      == 0 .. (IdSpace - 1)
Conn    == [addr : Addr, time : Time]
Threads == Workers \cup Handlers \cup Operators \cup {TimeoutLoop}

ASSUME IdAssumption   == IdSpace \in Nat \ {0} /\ {MaxFetch, MaxQueue, MaxMessages} \subseteq Nat
ASSUME TimeAssumption == Time \subseteq Nat
ASSUME NoneAssumption == None \notin Id \cup Addr \cup Time \cup Conn

VARIABLES
  peers,              \* id -> its connection, None when absent
  by_addr,            \* address -> id
  pending_requests,   \* address -> connect_time of the request in progress
  next_peer_id,       \* the AtomicU16
  fetched,            \* history: how often next_peer_id was fetched
  reusable_peer_ids,  \* the queue of ids to use again
  retired_peer_ids,   \* ids whose connection is gone and not cleaned up yet
  orphaned,           \* history: ids retired with no PeerDisconnected to follow
  requests,           \* ConnectionRequest events waiting, per address and time
  closures,           \* PeerDisconnected events waiting, per id
  messages,           \* Message events waiting, per id
  thr                 \* what each thread is doing

tables == <<peers, by_addr, pending_requests>>
ids    == <<next_peer_id, fetched, reusable_peer_ids, retired_peer_ids, orphaned>>
events == <<requests, closures, messages>>
vars   == <<tables, ids, events, thr>>

PC == {"idle",
       "examine", "evict", "check", "admit",     \* a ConnectRequest packet
       "take", "restore", "reinsert",            \* a Disconnect packet
       "deliver",                                \* a Message packet
       "unmap", "retire", "announce",            \* a connection being closed
       "decide", "allocate", "map", "insert", "accepted",  \* handlers
       "message", "cleanup", "recycle"}

Idle == [pc |-> "idle", addr |-> None, time |-> None, id |-> None, held |-> None]

Live(i)   == peers[i] # None
Queued(i) == \E k \in DOMAIN reusable_peer_ids : reusable_peer_ids[k] = i

Init ==
  /\ peers = [i \in Id |-> None]
  /\ by_addr = [a \in Addr |-> None]
  /\ pending_requests = [a \in Addr |-> None]
  /\ next_peer_id = 0
  /\ fetched = 0
  /\ reusable_peer_ids = <<>>
  /\ retired_peer_ids = {}
  /\ orphaned = {}
  /\ requests = [a \in Addr |-> [t \in Time |-> 0]]
  /\ closures = [i \in Id |-> 0]
  /\ messages = [i \in Id |-> 0]
  /\ thr = [x \in Threads |-> Idle]

At(x, s)     == thr[x].pc = s
Become(x, r) == thr' = [thr EXCEPT ![x] = r]
Goto(x, s)   == Become(x, [thr[x] EXCEPT !.pc = s])
Rest(x)      == Become(x, Idle)

-----------------------------------------------------------------------------
(* Workers: a ConnectRequest packet *)

ReceiveConnectRequest(w, a, t) ==
  /\ At(w, "idle")
  /\ Become(w, [pc   |-> IF by_addr[a] = None THEN "check" ELSE "examine",
                addr |-> a, time |-> t, id |-> by_addr[a], held |-> None])
  /\ UNCHANGED <<tables, ids, events>>

(* A request that is not newer than the connection ends here: the equal one *)
(* is answered with ConnectAccept again.                                    *)
ExamineExisting(w) ==
  /\ At(w, "examine")
  /\ LET old == peers[thr[w].id] IN
       IF old # None /\ thr[w].time <= old.time THEN Rest(w) ELSE Goto(w, "evict")
  /\ UNCHANGED <<tables, ids, events>>

EvictExisting(w) ==
  /\ At(w, "evict")
  /\ LET i == thr[w].id IN
       /\ Become(w, IF Live(i) THEN [thr[w] EXCEPT !.pc = "unmap", !.held = peers[i]]
                              ELSE [thr[w] EXCEPT !.pc = "check", !.id = None])
       /\ peers' = [peers EXCEPT ![i] = None]
  /\ UNCHANGED <<by_addr, pending_requests, ids, events>>

(* An older request than the pending one ends here, and an equal one too if *)
(* it repeats the connection number; with another number it goes on.        *)
CheckPending(w) ==
  /\ At(w, "check")
  /\ LET known == pending_requests[thr[w].addr] IN
       \/ known # None /\ thr[w].time <= known /\ Rest(w)
       \/ (known # None => thr[w].time >= known) /\ Goto(w, "admit")
  /\ UNCHANGED <<tables, ids, events>>

AdmitRequest(w) ==
  /\ At(w, "admit")
  /\ LET a == thr[w].addr  t == thr[w].time IN
       /\ requests[a][t] < MaxQueue
       /\ pending_requests' = [pending_requests EXCEPT ![a] = t]
       /\ requests' = [requests EXCEPT ![a][t] = @ + 1]
  /\ Rest(w)
  /\ UNCHANGED <<peers, by_addr, ids, closures, messages>>

-----------------------------------------------------------------------------
(* Workers: a Disconnect packet, for the connection of time t. The entry is *)
(* taken out before it is compared, and put back when it is another one.    *)

ReceiveDisconnect(w, a, t) ==
  /\ At(w, "idle")
  /\ by_addr[a] # None
  /\ Become(w, [pc |-> "take", addr |-> a, time |-> t, id |-> by_addr[a], held |-> None])
  /\ by_addr' = [by_addr EXCEPT ![a] = None]
  /\ UNCHANGED <<peers, pending_requests, ids, events>>

DisconnectMatches(w) == peers[thr[w].id].time = thr[w].time

\* Mutant: the entry is compared in place and not taken out
TakePeerInPlace(w) ==
  /\ At(w, "take")
  /\ LET i == thr[w].id IN
       Become(w, IF Live(i) /\ DisconnectMatches(w)
                   THEN [Idle EXCEPT !.pc = "retire", !.id = i] ELSE Idle)
  /\ UNCHANGED <<tables, ids, events>>

TakePeer(w) ==
  /\ At(w, "take")
  /\ LET i == thr[w].id IN
       /\ \/ ~Live(i) /\ Rest(w)
          \/ /\ Live(i) /\ DisconnectMatches(w)
             /\ Become(w, [Idle EXCEPT !.pc = "retire", !.id = i])
          \/ /\ Live(i) /\ ~DisconnectMatches(w)
             /\ Become(w, [pc |-> "restore", addr |-> thr[w].addr, time |-> None, id |-> i,
                           held |-> peers[i]])
       /\ peers' = [peers EXCEPT ![i] = None]
  /\ UNCHANGED <<by_addr, pending_requests, ids, events>>

\* Mutant: the connection that did not match is forgotten
RestoreNothing(w) ==
  At(w, "restore") /\ Rest(w) /\ UNCHANGED <<tables, ids, events>>

RestoreAddr(w) ==
  /\ At(w, "restore")
  /\ by_addr' = [by_addr EXCEPT ![thr[w].addr] = thr[w].id]
  /\ Become(w, [thr[w] EXCEPT !.pc = "reinsert", !.addr = None])
  /\ UNCHANGED <<peers, pending_requests, ids, events>>

RestorePeer(w) ==
  /\ At(w, "reinsert")
  /\ peers' = [peers EXCEPT ![thr[w].id] = thr[w].held]
  /\ Rest(w)
  /\ UNCHANGED <<by_addr, pending_requests, ids, events>>

-----------------------------------------------------------------------------
(* Workers: a Channeled packet becomes a Message of the id the address had *)

ReceiveMessage(w, a) ==
  /\ At(w, "idle")
  /\ by_addr[a] # None
  /\ Become(w, [Idle EXCEPT !.pc = "deliver", !.id = by_addr[a]])
  /\ UNCHANGED <<tables, ids, events>>

Deliver(w) ==
  /\ At(w, "deliver")
  /\ messages[thr[w].id] < MaxMessages
  /\ messages' = [messages EXCEPT ![thr[w].id] = @ + 1]
  /\ Rest(w)
  /\ UNCHANGED <<tables, ids, requests, closures>>

-----------------------------------------------------------------------------
(* Closing a connection. Silence is abstract: any peer may be timed out.   *)

RemovePeer(x, i) ==
  /\ At(x, "idle")
  /\ Live(i)
  /\ peers' = [peers EXCEPT ![i] = None]
  /\ Become(x, [pc |-> "unmap", addr |-> None, time |-> None, id |-> i, held |-> peers[i]])
  /\ UNCHANGED <<by_addr, pending_requests, ids, events>>

Expire(i)        == RemovePeer(TimeoutLoop, i)
Disconnect(o, i) == RemovePeer(o, i)

Unmap(x) ==
  /\ At(x, "unmap")
  /\ by_addr' = [by_addr EXCEPT ![thr[x].held.addr] = None]
  /\ Become(x, [thr[x] EXCEPT !.pc = "retire", !.held = None])
  /\ UNCHANGED <<peers, pending_requests, ids, events>>

\* Mutant: the id can be used again at once
RetireForReuse(x) ==
  /\ At(x, "retire")
  /\ reusable_peer_ids' = Append(reusable_peer_ids, thr[x].id)
  /\ IF x \in Operators THEN Rest(x) ELSE Goto(x, "announce")
  /\ UNCHANGED <<tables, next_peer_id, fetched, retired_peer_ids, orphaned, events>>

\* Mutant: the id is not entered in retired_peer_ids
RetireNowhere(x) ==
  /\ At(x, "retire")
  /\ IF x \in Operators THEN Rest(x) ELSE Goto(x, "announce")
  /\ UNCHANGED <<tables, ids, events>>

(* disconnect() ends here; the other paths go on to tell the core *)
Retire(x) ==
  /\ At(x, "retire")
  /\ retired_peer_ids' = retired_peer_ids \cup {thr[x].id}
  /\ IF x \in Operators
       THEN orphaned' = orphaned \cup {thr[x].id} /\ Rest(x)
       ELSE orphaned' = orphaned /\ Goto(x, "announce")
  /\ UNCHANGED <<tables, next_peer_id, fetched, reusable_peer_ids, events>>

(* After a Disconnect packet ShutdownOk is sent first: when that send fails *)
(* the worker returns and the core is never told.                           *)
ShutdownOkFails(w) ==
  /\ At(w, "announce") /\ thr[w].addr = None
  /\ orphaned' = orphaned \cup {thr[w].id}
  /\ Rest(w)
  /\ UNCHANGED <<tables, next_peer_id, fetched, reusable_peer_ids, retired_peer_ids, events>>

(* A ConnectRequest that evicted the old connection then goes on *)
Announce(x) ==
  /\ At(x, "announce")
  /\ closures[thr[x].id] < MaxQueue
  /\ closures' = [closures EXCEPT ![thr[x].id] = @ + 1]
  /\ IF thr[x].addr = None THEN Rest(x)
     ELSE Become(x, [thr[x] EXCEPT !.pc = "check", !.id = None])
  /\ UNCHANGED <<tables, ids, requests, messages>>

-----------------------------------------------------------------------------
(* Handlers: a ConnectionRequest event, and TransportHandle::accept *)

TakeRequest(h, a, t) ==
  /\ At(h, "idle")
  /\ requests[a][t] > 0
  /\ requests' = [requests EXCEPT ![a][t] = @ - 1]
  /\ Become(h, [pc |-> "decide", addr |-> a, time |-> t, id |-> None, held |-> None])
  /\ UNCHANGED <<tables, ids, closures, messages>>

\* Mutant: reject() leaves the pending mark
RejectKeepsMark(h) ==
  At(h, "decide") /\ Rest(h) /\ UNCHANGED <<tables, ids, events>>

Reject(h) ==
  /\ At(h, "decide")
  /\ pending_requests' = [pending_requests EXCEPT ![thr[h].addr] = None]
  /\ Rest(h)
  /\ UNCHANGED <<peers, by_addr, ids, events>>

(* Bound: as many requests are accepted as there are ids left to give out. *)
Room == Cardinality({h \in Handlers : At(h, "allocate")})
          < (MaxFetch - fetched) + Len(reusable_peer_ids)

Accept(h) ==
  /\ At(h, "decide")
  /\ Room
  /\ pending_requests' = [pending_requests EXCEPT ![thr[h].addr] = None]
  /\ Goto(h, "allocate")
  /\ UNCHANGED <<peers, by_addr, ids, events>>

(* One turn of the loop of allocate_peer_id: an id that is in use is skipped *)
Candidate(h, i) ==
  IF Live(i) THEN UNCHANGED thr
             ELSE Become(h, [thr[h] EXCEPT !.pc = "map", !.id = i])

\* Mutant: the front of the queue is read and not popped
AllocateFront(h) ==
  /\ At(h, "allocate")
  /\ reusable_peer_ids # <<>>
  /\ Candidate(h, Head(reusable_peer_ids))
  /\ UNCHANGED <<tables, ids, events>>

AllocateReused(h) ==
  /\ At(h, "allocate")
  /\ reusable_peer_ids # <<>>
  /\ reusable_peer_ids' = Tail(reusable_peer_ids)
  /\ Candidate(h, Head(reusable_peer_ids))
  /\ UNCHANGED <<tables, next_peer_id, fetched, retired_peer_ids, orphaned, events>>

\* Mutant: the counter is wider than a peer id and does not wrap
AllocateUnwrapped(h) ==
  /\ At(h, "allocate")
  /\ reusable_peer_ids = <<>>
  /\ fetched < MaxFetch
  /\ fetched' = fetched + 1
  /\ next_peer_id' = next_peer_id + 1
  /\ Candidate(h, next_peer_id)
  /\ UNCHANGED <<tables, reusable_peer_ids, retired_peer_ids, orphaned, events>>

AllocateFresh(h) ==
  /\ At(h, "allocate")
  /\ reusable_peer_ids = <<>>
  /\ fetched < MaxFetch
  /\ fetched' = fetched + 1
  /\ next_peer_id' = IF next_peer_id + 1 = IdSpace THEN 0 ELSE next_peer_id + 1
  /\ Candidate(h, next_peer_id)
  /\ UNCHANGED <<tables, reusable_peer_ids, retired_peer_ids, orphaned, events>>

MapAddr(h) ==
  /\ At(h, "map")
  /\ by_addr' = [by_addr EXCEPT ![thr[h].addr] = thr[h].id]
  /\ Goto(h, "insert")
  /\ UNCHANGED <<peers, pending_requests, ids, events>>

InsertPeer(h) ==
  /\ At(h, "insert")
  /\ peers' = [peers EXCEPT ![thr[h].id] = [addr |-> thr[h].addr, time |-> thr[h].time]]
  /\ Become(h, [Idle EXCEPT !.pc = "accepted", !.id = thr[h].id])
  /\ UNCHANGED <<by_addr, pending_requests, ids, events>>

-----------------------------------------------------------------------------
(* Handlers: Message and PeerDisconnected events *)

TakeMessage(h, i) ==
  /\ At(h, "idle")
  /\ messages[i] > 0
  /\ messages' = [messages EXCEPT ![i] = @ - 1]
  /\ Become(h, [Idle EXCEPT !.pc = "message", !.id = i])
  /\ UNCHANGED <<tables, ids, requests, closures>>

(* The handler of an accepted request or of a message returns *)
Finish(h) ==
  /\ At(h, "accepted") \/ At(h, "message")
  /\ Rest(h)
  /\ UNCHANGED <<tables, ids, events>>

TakeClosure(h, i) ==
  /\ At(h, "idle")
  /\ closures[i] > 0
  /\ closures' = [closures EXCEPT ![i] = @ - 1]
  /\ Become(h, [Idle EXCEPT !.pc = "cleanup", !.id = i])
  /\ UNCHANGED <<tables, ids, requests, messages>>

(* recycle_peer_id, the last call of handle_disconnect *)
ReleaseId(h) ==
  /\ At(h, "cleanup")
  /\ LET i == thr[h].id IN
       IF Live(i) \/ i \notin retired_peer_ids
         THEN Rest(h) /\ UNCHANGED retired_peer_ids
         ELSE Goto(h, "recycle") /\ retired_peer_ids' = retired_peer_ids \ {i}
  /\ UNCHANGED <<tables, next_peer_id, fetched, reusable_peer_ids, orphaned, events>>

Recycle(h) ==
  /\ At(h, "recycle")
  /\ reusable_peer_ids' = IF Queued(thr[h].id) THEN reusable_peer_ids
                          ELSE Append(reusable_peer_ids, thr[h].id)
  /\ Rest(h)
  /\ UNCHANGED <<tables, next_peer_id, fetched, retired_peer_ids, orphaned, events>>

-----------------------------------------------------------------------------

Packet(w) ==
  \/ \E a \in Addr, t \in Time : ReceiveConnectRequest(w, a, t)
  \/ \E a \in Addr, t \in Time : ReceiveDisconnect(w, a, t)
  \/ \E a \in Addr : ReceiveMessage(w, a)

WorkerStep(w) ==
  \/ ExamineExisting(w) \/ EvictExisting(w) \/ CheckPending(w) \/ AdmitRequest(w)
  \/ TakePeer(w) \/ RestoreAddr(w) \/ RestorePeer(w)
  \/ Deliver(w) \/ ShutdownOkFails(w)

CloseStep(x) == Unmap(x) \/ Retire(x) \/ Announce(x)

TakeEvent(h) ==
  \/ \E a \in Addr, t \in Time : TakeRequest(h, a, t)
  \/ \E i \in Id : TakeMessage(h, i) \/ TakeClosure(h, i)

AcceptStep(h) ==
  \/ Accept(h) \/ Reject(h)
  \/ AllocateReused(h) \/ AllocateFresh(h) \/ MapAddr(h) \/ InsertPeer(h)

RecycleStep(h) == ReleaseId(h) \/ Recycle(h)

Next ==
  \/ \E w \in Workers : Packet(w) \/ WorkerStep(w)
  \/ \E h \in Handlers : TakeEvent(h) \/ AcceptStep(h) \/ Finish(h) \/ RecycleStep(h)
  \/ \E i \in Id : Expire(i)
  \/ \E o \in Operators, i \in Id : Disconnect(o, i)
  \/ \E x \in Threads : CloseStep(x)

Spec == Init /\ [][Next]_vars

-----------------------------------------------------------------------------
(* State formulae *)

(* The threads that hold an id which is in no table at the moment *)
Carrying == {"map", "insert", "restore", "reinsert", "unmap", "retire", "announce",
             "cleanup", "recycle"}
Carriers(i) == {x \in Threads : thr[x].pc \in Carrying /\ thr[x].id = i}
Doing(s, i) == {x \in Threads : thr[x].pc = s /\ thr[x].id = i}

ThreadState == [pc : PC, addr : Addr \cup {None}, time : Time \cup {None},
                id : Id \cup {None}, held : Conn \cup {None}]

TablesTyped ==
  /\ peers \in [Id -> Conn \cup {None}]
  /\ by_addr \in [Addr -> Id \cup {None}]
  /\ pending_requests \in [Addr -> Time \cup {None}]
  /\ next_peer_id \in Id
  /\ fetched \in 0 .. MaxFetch
  /\ reusable_peer_ids \in Seq(Id)
  /\ retired_peer_ids \subseteq Id
  /\ orphaned \subseteq Id
  /\ requests \in [Addr -> [Time -> Nat]]
  /\ closures \in [Id -> Nat]
  /\ messages \in [Id -> Nat]

TypeOK == TablesTyped /\ thr \in [Threads -> ThreadState]

(* An id is given to a new connection only when the one that had it before is *)
(* gone, the core was told and has cleaned up: nothing of the old connection  *)
(* is queued, running or retired (allocate_peer_id, recycle_peer_id).         *)
ReuseOnlyAfterCleanup ==
  \A h \in Handlers : thr[h].pc \in {"map", "insert"} =>
    LET i == thr[h].id IN
      ~Live(i) /\ closures[i] = 0 /\ i \notin retired_peer_ids /\ Carriers(i) = {h}

(* The entry of a live peer is never overwritten by another connection: it is *)
(* removed first (peers.insert in accept and in the Disconnect path).         *)
NoLiveOverwrite ==
  [][\A i \in Id : peers[i] # None => peers'[i] \in {peers[i], None}]_vars

(* The core is told once of each connection that ends, whatever packet,       *)
(* timeout and eviction compete to end it, and never while it is live.        *)
OneClosurePerConnection ==
  \A i \in Id :
    LET told == closures[i] > 0  handled == Doing("cleanup", i)  toTell == Doing("announce", i)
    IN  /\ closures[i] <= 1
        /\ told => handled = {} /\ toTell = {}
        /\ \A x, y \in handled \cup toTell : x = y
        /\ told \/ handled \cup toTell # {} => ~Live(i)

(* No id leaks except by disconnect() and by a failed ShutdownOk: each id that *)
(* was given out is live, in the hands of a thread, waiting for its cleanup    *)
(* or in the queue of reusable ids.                                            *)
NoIdLost ==
  \A i \in Id : i < fetched =>
    Live(i) \/ Carriers(i) # {} \/ closures[i] > 0 \/ Queued(i) \/ i \in orphaned

(* An address marked as pending has a request that is still to be decided:    *)
(* otherwise its client could never connect again with that connect_time.     *)
PendingHasRequest ==
  \A a \in Addr : pending_requests[a] # None =>
    \/ \E t \in Time : requests[a][t] > 0
    \/ \E h \in Handlers : At(h, "decide") /\ thr[h].addr = a

(* The queue of reusable ids never holds an id twice (the any() check of      *)
(* recycle_peer_id), also after next_peer_id has wrapped.                     *)
NoDuplicateReusable ==
  \A j, k \in DOMAIN reusable_peer_ids :
    reusable_peer_ids[j] = reusable_peer_ids[k] => j = k

(* What the test peer_ids_reuse_only_after_cleanup_release is named for, of   *)
(* every allocation: an id in retired_peer_ids is not given out. It holds up  *)
(* to the wrap of next_peer_id, which is compared with the live peers only.   *)
RetiredIdsNotReused ==
  \A h \in Handlers : At(h, "map") => thr[h].id \notin retired_peer_ids

-----------------------------------------------------------------------------
(* The inductive invariant behind these properties *)

(* A thread has the fields that its next step reads *)
WithAddr == {"examine", "evict", "check", "admit", "take", "restore",
             "decide", "allocate", "map", "insert"}
WithTime == WithAddr \ {"restore"}
WithId   == Carrying \cup {"examine", "evict", "take", "deliver", "accepted", "message"}
WithHeld == {"restore", "reinsert", "unmap"}

Ready(r) ==
  /\ r.pc \in WithAddr => r.addr \in Addr
  /\ r.pc \in WithTime => r.time \in Time
  /\ r.pc \in WithId   => r.id \in Id
  /\ r.pc \in WithHeld => r.held \in Conn
  /\ r.pc \in {"unmap", "retire", "announce"} /\ r.addr # None => r.time \in Time

TypeInv == TypeOK /\ \A x \in Threads : Ready(thr[x])

(* next_peer_id has not wrapped: an id is fetched for the first time *)
NoWrap == MaxFetch <= IdSpace

FreshInv == fetched < IdSpace => next_peer_id = fetched

(* An id is in one place: with one thread, in peers, announced, or queued *)
CarriedInv ==
  \A x \in Threads : thr[x].pc \in Carrying =>
    LET i == thr[x].id IN
      /\ i < fetched /\ ~Live(i) /\ closures[i] = 0 /\ ~Queued(i)
      /\ i \in retired_peer_ids <=> thr[x].pc \in {"announce", "cleanup"}
      /\ \A y \in Threads : thr[y].pc \in Carrying /\ thr[y].id = i => y = x

LiveInv ==
  \A i \in Id : Live(i) =>
    i < fetched /\ closures[i] = 0 /\ ~Queued(i) /\ i \notin retired_peer_ids

ClosureInv ==
  \A i \in Id : closures[i] > 0 =>
    closures[i] = 1 /\ i < fetched /\ i \in retired_peer_ids /\ ~Queued(i)

QueueInv ==
  /\ NoDuplicateReusable
  /\ \A i \in Id : Queued(i) => i < fetched /\ i \notin retired_peer_ids

RetiredInv == \A i \in retired_peer_ids : i < fetched

IdInv == FreshInv /\ CarriedInv /\ LiveInv /\ ClosureInv /\ QueueInv /\ RetiredInv /\ NoIdLost

IInv == TypeInv /\ IdInv
=============================================================================

----------------------------- MODULE PeerSession -----------------------------
(****************************************************************************)
(* What the server core knows of its peers, on top of the connection table. *)
(* A handler that accepted a connection enters it in pending_identity, or,  *)
(* when no identity is asked for, in authenticated_peers; an AUTH_IDENTITY  *)
(* message moves it from the one to the other; handle_disconnect takes it   *)
(* out of both before it gives the id back. The events of a peer are        *)
(* handled by tasks of their own, in any order and side by side.            *)
(****************************************************************************)
EXTENDS PeerTableIds

CONSTANT PeerLimit    \* config.peer_limit

ASSUME LimitAssumption == PeerLimit \in Nat

VARIABLES
  use_auth_identity,     \* config.use_auth_identity
  pending_identity,      \* id -> the ready message of its request, None when absent
  authenticated_peers,   \* id -> the ready message of the player
  task,                  \* how far each handler is, and the ready message it holds
  unregistered,          \* history: ids accepted by a handler that then failed
  late                   \* history: players entered for a connection that was over

registry    == <<pending_identity, authenticated_peers, unregistered, late>>
core        == <<use_auth_identity, registry, task>>
sessionVars == <<vars, core>>

NoTask == [stage |-> "none", ready |-> None]

InitSession ==
  /\ Init
  /\ use_auth_identity \in BOOLEAN
  /\ pending_identity = [i \in Id |-> None]
  /\ authenticated_peers = [i \in Id |-> None]
  /\ task = [h \in Handlers |-> NoTask]
  /\ unregistered = {}
  /\ late = {}

Stage(h, s)   == task[h].stage = s
Hold(h, s, r) == task' = [task EXCEPT ![h] = [stage |-> s, ready |-> r]]
Done(h)       == task' = [task EXCEPT ![h] = NoTask]

Players == {i \in Id : authenticated_peers[i] # None}

-----------------------------------------------------------------------------
(* handle_connection_request *)

(* Every check of the request but the one of the limit is abstract: any      *)
(* request may be rejected, and none is accepted while the server is full.   *)
AcceptBelowLimit(h) ==
  /\ Cardinality(Players) < PeerLimit
  /\ Accept(h)
  /\ UNCHANGED core

Insert(h) ==
  /\ InsertPeer(h)
  /\ Hold(h, "accepted", [addr |-> thr[h].addr, time |-> thr[h].time])
  /\ UNCHANGED <<use_auth_identity, registry>>

(* accept() returns the error of send_connect_accept, with the peer inserted *)
ConnectAcceptFails(h) ==
  /\ Stage(h, "accepted")
  /\ unregistered' = unregistered \cup {thr[h].id}
  /\ Finish(h) /\ Done(h)
  /\ UNCHANGED <<use_auth_identity, pending_identity, authenticated_peers, late>>

Challenge(h) ==
  /\ Stage(h, "accepted") /\ use_auth_identity
  /\ pending_identity' = [pending_identity EXCEPT ![thr[h].id] = task[h].ready]
  /\ Finish(h) /\ Done(h)
  /\ UNCHANGED <<use_auth_identity, authenticated_peers, unregistered, late>>

(* The meta data, the avatar cache and the fan-out that follow are not here *)
FinalizeAccept(h) ==
  /\ Stage(h, "finalize") \/ (Stage(h, "accepted") /\ ~use_auth_identity)
  /\ LET i == thr[h].id  ready == task[h].ready IN
       /\ authenticated_peers' = [authenticated_peers EXCEPT ![i] = ready]
       /\ late' = IF peers[i] = ready THEN late \ {i} ELSE late \cup {i}
  /\ Finish(h) /\ Done(h)
  /\ UNCHANGED <<use_auth_identity, pending_identity, unregistered>>

-----------------------------------------------------------------------------
(* handle_message: AUTH_IDENTITY, and every other channel *)

\* Mutant: the handler fails between the removal and finalize_accept
AuthIdentityFails(h) ==
  /\ At(h, "message") /\ Stage(h, "none")
  /\ pending_identity[thr[h].id] # None
  /\ pending_identity' = [pending_identity EXCEPT ![thr[h].id] = None]
  /\ Finish(h)
  /\ UNCHANGED <<task, use_auth_identity, authenticated_peers, unregistered, late>>

AuthIdentity(h) ==
  /\ At(h, "message") /\ Stage(h, "none")
  /\ LET i == thr[h].id IN
       /\ pending_identity[i] # None
       /\ pending_identity' = [pending_identity EXCEPT ![i] = None]
       /\ Hold(h, "finalize", pending_identity[i])
  /\ UNCHANGED <<vars, use_auth_identity, authenticated_peers, unregistered, late>>

OtherMessage(h) ==
  /\ At(h, "message") /\ Stage(h, "none")
  /\ Finish(h)
  /\ UNCHANGED core

-----------------------------------------------------------------------------
(* handle_disconnect: the tables of the other components are not here *)

ForgetPending(h) ==
  /\ At(h, "cleanup") /\ Stage(h, "none")
  /\ pending_identity' = [pending_identity EXCEPT ![thr[h].id] = None]
  /\ Hold(h, "forget", None)
  /\ UNCHANGED <<vars, use_auth_identity, authenticated_peers, unregistered, late>>

\* Mutant: the player stays in authenticated_peers
ForgetNobody(h) ==
  /\ Stage(h, "forget")
  /\ late' = late \ {thr[h].id}
  /\ unregistered' = unregistered \ {thr[h].id}
  /\ Hold(h, "release", None)
  /\ UNCHANGED <<vars, use_auth_identity, pending_identity, authenticated_peers>>

ForgetPeer(h) ==
  /\ Stage(h, "forget")
  /\ authenticated_peers' = [authenticated_peers EXCEPT ![thr[h].id] = None]
  /\ late' = late \ {thr[h].id}
  /\ unregistered' = unregistered \ {thr[h].id}
  /\ Hold(h, "release", None)
  /\ UNCHANGED <<vars, use_auth_identity, pending_identity>>

Release(h) ==
  /\ Stage(h, "release")
  /\ ReleaseId(h) /\ Done(h)
  /\ UNCHANGED <<use_auth_identity, registry>>

-----------------------------------------------------------------------------

RequestStep(h) ==
  AcceptBelowLimit(h) \/ Insert(h) \/ ConnectAcceptFails(h) \/ Challenge(h) \/ FinalizeAccept(h)
MessageStep(h) == AuthIdentity(h) \/ OtherMessage(h)
CleanupStep(h) == ForgetPending(h) \/ ForgetPeer(h) \/ Release(h)

(* The steps of the table that the core has no part in *)
TableStep ==
  \/ \E w \in Workers : Packet(w) \/ WorkerStep(w)
  \/ \E h \in Handlers :
       TakeEvent(h) \/ Reject(h) \/ AllocateReused(h) \/ AllocateFresh(h) \/ MapAddr(h) \/ Recycle(h)
  \/ \E i \in Id : Expire(i)
  \/ \E o \in Operators, i \in Id : Disconnect(o, i)
  \/ \E x \in Threads : CloseStep(x)

NextSession ==
  \/ TableStep /\ UNCHANGED core
  \/ \E h \in Handlers : RequestStep(h) \/ MessageStep(h) \/ CleanupStep(h)

SpecSession == InitSession /\ [][NextSession]_sessionVars

(* Packets, timeouts and kicks come or do not come. A thread that has begun *)
(* goes on, and the runtime lets every spawned task run at some time.       *)
HandlerStep(h) ==
  \/ RequestStep(h) \/ MessageStep(h) \/ CleanupStep(h)
  \/ /\ Reject(h) \/ AllocateReused(h) \/ AllocateFresh(h) \/ MapAddr(h) \/ Recycle(h)
     /\ UNCHANGED core

FairSession ==
  /\ SpecSession
  /\ \A w \in Workers : WF_sessionVars(WorkerStep(w) /\ UNCHANGED core)
  /\ \A x \in Threads : WF_sessionVars(CloseStep(x) /\ UNCHANGED core)
  /\ \A h \in Handlers : WF_sessionVars(HandlerStep(h))
  /\ \A i \in Id : SF_sessionVars(\E h \in Handlers : TakeClosure(h, i)
                                      /\ UNCHANGED core)
  /\ \A a \in Addr, t \in Time :
       SF_sessionVars(\E h \in Handlers : TakeRequest(h, a, t)
                        /\ UNCHANGED core)

-----------------------------------------------------------------------------

SessionTypeOK ==
  /\ TypeOK
  /\ use_auth_identity \in BOOLEAN
  /\ pending_identity \in [Id -> Conn \cup {None}]
  /\ authenticated_peers \in [Id -> Conn \cup {None}]
  /\ task \in [Handlers -> [stage : {"none", "accepted", "finalize", "forget", "release"},
                            ready : Conn \cup {None}]]
  /\ unregistered \subseteq Id
  /\ late \subseteq Id

Registering(i) == \E h \in Handlers : task[h].stage \in {"accepted", "finalize"} /\ thr[h].id = i

(* A live connection is never forgotten: the core has it as a player, waits   *)
(* for its identity, or is entering it (handle_connection_request and         *)
(* AUTH_IDENTITY against handle_disconnect). The one exception is a           *)
(* connection whose ConnectAccept could not be sent.                          *)
LiveIsTracked ==
  \A i \in Id : Live(i) =>
    \/ pending_identity[i] # None \/ authenticated_peers[i] # None
    \/ Registering(i) \/ i \in unregistered

(* A player of authenticated_peers is the one whose connection has the id, or *)
(* its removal is under way. Otherwise the core was not told that the         *)
(* connection is over, or entered the player after it had cleaned up.         *)
GhostsExplained ==
  \A i \in Players : i \notin late /\ i \notin orphaned =>
    \/ peers[i] = authenticated_peers[i]
    \/ closures[i] > 0
    \/ \E x \in Threads : thr[x].id = i /\ thr[x].pc \in {"unmap", "retire", "announce"}
    \/ \E x \in Threads : thr[x].id = i /\ thr[x].pc \in {"restore", "reinsert"}
                          /\ thr[x].held = authenticated_peers[i]
    \/ \E h \in Handlers : thr[h].id = i /\ At(h, "cleanup") /\ task[h].stage \in {"none", "forget"}

(* A retired id whose closure was announced comes back to the queue.          *)
IdComesBack ==
  \A i \in Id : (closures[i] > 0) ~> Queued(i)

(* A pending mark is always taken off again, so that retries are let in.      *)
RequestAnswered ==
  \A a \in Addr : (pending_requests[a] # None) ~> (pending_requests[a] = None)

(* The end of a connection that the core is told of takes its player out      *)
PlayerForgotten ==
  \A i \in Id : (closures[i] > 0) ~> (authenticated_peers[i] = None)

(* What /players prints: "Lists all connected players" (console main.rs). When *)
(* nothing is under way, each player listed has a connection.                 *)
ListedAreConnected ==
  (\A x \in Threads : thr[x] = Idle) /\ (\A i \in Id : closures[i] = 0)
    => \A i \in Players : Live(i)
=============================================================================
